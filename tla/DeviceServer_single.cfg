\* One handler at a time, serving memory-mapped interfaces.
CONSTANTS
    Nics = {n1, n2}
    vNicPerNic = 1
    Handlers = {h1}
    Mem = TRUE
    OtherWriters = TRUE
    NoStream = NoStream
SPECIFICATION FairSpec
INVARIANTS ViewMatchesDevices ReportedIsRecorded
PROPERTIES EntriesAreKept ChangesAreReported
