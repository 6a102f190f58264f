\* Two handlers, one of them of a stream the kubelet left.
CONSTANTS
    Nics = {n1}
    vNicPerNic = 2
    Handlers = {h1, h2}
    Mem = FALSE
    OtherWriters = TRUE
    NoStream = NoStream
SPECIFICATION Spec
INVARIANTS TypeOK ReportedIsRecorded AllocateSeesWholeMap
