\* A leaked handler takes the change.
CONSTANTS
    Nics = {n1}
    vNicPerNic = 1
    Handlers = {h1, h2}
    Mem = FALSE
    OtherWriters = FALSE
    NoStream = NoStream
SPECIFICATION FairSpec
PROPERTY ChangesAreReported
