\* Two resources that share an interface, with interfaces coming and going.
\* Nothing goes on once the allocator has died and its pods have ended.
CONSTANTS
    n1 = n1  n2 = n2  v1 = v1  v2 = v2
    Nics = {n1, n2}
    MaxIndex = 2
    vNicPerNic = 1
    Servers = {v1, v2}
    Assigned <- SharedNic
    Pods = {p1, p2}
    ViPool = 2
    PdPool = 2
    NoPod = NoPod
    NoVi = NoVi
SYMMETRY AnyPod
CHECK_DEADLOCK FALSE
SPECIFICATION Spec
INVARIANTS TypeOK 
PROPERTY ViIsKept
