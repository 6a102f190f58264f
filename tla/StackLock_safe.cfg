\* A thread, a closer and two interfaces, each of which can get an event, or
\* one of them two.
CONSTANTS
    Users = {u1}
    PktUsers = {}
    Closers = {c1}
    Irqs = {i1, i2}
    Work = work
    Eps = {e1}
    MaxEvents = 2
SPECIFICATION Spec
SYMMETRY Symmetry
INVARIANTS
    TypeOK
    MutualExclusion
    NoLostWakeup
    UnlockedMeansHandled
    ClosingIsOwed
    PrimeIsOwed
    InterruptContext
