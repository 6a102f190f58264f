\* A thread that also waits for packet buffers, a closer and one interface.
CONSTANTS
    Users = {u1}
    PktUsers = {u1}
    Closers = {c1}
    Irqs = {i1}
    Work = work
    Eps = {e1}
    MaxEvents = 1
SPECIFICATION FairSpec
INVARIANTS
    PktWaiterIsRemembered
PROPERTIES
    SharedIsALock
    TrustedIsALock
    EventsArePolled
    SleepersAreWoken
    EndpointsAreClosed
