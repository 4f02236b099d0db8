SPECIFICATION FairSpec
CONSTANTS
    Addresses = {a1, a2}
    MaxRequests = 2
    Window = 3
    Timers = {t1, t2}
    MaxClock = 6
INVARIANTS
    TypeOK
    WindowBound
    NoLockout
PROPERTY
    ShutdownHappens
