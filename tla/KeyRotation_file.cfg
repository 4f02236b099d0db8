SPECIFICATION Spec
CONSTANTS
    Peers = {a, b}
    Generator = "FILE"
    Scheme = "AES"
    FileKeys = 3
    MaxRounds = 4
    MaxFlight = 1
INVARIANTS
    TypeOK
    RightKeyAfterFirst
