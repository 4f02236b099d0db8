SPECIFICATION Spec
CONSTANTS
    Peers = {c}
    Generator = "BB84"
    Scheme = "XOR"
    FileKeys = 3
    MaxRounds = 5
    MaxFlight = 1
INVARIANTS
    MonitorCountsRotations
    ToldWhatHappened
PROPERTY
    NewIndexNewKey
