SPECIFICATION FairSpec
CONSTANTS
    Browsers = {b1, b2}
    Threshold = 2
    MaxFails = 3
INVARIANTS
    TypeOK
    ReadyOnlyWhenAlive
    AsksOnce
PROPERTIES
    LossIsSeen
    ReturnIsSeen
