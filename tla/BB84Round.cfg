SPECIFICATION FairSpec
CONSTANTS
    NumRaw = 10
    MinSifted = 3
    SamplePercent = 50
    WarningPercent = 30
    ThresholdPercent = 50
    SecurityParameter = 1
    TargetLength = 4
    ByteBits = 2
INVARIANTS
    TypeOK
    OnlyPairsSurvive
    ResultAllowed
PROPERTIES
    OneErrorPerSearch
    RoundEnds
