SPECIFICATION FairSpec
CONSTANTS
    Ids = {u1, u2, u3, u4}
    SessionIds = {s1, s2, s3}
    None = None
    ReissueIds = FALSE
INVARIANTS
    TypeOK
    PeerSymmetry
    AnswerStillValid
    SessionForCall
PROPERTIES
    HangUpEndsOneCall
    NoCallStolen
    ImplementsCallRegistry
    EveryRequestEnds
