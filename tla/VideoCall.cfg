SPECIFICATION FairSpec
CONSTANTS
    Ids = {u1, u2}
    SessionIds = {s1, s2}
    Sids = {x1, x2, x3}
    None = None
    MaxTries = 2
    AdminCalls = 1
CHECK_DEADLOCK FALSE
INVARIANT
    MediaOnlyInCalls
    NobodyForgotten
PROPERTIES
    ImplementsRooms
    CallComesUp
