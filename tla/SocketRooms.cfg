SPECIFICATION Spec
CONSTANTS
    Ids = {u1, u2, u3}
    SessionIds = {s1, s2}
    Sids = {x1, x2, x3, x4}
SYMMETRY RoomSymmetry
INVARIANTS
    TypeOK
    NoCrossTalk
    NobodyMissesRoomId
    FramesAfterRoomId
