SPECIFICATION Spec
CONSTANTS
    Ids = {u1, u2, u3}
    SessionIds = {s1, s2}
    None = None
    ReissueIds = TRUE
PROPERTY
    HangUpSparesOthers
