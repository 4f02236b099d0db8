SPECIFICATION FairSpec
CONSTANTS
    Handlers = {h1}
    Threads = {t1, t2, t3}
    None = None
    Audio = TRUE
INVARIANTS
    TypeOK
    NoOrphan
PROPERTIES
    StoppedThreadsEnd
    HandlersReturn
