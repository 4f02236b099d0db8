SPECIFICATION Spec
CONSTANTS
    Handlers = {h1, h2}
    Threads = {t1, t2, t3}
    None = None
    Audio = FALSE
INVARIANT
    NoOrphan
