SPECIFICATION Spec
CONSTANTS
    Events = {e1, e2, e3}
    Workers = {w1, w2, w3}
    MaxThreads = 2
    NULL = NULL
SYMMETRY Symmetry
INVARIANTS
    ThreadLimit
    NothingLost
    IdleMapExact
CHECK_DEADLOCK FALSE
