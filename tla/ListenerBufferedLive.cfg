SPECIFICATION FairSpec
CONSTANTS
    Events = {e1, e2}
    Workers = {w1, w2}
    MaxThreads = 2
    NULL = NULL
PROPERTIES
    EventuallyHandled
    JoinReturns
    ImplementsExecutor
CHECK_DEADLOCK FALSE
