SPECIFICATION FairSpec
CONSTANTS
    Events = {e1, e2, e3}
    NULL = NULL
INVARIANTS
    HandledInOrder
PROPERTIES
    DeinitReturns
CHECK_DEADLOCK FALSE
