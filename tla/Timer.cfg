SPECIFICATION FairSpec
CONSTANTS
    Tasks = {t1, t2}
    AlarmKeys = {a}
    TimerKeys = {r}
    Delays = {1, 2}
    LastRequest = 0
    Horizon = 2
    MaxThrows = 1
    None = None
INVARIANTS
    StopReachesArmed
    OneStaleTick
    NoOversleep
PROPERTIES
    KeepsPromise
    EventuallyTicks
    DeinitReturns
CHECK_DEADLOCK FALSE
