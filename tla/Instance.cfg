SPECIFICATION FairSpec
CONSTANTS
    None = None
    rpc = rpc
    oscar = oscar
    socket = socket
    Threads = {t1, t2}
    Services = {rpc, oscar, socket}
    Registered = {rpc, oscar}
    Needs <- MCNeeds
    Rank <- MCRank
    MaxCalls = 2
INVARIANTS
    OneInstance
    ReadyOrBeingStarted
    StartedIsWired
PROPERTIES
    EveryCallReturns
CHECK_DEADLOCK FALSE
