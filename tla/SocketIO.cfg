SPECIFICATION MCSpec
CONSTANTS
    Sockets = {s1}
    Pollers = {p1, p2}
    NoSocket = NoSocket
    MaxOut = 2
INVARIANTS
    OneAnswer
    OutputIsWatched
    EndIsLast
    ClosedIsTold
PROPERTIES
    ConnectIsAnswered
    LossIsNoticed
    MarkedIsClosed
CHECK_DEADLOCK FALSE
