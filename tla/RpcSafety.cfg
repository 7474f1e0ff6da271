SPECIFICATION Spec
CONSTANTS
    Senders = {t1, t2}
    Outgoing = {c1, c2}
    Incoming = {}
    Packets = {m1, m2}
    None = None
SYMMETRY Symmetry
INVARIANTS
    NothingStranded
    
    NoDeadSession
CHECK_DEADLOCK FALSE
