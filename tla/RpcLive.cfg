SPECIFICATION FairSpec
CONSTANTS
    Senders = {t1}
    Outgoing = {c1}
    Incoming = {a1}
    Packets = {m1, m2}
    None = None
PROPERTIES
    CachedIsSent
CHECK_DEADLOCK FALSE
