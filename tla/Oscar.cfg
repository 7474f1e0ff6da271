SPECIFICATION FairSpec
CONSTANTS
    Width = 7
    GroupBits = 2
    Payloads <- MCPayloads
    GoodVersion <- MCGood
    BadVersion <- MCBad
    MaxPackets = 3
INVARIANTS
    RoundTrip
PROPERTIES
    ImplementsChannel
    EventuallyDelivered
CHECK_DEADLOCK FALSE
