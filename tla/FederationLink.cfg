SPECIFICATION LinkSpec
CONSTANTS
    peer = peer
    p1 = p1
    p2 = p2
    e1 = e1
    u1 = u1
    u2 = u2
    Peer = peer
    Dest = {peer}
    Pdu <- MCPdu
    Edu = {}
    TxnId = {u1, u2}
    Twins <- MCTwins
    MaxPdus = 2
    MaxEdus = 1
    MaxRetries = 1
    BackoffCap = 2
    FlushTicks = 1
    MaxChan = 1
    DbFaults = FALSE
    MaxRestarts = 1
SYMMETRY Symmetry
CHECK_DEADLOCK FALSE
INVARIANTS
    AckedHandled
    NoOvertaking
    OneBodyPerId
PROPERTIES
    ImplementsDelivery
