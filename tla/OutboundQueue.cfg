SPECIFICATION Spec
CONSTANTS
    d1 = d1
    d2 = d2
    p1 = p1
    p2 = p2
    p3 = p3
    e1 = e1
    Dest <- MCDest
    Pdu = {p1, p2, p3}
    Edu = {e1}
    TxnId = {u1}
    MaxPdus = 2
    MaxEdus = 1
    MaxRetries = 2
    BackoffCap = 3
    FlushTicks = 2
    MaxChan = 2
PROPERTIES
    FlushEnds
    ChannelDrains
    QueuesDrain
INVARIANTS
    TypeOK
    InFlightExact
    BelowLimit
    NoCopies
