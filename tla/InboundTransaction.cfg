SPECIFICATION InboundSpec
CONSTANTS
    p1 = p1
    p2 = p2
    p3 = p3
    e1 = e1
    e2 = e2
    u1 = u1
    u2 = u2
    r1 = r1
    r2 = r2
    r3 = r3
    Pdu <- MCPdu
    Edu <- MCEdu
    TypedEdu = {e1}
    Twins <- MCTwins
    TxnId = {u1, u2}
    RequestId <- MCRequestId
    Sent <- MCSent
    DbFaults = TRUE
CHECK_DEADLOCK FALSE
INVARIANTS
    InboundTypeOK
    AckAccounts
    CachedIsComplete
    AcceptedOnce
PROPERTIES
    RequestsEnd
