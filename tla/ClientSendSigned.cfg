SPECIFICATION SendSpec
CONSTANTS
    e0 = e0
    e1 = e1
    e2 = e2
    e3 = e3
    t1 = t1
    t2 = t2
    r1 = r1
    r2 = r2
    r3 = r3
    r4 = r4
    EventId = {e0, e1, e2, e3}
    First = e0
    TxnId = {t1, t2}
    RequestId <- MCRequestId
    MaxPrev = 1
CHECK_DEADLOCK FALSE
INVARIANTS
    AnsweredIsSigned
