SPECIFICATION RetryFairSpec
CONSTANTS
    o1 = o1
    o2 = o2
    Op = {o1, o2}
    MaxRetries = 2
    Threshold = 3
    Recovery = 1
INVARIANTS
    RetryTypeOK
    BreakerConsistent
    LeakBounded
PROPERTY
    Recovers
