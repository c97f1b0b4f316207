SPECIFICATION DiscoveryFairSpec
CONSTANTS
    r1 = r1
    r2 = r2
    Request = {r1, r2}
    MaxExponent = 1
    ErrorTtl = 2
    WellKnownTtl = 0
    ClientTtl = 2
    HeaderTtl = {6}
    Delegation = {"ip", "host"}
    Retention = 0
INVARIANTS
    DiscoveryTypeOK
    QuietAfterFailure
    BackoffOnlyInWindow
    DelegationFresh
PROPERTY
    Heals
