SPECIFICATION RefreshSpec
CONSTANTS
    t1 = t1
    t2 = t2
    t3 = t3
    d1 = d1
    alice = alice
    NoToken = NoToken
    Token <- MCToken
    Device = {d1}
    User = {alice}
    Owner <- MCOwner
    MaxRotation = 2
    DbFaults = TRUE
SYMMETRY Symmetry
INVARIANTS
    RefreshTypeOK
    ChainOrdered
    UsedHasSuccessor
