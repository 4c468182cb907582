SPECIFICATION FairSpec
CONSTANTS
    Proc = {p1, p2}
    Account = {a1, a2, a3}
    MaxRequests = 1
    MaxFailed = 3
    MaxTargets = 2
    CanFail = TRUE
INVARIANTS
    AddressTypeOK
    MissBound
    TargetBound
    LiftBound
PROPERTIES
    RefusalEnds
