SPECIFICATION Spec
CONSTANTS
    Proc = {p1, p2}
    SessionId = {1, 2, 3}
    MaxConcurrent = 2
    Life = 2
    MaxTime = 3
    Kinds = {"login", "password"}
    CanFail = TRUE
SYMMETRY Symmetry
INVARIANTS
    TypeOK
    IndexOutlivesSessions
CHECK_DEADLOCK FALSE
