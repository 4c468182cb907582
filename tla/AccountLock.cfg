SPECIFICATION Spec
CONSTANTS
    Proc = {p1, p2}
    Max = 3
    FreeAttempts = 1
    Ticket = {t1}
    CanFail = TRUE
SYMMETRY Symmetry
INVARIANTS
    TypeOK
    GuessBound
PROPERTIES
    LockStands
