SPECIFICATION Spec
CONSTANTS
    Proc = {p1, p2}
    Family = {f1}
    RefreshLife = 2
    MaxTime = 3
    CanFail = TRUE
SYMMETRY Symmetry
INVARIANTS
    TypeOK
    Rotated
PROPERTIES
    MarksStick
    SpentStaysSpent
    ImplementsTokenFamily
