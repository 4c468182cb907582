SPECIFICATION Spec
CONSTANTS
    Proc = {p1, p2}
    Place = {home, away}
    Nowhere = nowhere
    Rapid = 0
    Travel = 1
    Trip = 2
    Pattern = 1
    Limit = 1
    MinLogins = 1
    Few = 1
    Many = 2
    MaxTime = 2
    MaxRows = 3
SYMMETRY Symmetry
INVARIANTS
    TypeOK
    TravelMarked
    FamiliarCountry
    PatientNotBlocked
CHECK_DEADLOCK FALSE
