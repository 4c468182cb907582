SPECIFICATION Spec
CONSTANTS
    Proc = {p1, p2}
    Skew = 1
    Limit = 3
    MaxTime = 1
    MaxRows = 4
    MaxTampered = 1
SYMMETRY Symmetry
INVARIANTS
    TypeOK
    ReportsTampering
    ForkBound
CHECK_DEADLOCK FALSE
