SPECIFICATION Spec
CONSTANTS
    Proc = {p1, p2}
    Token = {t1, t2, t3}
    EmailLimit = 1
    IpLimit = 2
    CanFail = TRUE
SYMMETRY Symmetry
INVARIANTS
    TypeOK
    LinkArrives
    ResendBound
PROPERTIES
    VerifiedStays
