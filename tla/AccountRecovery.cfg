SPECIFICATION Spec
CONSTANTS
    Proc = {p1, p2}
    Password = {w1, w2, w3}
    Link = {l1, l2, l3}
    Session = {s1, s2}
    HistoryCount = 2
    CanFail = TRUE
SYMMETRY Symmetry
INVARIANTS
    TypeOK
    LinkBound
    LinkUseBound
    CurrentRecorded
    
