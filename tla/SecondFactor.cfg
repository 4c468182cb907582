SPECIFICATION Spec
CONSTANTS
    Proc = {p1, p2, p3}
    Secret = {s1, s2}
    Code = {c1}
    Ticket = {t1}
    Device = {d1}
    FirstScore = 0
    Bonus = 1
    TrustAt = 2
    FullScore = 3
    CanFail = TRUE
SYMMETRY Symmetry
INVARIANTS
    TypeOK
    WeakBound
    TicketBound
    RefusalBound
PROPERTIES
    DeviceMarksStick
