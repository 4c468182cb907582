SPECIFICATION Spec
CONSTANTS
    Proc = {p1}
    Secret = {s1, s2}
    Code = {c1}
    Ticket = {t1}
    Device = {d1, d2}
    FirstScore = 0
    Bonus = 1
    TrustAt = 2
    FullScore = 3
    CanFail = FALSE
PROPERTIES
    BackupCodeWorks
