SPECIFICATION Spec
CONSTANTS
    Proc = {p1, p2}
    SessionId = {1, 2}
    MaxConcurrent = 1
    Life = 1
    MaxTime = 0
    Kinds = {"login", "read", "logout"}
    CanFail = FALSE
PROPERTIES
    InvalidationFinal
