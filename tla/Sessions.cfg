SPECIFICATION FairSpec
CONSTANTS
    Proc = {p1, p2}
    SessionId = {1, 2, 3}
    MaxConcurrent = 1
    Life = 1
    MaxTime = 0
    Kinds = {"login", "reset", "read", "logout", "delete", "list"}
    CanFail = FALSE
INVARIANTS
    IndexBound
PROPERTIES
    RequestsEnd
