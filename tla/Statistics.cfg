SPECIFICATION FairSpec
CONSTANTS
    s1 = s1  c1 = c1  c2 = c2
    BadJson = BadJson  Absent = Absent  IllTyped = IllTyped  None = None
    Services = {s1}
    ServiceOrder <- InOrder
    Clients = {c1, c2}
    Requests <- EveryKind
    Enabled = TRUE
    MaxEvents = 1
    MaxRequests = 2
    MaxUnhandled = 0
INVARIANTS
    CopiesAgree NothingCountedTwice
PROPERTIES
    RequestsAnswered
CHECK_DEADLOCK FALSE
