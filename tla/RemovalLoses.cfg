SPECIFICATION Spec
CONSTANTS
    m1 = m1  m2 = m2
    h1 = h1  h2 = h2
    a = a  b = b
    p1 = p1  p2 = p2
    None = None
    Messages = {m1}
    Handles = {h1}
    Hosts = {a}
    Ports = {p1}
    Dest <- ToFirst
    Views <- HandleGoes
    MaxChanges = 2
    MaxChunks = 1
    MaxBusy = 0
    Lossy = FALSE
INVARIANTS
    NoMessageLost
CHECK_DEADLOCK FALSE
