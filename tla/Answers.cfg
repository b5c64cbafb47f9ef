SPECIFICATION FairSpec
CONSTANTS
    m1 = m1  m2 = m2
    h1 = h1  h2 = h2
    a = a  b = b
    p1 = p1  p2 = p2
    None = None
    Messages = {m1, m2}
    Handles = {h1}
    Hosts = {a, b}
    Ports = {p1}
    Dest <- ToFirst
    Views <- HostsCome
    MaxChanges = 2
    MaxChunks = 1
    MaxBusy = 1
    Lossy = FALSE
INVARIANTS
    NoMessageLost
PROPERTIES
    AnsweredWhileHostsStay
CHECK_DEADLOCK FALSE
