SPECIFICATION FairSpec
CONSTANTS
    m1 = m1  m2 = m2
    h1 = h1  h2 = h2
    a = a  b = b
    p1 = p1  p2 = p2
    None = None
    Messages = {}
    Handles = {h1, h2}
    Hosts = {a, b}
    Ports = {p1, p2}
    Dest <- ToFirst
    Views <- AnyHandles
    MaxChanges = 4
    MaxChunks = 0
    MaxBusy = 0
    Lossy = FALSE
INVARIANTS
    NoStalePeer
    ServesTheReport
PROPERTIES
    HandlesConverge
CHECK_DEADLOCK FALSE
