SPECIFICATION Spec
CONSTANTS
    m1 = m1  m2 = m2
    h1 = h1  h2 = h2
    a = a  b = b
    p1 = p1  p2 = p2
    None = None
    Messages = {m1, m2}
    Handles = {h1}
    Hosts = {a, b}
    Ports = {p1}
    Dest <- ToFirst
    Views <- AllChanges
    MaxChanges = 4
    MaxChunks = 0
    MaxBusy = 1
    Lossy = TRUE
SYMMETRY Interchangeable
INVARIANTS
    TypeOK
    IndInv
    WorkedOnOnce
    RefreshGoesOn
    UnsentInOrder
    SingleCustody
    FinalIsLast
PROPERTIES
    KeepsPromise
CHECK_DEADLOCK FALSE
