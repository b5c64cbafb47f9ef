SPECIFICATION MessagesSpec
CONSTANTS
    d1 = d1  d2 = d2  d3 = d3
    b1 = b1  b2 = b2  b3 = b3
    k1 = k1  k2 = k2  k3 = k3  k4 = k4
    x = x  y = y  p1 = p1  p2 = p2  q1 = q1  q2 = q2
    Null = Null
    Containers = {d1, d2, d3}
    Buffers = {b1, b2, b3}
    Counters = {k1, k2, k3, k4}
    Contents = {x, y}
    Paths = {p1, p2}
    Policies = {q1, q2}
    Errors = {1}
    MaxUuids = 2
SYMMETRY Interchangeable
INVARIANTS
    CounterCountsOwners BuffersAreOwned SameUuidSameMessage
PROPERTIES
    IsSharedData
CHECK_DEADLOCK FALSE
