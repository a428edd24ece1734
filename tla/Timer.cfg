SPECIFICATION Spec
CONSTANTS
    c1 = c1
    c2 = c2
    h1 = h1
    h2 = h2
    q1 = q1
    q2 = q2
    id1 = id1
    id2 = id2
    Clients = {c1, c2}
    Threads = {h1, h2}
    Tqes = {q1, q2}
    None = None
    Ids = {id1, id2}
    Intervals = {1}
    CallOps = {"disable", "enable", "request"}
    Stops = TRUE
    MemFails = TRUE
    SlowStart = TRUE
    TimerFails = TRUE
SYMMETRY Symmetry
VIEW Stated
INVARIANTS
    ServiceIsExact
