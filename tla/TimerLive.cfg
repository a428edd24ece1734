SPECIFICATION FairSpec
CONSTANTS
    c1 = c1
    c2 = c2
    h1 = h1
    q1 = q1
    id1 = id1
    Clients = {c1, c2}
    Threads = {h1}
    Tqes = {q1}
    None = None
    Ids = {id1}
    Intervals = {1}
    CallOps = {"disable", "enable", "request"}
    Stops = TRUE
    MemFails = FALSE
    SlowStart = FALSE
    TimerFails = FALSE
PROPERTIES
    FiresUntilStopped
    StopEndsThread
