SPECIFICATION FairSpec
CONSTANTS
    Workers = {w1, w2}
    Items = {i1}
    NoItem = NoItem
    Counts = {2}
    Opts <- TimerOption
    Tries = 1
    Outlasts = "functions"
    Quits = FALSE
    MemFails = FALSE
    TimerFails = FALSE
PROPERTIES ItemServed TimerPosted TermFrees
