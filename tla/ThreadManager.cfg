SPECIFICATION Spec
CONSTANTS
    Workers = {w1, w2}
    Items = {i1, i2}
    NoItem = NoItem
    Counts = {1, 2}
    Opts <- NoOptions
    Tries = 1
    Outlasts = "nothing"
    Quits = TRUE
    MemFails = FALSE
    TimerFails = TRUE
SYMMETRY Symmetry
INVARIANTS FreedUnused WorkersAreKnown ItemsAreKept
