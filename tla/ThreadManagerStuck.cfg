SPECIFICATION Spec
CONSTANTS
    Workers = {w1, w2}
    Items = {i1}
    NoItem = NoItem
    Counts = {4}
    Opts <- BothOptions
    Tries = 1
    Outlasts = "calls"
    Quits = FALSE
    MemFails = TRUE
    TimerFails = FALSE
SYMMETRY Symmetry
PROPERTY StuckIsBusy
