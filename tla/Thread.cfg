SPECIFICATION Spec
CONSTANTS
    m = m
    t1 = t1
    t2 = t2
    h1 = h1
    h2 = h2
    h3 = h3
    h4 = h4
    Tcbs = {m, t1, t2}
    Main = m
    Handles = {h1, h2, h3, h4}
    None = None
    Sizes = {100, 16777201}
    Rcs = {0, 1}
SYMMETRY Symmetry
INVARIANTS
    StackInUse
    EndIsTold
    HandlesAreExact
