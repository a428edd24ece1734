SPECIFICATION FairSpec
CONSTANTS
    t1 = t1
    t2 = t2
    t3 = t3
    m1 = m1
    Tasks = {t1, t2, t3}
    NoTask = NoTask
    Mutexes = {m1}
    NoMutex = NoMutex
    MaxDepth = 2
    MemFails = FALSE
INVARIANTS
    HeldIsSerialized
    BooksAreExact
    MutualExclusion
PROPERTIES
    ImplementsRecursiveMutex
    WaiterGetsMutex
