--------------------------- MODULE RecursiveMutex ---------------------------
(***************************************************************************)
(* What <mvs/mutex.h> promises: a mutex has at most one holder, which may  *)
(* take it again; it is free again after as many releases, or when the     *)
(* holder ends or frees it.                                                *)
(***************************************************************************)
EXTENDS Integers

CONSTANTS Tasks, NoTask, Mutexes

VARIABLES
    holder,     \* holder[m]: the task that has m, or NoTask
    level       \* level[m]: how often it has it

Acquire(t, m) ==
    /\ holder[m] \in {NoTask, t}
    /\ holder' = [holder EXCEPT ![m] = t]
    /\ level'  = [level EXCEPT ![m] = @ + 1]

Release(t, m) ==
    /\ holder[m] = t
    /\ level'  = [level EXCEPT ![m] = @ - 1]
    /\ holder' = [holder EXCEPT ![m] = IF level[m] = 1 THEN NoTask ELSE t]

ReleaseAll(t, m) ==
    /\ holder[m] = t
    /\ level'  = [level EXCEPT ![m] = 0]
    /\ holder' = [holder EXCEPT ![m] = NoTask]

Init ==
    /\ holder = [m \in Mutexes |-> NoTask]
    /\ level  = [m \in Mutexes |-> 0]

Next ==
    \E t \in Tasks, m \in Mutexes :
        Acquire(t, m) \/ Release(t, m) \/ ReleaseAll(t, m)

Spec == Init /\ [][Next]_<<holder, level>>
=============================================================================
