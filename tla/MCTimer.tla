------------------------------- MODULE MCTimer ------------------------------
(* Instances of Timer for TLC. *)
EXTENDS Timer, TLC

Symmetry ==
    Permutations(Clients) \cup Permutations(Threads) \cup Permutations(Tqes)
        \cup Permutations(Ids)

(* The safety properties do not read the history stopped, and no step      *)
(* reads the handle a client keeps once it has left the tries of           *)
(* tmr_start(): states that differ in these only are one state.            *)
Stated ==
    <<flags, task, thread, timeout, timer, n, pc,
      [c \in Clients |-> IF pc[c] = "tries" THEN local[c] ELSE [local[c] EXCEPT !.task = None]],
      [tmr EXCEPT !.at = [q \in Tqes |-> [@[q] EXCEPT !.stopped = FALSE]]]>>
=============================================================================
