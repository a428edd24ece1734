------------------------------ MODULE Library ------------------------------
(***************************************************************************)
(* What the modules of the pure functions of the library share.  Such a    *)
(* function keeps no state of its own: a state of these modules is one     *)
(* finished call, with the family it belongs to, its arguments and what it *)
(* returned, and the properties compare the two.                           *)
(***************************************************************************)
EXTENDS Integers, Sequences

VARIABLE call           \* the last finished call, or Idle

Idle == [of |-> "none"]

\* A call of the function op of a family: in are its arguments, out is what
\* it returned and stored.
Finished(family, op, in, out) ==
    /\ call = Idle
    /\ call' = [of |-> family, op |-> op, in |-> in, out |-> out]

Return == call # Idle /\ call' = Idle

\* C's division and remainder truncate toward zero.
Quot(a, b) == IF (a >= 0) = (b > 0) THEN a \div b ELSE -((-a) \div b)
Rem(a, b) == a - b * Quot(a, b)
============================================================================
