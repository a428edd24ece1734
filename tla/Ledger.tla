------------------------------- MODULE Ledger -------------------------------
(***************************************************************************)
(* What the modules of the system services share.  A call of such a        *)
(* service runs in its caller's task and touches nothing other tasks see   *)
(* before it returns, so it is one step; what is hard is what it holds     *)
(* when one of the things it asks MVS for is refused.  A call is a record  *)
(* c that the operators of the modules pass along:                         *)
(*    held    the blocks, DDs, DCBs ... that have been obtained and not    *)
(*            given back, each <<kind, number>>                            *)
(*    twice   something was given back that was not held                   *)
(*    n       the requests made so far, and faults the ones that are       *)
(*            refused                                                      *)
(*    got     what the last request obtained, NULL if it was refused       *)
(***************************************************************************)
EXTENDS Integers, Sequences, FiniteSets, TLC

VARIABLES
    ledger,             \* held and twice, between calls
    result              \* what the last call did, until its caller has seen it

CONSTANT
    MaxFault            \* the last request of a call that may be refused

NULL == <<"NULL", 0>>
Seen == [op |-> "seen"]
\* None of the first n requests is refused, or one of them, or two.
OneFault(n) == {{i} : i \in 1 .. n} \cup {{}}
TwoFaults(n) == {{i, j} : i, j \in 1 .. n} \cup {{}}
Faults == OneFault(MaxFault)

LedgerInit == ledger = [held |-> {}, twice |-> FALSE] /\ result = Seen

\* A call of a service begins and ends, and the caller looks at its result.
Ready == result = Seen
Begin(faults) ==
    [held |-> ledger.held, twice |-> ledger.twice, n |-> 0, faults |-> faults, got |-> NULL]
End(c, r) == ledger' = [held |-> c.held, twice |-> c.twice] /\ result' = r
See == result # Seen /\ result' = Seen /\ UNCHANGED ledger

\* The requests of a call are counted; some of them are refused.
Refused(c) == c.n + 1 \in c.faults
Asked(c) == [c EXCEPT !.n = @ + 1]

\* A request for something to hold: storage, a DD, an open DCB.
Number(c, kind) == CHOOSE i \in 1 .. Cardinality(c.held) + 1 : <<kind, i>> \notin c.held
Obtain(c, kind) ==
    LET r == <<kind, Number(c, kind)>>
    IN  IF Refused(c) THEN [Asked(c) EXCEPT !.got = NULL]
        ELSE [Asked(c) EXCEPT !.got = r, !.held = @ \cup {r}]

\* Giving back r; free(NULL) and its like do nothing.
Release(c, r) ==
    IF r = NULL THEN c
    ELSE IF r \in c.held THEN [c EXCEPT !.held = @ \ {r}] ELSE [c EXCEPT !.twice = TRUE]

\* Giving back each of a sequence.
ReleaseAll(c, rs) ==
    LET done[i \in 0 .. Len(rs)] == IF i = 0 THEN c ELSE Release(done[i - 1], rs[i])
    IN  done[Len(rs)]
============================================================================
