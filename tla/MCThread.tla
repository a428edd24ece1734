------------------------------ MODULE MCThread -----------------------------
(* Instances of Thread for TLC. *)
EXTENDS Thread, TLC

Symmetry == Permutations(Tcbs \ {Main}) \cup Permutations(Handles)
=============================================================================
