-------------------------- MODULE MCThreadManager --------------------------
(* Instances of ThreadManager for TLC. *)
EXTENDS ThreadManager, TLC

NoOptions   == {{}}
TimerOption == {{}, {"TIMER"}}
BothOptions == {{}, {"TIMER", "NOWORK"}}

Symmetry == Permutations(Workers) \cup Permutations(Items)
=============================================================================
