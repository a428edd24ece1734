------------------------------ MODULE MCMutex ------------------------------
(* The instance of Mutex for TLC: its tasks and mutexes are model values   *)
(* of the configuration.                                                   *)
EXTENDS Mutex
=============================================================================
