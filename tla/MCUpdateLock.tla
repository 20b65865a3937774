---------------------------- MODULE MCUpdateLock ----------------------------
(***************************************************************************)
(* TLC instances of UpdateLock: calls and pids are interchangeable.        *)
(***************************************************************************)
EXTENDS UpdateLock, TLC

Symmetry == Permutations(Calls) \cup Permutations(Procs)
=============================================================================
