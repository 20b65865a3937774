--------------------------- MODULE MCSessionTurns ---------------------------
(***************************************************************************)
(* TLC instances of SessionTurns: calls and agent slots are interchangeable *)
(* model values, so runs without a temporal property use their symmetry.   *)
(***************************************************************************)
EXTENDS SessionTurns, TLC

Symmetry == Permutations(Jobs) \cup Permutations(Agents)
=============================================================================
