--------------------------- MODULE MCSessionStore ---------------------------
(* An instance of SessionStore for TLC. *)
EXTENDS SessionStore
MCSessions == {"main"}
TwoSessions == {"main", "telegram"}
MCLong == {1}
=============================================================================
