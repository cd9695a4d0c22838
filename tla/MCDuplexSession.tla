-------------------------- MODULE MCDuplexSession --------------------------
(* DuplexSession for TLC: the .cfg files give the sessions and the bounds. *)
EXTENDS DuplexSession
=============================================================================
