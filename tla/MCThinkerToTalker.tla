------------------------- MODULE MCThinkerToTalker -------------------------
(* ThinkerToTalker for TLC: the .cfg files give the bounds. *)
EXTENDS ThinkerToTalker
=============================================================================
