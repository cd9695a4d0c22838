------------------------- MODULE MCTalkerScheduler -------------------------
(* TLC instances of TalkerScheduler. *)
EXTENDS TalkerScheduler
=============================================================================
