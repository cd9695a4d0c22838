--------------------------- MODULE MCStageWorker ---------------------------
(* StageWorker for TLC: the .cfg files give the sessions and the bounds. *)
EXTENDS StageWorker
=============================================================================
