---------------------------- MODULE MCTurnAudio ----------------------------
(* TLC instances of TurnAudio. *)
EXTENDS TurnAudio
=============================================================================
