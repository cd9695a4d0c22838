--------------------------- MODULE MCSampleClient ---------------------------
(* SampleClient for TLC: the .cfg files give the bounds. *)
EXTENDS SampleClient
=============================================================================
