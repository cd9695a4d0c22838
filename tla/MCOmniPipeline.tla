--------------------------- MODULE MCOmniPipeline ---------------------------
(* OmniPipeline for TLC. *)
EXTENDS OmniPipeline
=============================================================================
