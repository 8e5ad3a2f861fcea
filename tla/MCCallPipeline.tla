--------------------------- MODULE MCCallPipeline ---------------------------
(* CallPipeline for TLC.  No symmetry: it is checked for liveness too.       *)
EXTENDS CallPipeline
=============================================================================
