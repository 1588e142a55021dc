--------------------------- MODULE MCSealPipeline ---------------------------
(* The pipeline of one validator for a few blocks. *)
EXTENDS SealPipeline
=============================================================================
