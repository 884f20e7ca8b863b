--------------------------- MODULE MCScaleHandler ---------------------------
(* Instances of ScaleHandler for TLC. *)
EXTENDS ScaleHandler
=============================================================================
