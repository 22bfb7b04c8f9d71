--------------------------- MODULE MCTypePipeline ---------------------------
(***************************************************************************)
(* TypePipeline on small instances.                                        *)
(***************************************************************************)
EXTENDS TypePipeline

=============================================================================
