--------------------------- MODULE MCCheckPipeline ---------------------------
(* Two documents that share one cache slot, with and without a delay; the   *)
(* second text does not parse.                                              *)
EXTENDS CheckPipeline
=============================================================================
