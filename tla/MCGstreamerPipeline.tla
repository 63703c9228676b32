-------------------------- MODULE MCGstreamerPipeline --------------------------
(* Runs GstreamerPipeline under an arbitrary serial caller.                 *)
EXTENDS GstreamerPipeline
================================================================================
