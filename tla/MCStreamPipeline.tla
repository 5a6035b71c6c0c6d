-------------------------- MODULE MCStreamPipeline --------------------------
(* A small instance of StreamPipeline: see the configurations *)
EXTENDS StreamPipeline
=============================================================================
