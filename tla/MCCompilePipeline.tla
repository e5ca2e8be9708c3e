-------------------------- MODULE MCCompilePipeline --------------------------
(* Instances of CompilePipeline for TLC: see the pipeline_*.cfg files.     *)
EXTENDS CompilePipeline, TLC

RequestSymmetry == Permutations(Request)

=============================================================================
