---------------------------- MODULE MCGraphPipeline ----------------------------
(* Model values and symmetry for checking GraphPipeline with TLC.            *)
EXTENDS GraphPipeline, TLC

Symmetry == Permutations(GraphWorkers)
=============================================================================
