--------------------------- MODULE MCPipelineRun ---------------------------
(* Instances of PipelineRun for TLC. *)
EXTENDS PipelineRun, TLC

CONSTANTS r1, r2, c1, c2, o1

Symmetry == Permutations(Runners) \union Permutations(Clients)
=============================================================================
