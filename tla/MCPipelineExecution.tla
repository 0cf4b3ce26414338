------------------------ MODULE MCPipelineExecution ------------------------
(* PipelineExecution for TLC: threads are interchangeable.                 *)
EXTENDS PipelineExecution, TLC

Symmetry == Permutations(Threads) \cup Permutations(Runs)
=============================================================================
