----------------------- MODULE MCPipelineStateMachine -----------------------
EXTENDS PipelineStateMachine, TLC
CONSTANTS r1, th1, th2

Symmetry == Permutations(Runs) \cup Permutations(Threads)
=============================================================================
