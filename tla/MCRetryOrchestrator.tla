------------------------ MODULE MCRetryOrchestrator ------------------------
(* RetryOrchestrator for TLC: operations and threads are interchangeable.  *)
EXTENDS RetryOrchestrator, TLC

Symmetry == Permutations(Operations) \cup Permutations(Threads)
=============================================================================
