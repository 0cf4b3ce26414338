--------------------------- MODULE MCWorkerFleet ---------------------------
(* WorkerFleet for TLC: every worker takes one module; modules, workers    *)
(* and threads are interchangeable.                                        *)
EXTENDS WorkerFleet, TLC

OneEach == [w \in Workers |-> 1]

Symmetry == Permutations(Threads) \cup Permutations(Modules) \cup Permutations(Workers)
=============================================================================
