-------------------------- MODULE MCHumanGatePlane --------------------------
(* HumanGatePlane for TLC: threads are interchangeable.                    *)
EXTENDS HumanGatePlane, TLC

Symmetry == Permutations(Threads) \cup Permutations(Requests)
=============================================================================
