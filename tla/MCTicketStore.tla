--------------------------- MODULE MCTicketStore ---------------------------
(* TicketStore for TLC: tickets are model values, and those with the same  *)
(* kind of submission are interchangeable.                                 *)
EXTENDS TicketStore, TLC, FiniteSets

Symmetry == Permutations(CallerRef) \cup Permutations(Tickets \ CallerRef)
=============================================================================
