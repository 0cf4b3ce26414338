\* A submit that brings its own audit_chain_ref; nothing fails.
CONSTANTS
    t1 = t1
    t2 = t2
    NoTicket = NoTicket
    Tickets = {t1, t2}
    CallerRef = {t2}
    MaxChain = 3
    MaxFaults = 0
    MaxCrashes = 0
SPECIFICATION Spec
INVARIANTS EverySubmitChained
SYMMETRY Symmetry
CHECK_DEADLOCK FALSE
