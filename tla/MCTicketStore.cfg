\* One ticket with a caller's audit_chain_ref and one without; two failures,
\* one restart, four chain entries.
CONSTANTS
    t1 = t1
    t2 = t2
    NoTicket = NoTicket
    Tickets = {t1, t2}
    CallerRef = {t2}
    MaxChain = 4
    MaxFaults = 2
    MaxCrashes = 1
SPECIFICATION Spec
INVARIANTS TypeOK AuditBeforeState AckDurable LogTellsState DeniedIsFinal
PROPERTIES ImplementsLifecycle WedgedUntilRestart
CHECK_DEADLOCK FALSE
