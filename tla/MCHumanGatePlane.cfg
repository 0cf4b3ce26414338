\* One request for one idea, two threads, a restart and a lost call.
CONSTANTS
    r1 = r1
    i1 = i1
    th1 = th1
    th2 = th2
    NoRequest = NoRequest
    Requests = {r1}
    Ideas = {i1}
    Threads = {th1, th2}
    PutStatuses = {"draft", "accepted"}
    MaxCrashes = 1
    MaxFaults = 1
SPECIFICATION FairSpec
INVARIANTS TypeOK NoBypass Agreement VerdictCarried NoVerdictStranded
PROPERTIES TicketsFollowLifecycle LockHeld VerdictArrives NoOpenGateBypassed
CHECK_DEADLOCK FALSE
