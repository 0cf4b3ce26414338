\* One thread at a time, nothing fails: an escalation after the decision.
CONSTANTS
    r1 = r1
    i1 = i1
    th1 = th1
    NoRequest = NoRequest
    Requests = {r1}
    Ideas = {i1}
    Threads = {th1}
    PutStatuses = {"accepted"}
    MaxCrashes = 0
    MaxFaults = 0
SPECIFICATION Spec
PROPERTIES OnlyReviewableEscalates
CHECK_DEADLOCK FALSE
