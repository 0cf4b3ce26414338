\* A restart while the thread runs.
CONSTANTS
    r1 = r1
    d1 = d1
    Runs = {r1}
    Threads = {d1}
    PlanSteps = 1
    MaxExecutions = 2
    MaxCrashes = 1
SPECIFICATION Spec
INVARIANTS InterruptedRunRecovers
SYMMETRY Symmetry
CHECK_DEADLOCK FALSE
