\* A cancel while the thread runs; no restart.
CONSTANTS
    r1 = r1
    d1 = d1
    Runs = {r1}
    Threads = {d1}
    PlanSteps = 1
    MaxExecutions = 1
    MaxCrashes = 0
SPECIFICATION Spec
INVARIANTS CancelHolds
SYMMETRY Symmetry
CHECK_DEADLOCK FALSE
