\* Two runs, two threads, three executions and a restart.
CONSTANTS
    r1 = r1
    r2 = r2
    d1 = d1
    d2 = d2
    Runs = {r1, r2}
    Threads = {d1, d2}
    PlanSteps = 2
    MaxExecutions = 3
    MaxCrashes = 1
SPECIFICATION FairSpec
INVARIANTS TypeOK OneExecutorPerRun
PROPERTIES StepsOnlyGrow CompleteIsEarned ImplementsLedger ExecutionEnds
CHECK_DEADLOCK FALSE
