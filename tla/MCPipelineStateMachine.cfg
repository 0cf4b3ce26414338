\* Two threads on one run, five calls of transition().
CONSTANTS
    r1 = r1
    th1 = th1
    th2 = th2
    Runs = {r1}
    Threads = {th1, th2}
    InitialStates = {"idle", "planning"}
    MaxClock = 5
SPECIFICATION Spec
INVARIANTS TypeOK LogIsHistory PauseRemembered
PROPERTIES EndsForGood
SYMMETRY Symmetry
CHECK_DEADLOCK FALSE
