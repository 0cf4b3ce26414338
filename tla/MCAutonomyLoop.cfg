\* Events for two cycles, three transitions, a failed call, a refused statement and a restart.
CONSTANTS
    p1 = p1
    Projects = {p1}
    Threshold = 2
    MaxEvents = 4
    MaxTransitions = 3
    MaxFaults = 1
    MaxRefusals = 1
    MaxCrashes = 1
SPECIFICATION Spec
INVARIANTS TypeOK LogWithinOne EscalationIsDecided CyclesAreEarned MissingIsFailed
CHECK_DEADLOCK FALSE
