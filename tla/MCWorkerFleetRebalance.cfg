\* One thread: two workers with room for one module each, three assignments on
\* one of them, and a rebalance.  Which modules they are for makes no difference.
CONSTANTS
    w1 = w1
    w2 = w2
    m1 = m1
    th1 = th1
    Workers = {w1, w2}
    Modules = {m1}
    Threads = {th1}
    NoWorker = NoWorker
    SetStates = {}
    SetStatuses = {}
    Capacity <- OneEach
    MaxAssignments = 5
SPECIFICATION Spec
PROPERTY MovesIntoRoom
SYMMETRY Symmetry
CHECK_DEADLOCK FALSE
