\* Two workers, one module, two threads, two assignments, any restarts and refused
\* statements.  Operators take workers offline and do not activate them again.
CONSTANTS
    w1 = w1
    w2 = w2
    m1 = m1
    th1 = th1
    th2 = th2
    Workers = {w1, w2}
    Modules = {m1}
    Threads = {th1, th2}
    NoWorker = NoWorker
    SetStates = {"offline"}
    SetStatuses = {"assigned", "in_progress", "completed"}
    Capacity <- OneEach
    MaxAssignments = 2
SPECIFICATION Spec
INVARIANTS TypeOK LoadIsTrue ModuleKept OneBuilder
SYMMETRY Symmetry
CHECK_DEADLOCK FALSE
