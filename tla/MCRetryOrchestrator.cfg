\* One operation (operations share nothing but threads), three threads, budgets
\* of one, two and three, at most six attempts between two retries of the entry.
CONSTANTS
    o1 = o1
    th1 = th1
    th2 = th2
    th3 = th3
    Operations = {o1}
    Threads = {th1, th2, th3}
    NoOperation = NoOperation
    Budgets = {1, 2, 3}
    MaxBudget = 3
    MaxRows = 6
SPECIFICATION Spec
INVARIANTS TypeOK ExhaustedIsQueued QueueIsEarned OverrunIsBounded
SYMMETRY Symmetry
