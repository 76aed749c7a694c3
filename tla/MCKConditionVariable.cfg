CONSTANTS
    a = a
    b = b
    c = c
    Threads <- MCThreads
    Mutexes = {1, 2}
    Priorities = {1, 3}
    Terminable = {c}
    CreatedWith <- MCCreatedWith
    TerminatingThreadPriority = 2
    Adjustable = {c}
    Timeouts = {"zero", "positive"}
    NoThread = NoThread
SPECIFICATION Spec
INVARIANTS TagNamesOwner WaitsInOnePlace PriorityIsInherited FlagCoversWaiters
CHECK_DEADLOCK FALSE
