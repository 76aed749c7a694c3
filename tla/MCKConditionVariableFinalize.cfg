CONSTANTS
    a = a
    b = b
    c = c
    Threads <- MCThreads
    Mutexes = {1}
    Priorities = {1}
    Terminable = {c}
    CreatedWith <- MCEqual
    TerminatingThreadPriority = 0
    Adjustable = {c}
    Timeouts = {"zero", "positive"}
    NoThread = NoThread
SPECIFICATION Spec
INVARIANT CancelFindsOwner
