CONSTANTS
    a = a
    b = b
    c = c
    Tasks = {a, b, c}
    MaxTime = 4
    NoTask = NoTask
SPECIFICATION FairSpec
INVARIANTS InterruptCoversNextTask
PROPERTY ImplementsTimerTasks
