CONSTANTS
    a = a
    b = b
    e = e
    Threads = {a, b}
    Events = {e}
    WaitLists <- MCWaitLists
SPECIFICATION FairSpec
INVARIANTS NoLostWakeup WaitLeavesNothing TerminationUnblocks
PROPERTIES WaitOutcome TerminationCompletes TerminateReturns
