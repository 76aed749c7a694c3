CONSTANTS
    a = a
    b = b
    c = c
    Threads <- MCThreads
    Locks = {1}
    Terminable = {c}
    SuspendTypes = {Process, Thread}
    Suspensions <- MCSuspensions
    Process = Process
    Thread = Thread
    NoThread = NoThread
SPECIFICATION FairSpec
INVARIANTS MutualExclusion NoStrandedWaiter SuspensionNotForgotten
PROPERTIES OnlyResumeStopsOwners WaitersReleased
