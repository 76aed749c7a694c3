SPECIFICATION Spec
CONSTANTS
  a = a
  b = b
  d = d
  NoThread = NoThread
  Threads = {a, b, d}
  NumCores = 2
  Priorities = {3, 4}
  InitialPriority <- MCInitialPriority
  PreemptionPriority <- MCPreemptionPriority
  OwnerProcess <- MCOwnerProcess
  Maskable = {d}
  Reprioritized = {a}
  Yielding = {a}
  Blocking = {a}
INVARIANTS
  OneOwnerPerContext
  QueuesAgree
  NoIdleCoreWithWork
  SkippedYieldLosesNothing
  ChoiceIsNotMissed
