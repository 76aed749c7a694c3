SPECIFICATION Spec
CONSTANTS
  a = a
  b = b
  d = d
  NoThread = NoThread
  Threads = {a, d}
  NumCores = 3
  Priorities = {3}
  InitialPriority <- MCInitialPriority
  PreemptionPriority <- MCPreemptionPriority
  OwnerProcess <- MCOwnerProcess
  Maskable = {a}
  Reprioritized = {}
  Yielding = {}
  Blocking = {}
INVARIANTS
  MaskTakesEffect
