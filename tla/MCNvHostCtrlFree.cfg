SPECIFICATION Spec
CONSTANTS
  g1 = g1
  g2 = g2
  None = None
  Incrementers = {g1, g2}
  MaxValue = 3
  NumEvents = 1
  MaxControls = 1
INVARIANTS
  FreedEventsAreUnused
CHECK_DEADLOCK FALSE
