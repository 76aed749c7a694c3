SPECIFICATION FairSpec
CONSTANTS
  t1 = t1
  t2 = t2
  t3 = t3
  None = None
  Threads = {t1, t2, t3}
  MaxS64 = 4
  Values = {1, 2}
  Limits = {2, 3}
  InitialLimit = 2
  Mortal = {t1}
INVARIANTS
  CountsAgree
  NoMissedRelease
PROPERTIES
  ReserveReturns
