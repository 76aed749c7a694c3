SPECIFICATION FairSpec
CONSTANTS
  c1 = c1
  c2 = c2
  s1 = s1
  s2 = s2
  r1 = r1
  r2 = r2
  None = None
  Clients = {c1, c2}
  Servers = {s1, s2}
  Requests = {r1, r2}
  Deployments <- MCDeployments
CHECK_DEADLOCK FALSE
INVARIANTS
  RequestsAreAccounted
  NobodyIsForgotten
  AssertionsHold
  NoMissedSignal
PROPERTIES
  CallsReturn
  ShutdownCompletes
