SPECIFICATION FairSpec
CONSTANTS
  c1 = c1
  c2 = c2
  Conns <- Clients
  PrivateConns = {c1}
  NRoutes = 2
  JobSlots = 1
  MaxBytes = 1
  ClientBytes = 1
INVARIANTS
  ShutdownWaitsForStarted
  CleanReturn
PROPERTIES
  StopLeadsToExit
  ConnectionEnds
