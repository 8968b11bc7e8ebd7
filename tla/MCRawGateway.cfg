SPECIFICATION Spec
CONSTANTS
  c1 = c1
  c2 = c2
  Conns <- Clients
  PrivateConns <- Clients
  NRoutes = 2
  JobSlots = 1
  MaxBytes = 1
  ClientBytes = 2
SYMMETRY ClientSymmetry
INVARIANTS
  TypeOK
  SlotsConserved
  SpoolBounded
  JobFaithful
  NoSilentLoss
PROPERTY
  ImplementsRawJobs
