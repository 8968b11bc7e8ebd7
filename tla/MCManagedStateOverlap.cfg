SPECIFICATION BoundedSpec
CONSTANTS
  s1 = s1
  s2 = s2
  q1 = q1
  q2 = q2
  MaxRequests = 4
  Sessions <- Two
  Queues <- Queued
  Ports = {1}
  StandardPort = 1
  Addresses = {1}
SYMMETRY Symmetry
INVARIANT StateLoads
PROPERTY OnlyTargetsChange
