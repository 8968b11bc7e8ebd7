SPECIFICATION WizardSpec
CONSTANTS
  s1 = s1
  q1 = q1
  q2 = q2
  Sessions = {s1}
  Queues <- Queued
  Ports = {1, 2}
  StandardPort = 1
  Addresses = {1, 2}
SYMMETRY Symmetry
ACTION_CONSTRAINT WizardsStartInOrder
INVARIANTS
  WizardTypeOK
  PromptsAreSound
  RoutesLoad
  SuccessIsComplete
