SPECIFICATION Spec
CONSTANTS
  q1 = q1
  q2 = q2
  short = short
  a1 = a1
  a2 = a2
  Queues <- TwoQueues
  Addresses <- TwoAddresses
  Titles = {"t1"}
  Label <- SameLabel
  Short <- CutLabel
  Stem <- OwnName
  AdminLines = {"l1", "l2"}
SYMMETRY Symmetry
INVARIANTS
  TypeOK
  NothingUntracked
  
  AnnouncedIsOnDisk
  AdminLinesKept
  RetryIsNotRefused
