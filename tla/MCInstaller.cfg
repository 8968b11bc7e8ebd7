SPECIFICATION Spec
CONSTANTS
  v1 = v1
  v2 = v2
  d1 = d1
  q1 = q1
  Versions = {v1, v2}
  Drivers = {d1}
  Queues = {q1}
ACTION_CONSTRAINT OneSlice
INVARIANTS
  TypeOK
  NothingForgotten
  RecordIsTrue
  RefusalHasCause
  UsbRestorable
PROPERTIES
  ForeignFilesStay
  DryRunTouchesDriversOnly
