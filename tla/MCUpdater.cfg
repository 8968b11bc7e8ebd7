SPECIFICATION Spec
CONSTANTS
  s1 = s1
  s2 = s2
  r1 = r1
  r2 = r2
  fork = fork
  Sessions = {s1, s2}
  Revisions = {r1, r2, fork}
  Older <- History
  MaxTrouble = 3
INVARIANTS
  TypeOK
PROPERTIES
  UpToDateIsInstalled
  OnlyConfirmedRuns
  UpdatesGoForward
  CodeConverges
  RecordConverges
