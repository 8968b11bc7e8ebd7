SPECIFICATION Spec
CONSTANT NItems = 2
INVARIANTS
  TypeOK
  ConflictsAreLate
  LeaksHaveACause
  SuccessIsExact
PROPERTY ImplementsAddressUnit
