SPECIFICATION SerialSpec
CONSTANT NItems = 2
INVARIANT DisabledAliasesRemoved
