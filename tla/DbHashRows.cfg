CONSTANTS
  Files = {"a", "b"}
  MaxArgs = 4
  MaxFiles = 2
  MaxTables = 2
  MaxVersion = 2
SPECIFICATION Spec
INVARIANT AllRowsHashed
CHECK_DEADLOCK FALSE
