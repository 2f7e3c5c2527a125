CONSTANTS
  Databases = {d1, d2}
  Statements = {s1, s2, s3}
  Null = Null
  ErrorCodes = {"SQLITE_MISUSE", "SQLITE_ABORT"}
  MaxRows = 2
  MaxScript = 1
  MaxDepth = 2
  CallbackCodes = {"SQLITE_OK", "SQLITE_ABORT"}
SPECIFICATION Spec
INVARIANTS
  StatementsAccounted QueryCursorOnRow NoSilentTruncation
  CallsOnOpenConnections
PROPERTIES CloseFailsOnlyInUse ConnectionOwnership StatementOwnership
CHECK_DEADLOCK FALSE
SYMMETRY Symmetry
