CONSTANTS
  Databases = {d1}
  Statements = {s1, s2, s3}
  Null = Null
  ErrorCodes = {"SQLITE_MISUSE", "SQLITE_ABORT"}
  MaxRows = 1
  MaxScript = 1
  MaxDepth = 2
  CallbackCodes = {"SQLITE_OK", "SQLITE_ABORT"}
SPECIFICATION Spec
INVARIANT ExecCursorOnRow
CHECK_DEADLOCK FALSE
