CONSTANTS
  ErrorCodes = {"SQLITE_MISUSE", "SQLITE_ABORT"}
  Script = 3
SPECIFICATION Spec
INVARIANT CreatedOnSuccess
