CONSTANTS
  ErrorCodes = {"SQLITE_MISUSE", "SQLITE_ABORT", "SQLITE_ERROR", "SQLITE_NOMEM"}
  Script = 11
SPECIFICATION TestsSpec
INVARIANTS StatusWhenNoValue ValueIsOpen EntriesAsCreated
PROPERTIES CallersAgree TestsEnd
CHECK_DEADLOCK FALSE
