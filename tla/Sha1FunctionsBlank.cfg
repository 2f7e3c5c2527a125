CONSTANTS
  Word = 128
  Block = 4
  LenField = 2
  MaxLen = 15
  MaxBytes = 40
  Alphabet = {"1"}
  MaxText = 1
  MaxSql = 1
  MaxColumns = 2
  MaxStatements = 2
  MaxValues = 2
SPECIFICATION Spec
INVARIANT Returns
CHECK_DEADLOCK FALSE
