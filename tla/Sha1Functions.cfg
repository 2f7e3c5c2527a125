CONSTANTS
  Word = 128
  Block = 4
  LenField = 2
  MaxLen = 15
  MaxBytes = 40
  Alphabet = {"R", "1"}
  MaxText = 2
  MaxSql = 1
  MaxColumns = 2
  MaxStatements = 2
  MaxValues = 2
SPECIFICATION FairSpec
INVARIANTS TypeOK NothingMisplaced DigestIsSha1 Unambiguous
PROPERTY FinishEnds
CHECK_DEADLOCK FALSE
