CONSTANTS
  Word = 64
  Block = 4
  LenField = 2
  MaxLen = 8
  MaxBytes = 16
SPECIFICATION EngineSpec
INVARIANT DigestIsSha1
