CONSTANTS
  Words = 3
  MaxDepth = 1
SPECIFICATION Spec
INVARIANT EndIsTold
CHECK_DEADLOCK FALSE
