CONSTANTS
  Words = 3
  MaxDepth = 1
SPECIFICATION Spec
INVARIANT FindComplete
CHECK_DEADLOCK FALSE
