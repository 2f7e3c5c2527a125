CONSTANTS
  Words = 3
  MaxDepth = 1
SPECIFICATION Spec
INVARIANT FoundAreDelivered
CHECK_DEADLOCK FALSE
