CONSTANTS
  Words = 3
  MaxDepth = 3
SPECIFICATION FairSpec
INVARIANTS TypeOK HandleIsFile QuietFind CrashNeedsReentry
PROPERTY FindEnds
CHECK_DEADLOCK FALSE
