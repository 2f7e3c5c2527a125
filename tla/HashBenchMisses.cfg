CONSTANT MaxRuns = 2
SPECIFICATION Spec
INVARIANT MissesAreDeletedRows
CHECK_DEADLOCK FALSE
