CONSTANT MaxRuns = 4
SPECIFICATION Spec
INVARIANTS CounterIsTable TotalsExact OnlyKeyZeroMisses CrashNeedsFilter
PROPERTY DeletesFromTheEnd
CHECK_DEADLOCK FALSE
