SPECIFICATION Spec
CONSTANTS
  MaxRuns = 4
  MaxAttempts = 2
  MaxRepeated = 1
  MaxDeletions = 1
  PageSize = 2
  MaxPages = 2
INVARIANTS
  AcceptedWasLatest
  ObservedAtOnce
