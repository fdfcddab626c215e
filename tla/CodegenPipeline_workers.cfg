CONSTANTS
  StaleAfter = 1
  Workers = {w1, w2}
  Features = {f1, f2}
  Recoverers = {}
  MaxAttempts = 2
  MaxStarts = 3
  MaxCrashes = 1
  MaxStops = 1
  MaxLapses = 1
  PromptChecks = FALSE
SYMMETRY Symmetry
SPECIFICATION Spec
INVARIANTS MutualExclusion ImplementedIsCommitted NoLeakedMemoryLock
PROPERTIES FailureLeavesNothing 
CHECK_DEADLOCK FALSE
