CONSTANTS
  StaleAfter = 1
  Workers = {w1}
  Features = {f1, f2}
  Recoverers = {w1}
  MaxAttempts = 2
  MaxStarts = 3
  MaxCrashes = 0
  MaxStops = 1
  MaxLapses = 0
  PromptChecks = TRUE
SPECIFICATION Spec
INVARIANT MutualExclusion
CHECK_DEADLOCK FALSE
