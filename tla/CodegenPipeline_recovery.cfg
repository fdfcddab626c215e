CONSTANTS
  StaleAfter = 1
  Workers = {w1}
  Features = {f1, f2}
  Recoverers = {w1}
  MaxAttempts = 1
  MaxStarts = 3
  MaxCrashes = 1
  MaxStops = 0
  MaxLapses = 1
  PromptChecks = TRUE
SPECIFICATION FairSpec
 
PROPERTY NobodyStaysInProgress
CHECK_DEADLOCK FALSE
