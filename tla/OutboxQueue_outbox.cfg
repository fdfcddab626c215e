CONSTANTS
  Workers = {w1, w2}
  Nobody = nobody
  MaxJobs = 2
  MaxAttempts = 2
  Permits = 2
  MaxErrors = 1
  MaxStops = 1
SPECIFICATION FairSpec
INVARIANT DoneOnce
PROPERTIES ImplementsQueue EventuallySettled
CHECK_DEADLOCK FALSE
