CONSTANTS
  StaleAfter = 2
  Workers = {w1, w2, w3}
  Tasks = {t1, t2}
  Registered = TRUE
  BoundedRuns = TRUE
SPECIFICATION FairSpec
PROPERTIES HeldRowStaysLocked ImplementsMutex AlwaysAcquirableAgain
CHECK_DEADLOCK FALSE
