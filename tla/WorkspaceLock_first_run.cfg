CONSTANTS
  Workers = {w1, w2}
  Tasks = {t1}
  StaleAfter = 2
  Registered = FALSE
  BoundedRuns = TRUE
SPECIFICATION Spec
INVARIANT MutualExclusion
CHECK_DEADLOCK TRUE
