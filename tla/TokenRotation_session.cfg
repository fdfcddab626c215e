CONSTANTS
  Requests = {r1, r2}
  Logouts = {l1}
  MaxTokens = 3
  MaxRequests = 5
  MaxExpiries = 1
  MaxCrashes = 1
  Absent = absent
  Rotating = rotating
SPECIFICATION Spec
INVARIANT OneLiveToken
PROPERTIES  OverStaysOver
CHECK_DEADLOCK FALSE
