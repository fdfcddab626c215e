CONSTANTS
  Requests = {r1, r2}
  Logouts = {}
  MaxTokens = 3
  MaxRequests = 4
  MaxExpiries = 0
  MaxCrashes = 0
  Absent = absent
  Rotating = rotating
SYMMETRY Symmetry
SPECIFICATION Spec
INVARIANT GraceHonoured
CHECK_DEADLOCK FALSE
