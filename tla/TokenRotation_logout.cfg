CONSTANTS
  Requests = {r1, r2}
  Logouts = {l1}
  MaxTokens = 3
  MaxRequests = 4
  MaxExpiries = 0
  MaxCrashes = 0
  Absent = absent
  Rotating = rotating
SYMMETRY Symmetry
SPECIFICATION Spec
PROPERTY RevokedStaysRevoked
CHECK_DEADLOCK FALSE
