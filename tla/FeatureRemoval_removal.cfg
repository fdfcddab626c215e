SPECIFICATION RemovalSpec
CONSTANTS
  RemovalFeatures = {f1, f2}
  Free = Free
  Pipeline = Pipeline
  MaxFixes = 2
  MaxLapses = 0
INVARIANT AppNeverBroken
CHECK_DEADLOCK FALSE
