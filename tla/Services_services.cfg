SPECIFICATION Spec
CONSTANTS
  Clients = {c1, c2}
  Jobs = {j1, j2}
  NoJob = NoJob
  MaxJobs = 1
  Lease = 3
  MaxLost = 2
  MaxRestarts = 1
  Subs = {s1}
  MaxRuns = 2
  MaxEvents = 1
  MaxFaults = 2
  Pushers = {p1, p2}
  Pipeline = pipeline
  Free = free
  NoCommit = none
  MaxVersion = 3
  Broken = {1, 2}
  Requests = {r1}
  Workers = {w1}
  NoService = none
  MaxServices = 2
  MaxDeploys = 3
  MaxTrouble = 2
  MaxPolls = 2
  Overlap = FALSE
  BlindLookup = FALSE
INVARIANTS ServiceTypes AtMostMaxJobs RunningJobLives  SyncedIsPushed 
PROPERTIES AbandonedGoes SubscriptionsEnd  
CHECK_DEADLOCK FALSE
