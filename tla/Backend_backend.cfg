SPECIFICATION Spec
CONSTANTS
  Parts = {"review", "report", "documents", "removal", "generation", "chat", "login", "validation", "plan", "output", "phase", "model", "link"}
  features = features
  a = a
  s1 = s1
  f1 = f1
  f2 = f2
  m1 = m1
  Statements = {a, b}
  Blank = blank
  NoMatch = noMatch
  Gone = gone
  Phases <- MCPhases
  Parent = features
  Jobs = {j1}
  Users = {u1, u2}
  Keys = {k1}
  Pair = pair
  Nobody = nobody
  Sources = {s1, s2}
  MaxTries = 2
  MaxEdits = 1
  MaxRequests = 2
  Overlap = FALSE
  ReportFeatures = {f1}
  Stranger = stranger
  Reqs = {q1, q2}
  None = none
  Order <- MCOrder
  MaxRaw = 2
  MaxChanges = 1
  DocRequests = {r1, r2}
  DocFeatures = {f1, f2, f3}
  NoFeature = none
  MaxNumber = 3
  RemovalFeatures = {f1, f2}
  Free = free
  Pipeline = pipeline
  MaxFixes = 2
  MaxLapses = 2
  Generations = {g1, g2}
  MaxIterations = 2
  Threshold = 2
  EnoughSnippets = 2
  Turns = {t1, t2}
  Threads = {h1}
  NoThread = none
  QuestionSize = 1
  ReplySizes = {1}
  Window = 2
  Budget = 5
  Attempts = {a1, a2}
  Exchanges = {x1, x2}
  Codes = {c1, c2}
  NoCode = none
  MaxFailures = 3
  RateLimit = 4
  Checks = {w1, w2}
  MaxRunners = 1
  Manifests = {m1, m2}
  MaxManifestEdits = 1
  NoManifest = none
  OtherFeatures <- MCOthers
  RawPaths <- MCRawPaths
  MaxOperations = 2
  BuildAnswers <- MCBuildAnswers
  NoTarget = none
  OutputFiles = {f1, f2}
  NoFile = none
  MaxLines = 4
  MinRequirements = 2
  MinCriteria = 2
  FirstFeatures = 2
  TitleWords = {w1, w2}
  MaxItems = 3
  ModelUsers = {u1}
  Calls = {n1, n2}
  Ttl = 2
  Permits = 1
  MaxAttempts = 2
  LastInstant = 3
  MaxSaves = 1
  Callers = {c1, c2}
  Unlinked = unlinked
  MaxGrants = 2
  MaxTurns = 2
CONSTRAINT OneExtra
INVARIANTS BackendTypes ApplyKeepsEdits    ShownIsEvaluated BoundedGuesses ValidPlanApplies  RequirementsReadBack ReplacedConfigExpires StoredIsNewest
PROPERTIES PurgedStaysPurged 
CHECK_DEADLOCK FALSE
