SPECIFICATION Spec
CONSTANTS
  NoObject = NoObject
  f1 = f1
  f2 = f2
  f3 = f3
  s1 = s1
  s2 = s2
  s3 = s3
  p1 = p1
  p2 = p2
  FP = {f1, f2}
  Src = {s1, s2}
  Provider = {p1, p2}
  Finding <- MCFinding
  SrcProvider <- MCSrcProvider
  SrcRef <- MCSrcRef
  SrcFindings <- MCSrcFindings
  NodeOrder <- MCNodeOrder
  Lagging = {}
  TTL = 1
  ShortTTL = 1
  StalenessTimeout = 0
  LateStart = TRUE
  Deadlines = TRUE
  DryRun = TRUE
  OpensPR = FALSE
  MaxNow = 1
  MaxConcurrentJobs = 1
  MaxRetries = 2
  Correlate = TRUE
  Window = 1
  Injected = {}
  Vanish = FALSE
  MaxUid = 2
  MaxFaults = 1
  Threshold = 2
INVARIANT SuppressedNeverDispatched
 
 
 
PROPERTY ImplementsInvestigation
