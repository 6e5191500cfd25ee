SPECIFICATION FairSpec
CONSTANTS
  NoObject = NoObject
  f1 = f1
  f2 = f2
  f3 = f3
  s1 = s1
  s2 = s2
  s3 = s3
  p1 = p1
  p2 = p2
  FP = {f1}
  Src = {s1}
  Provider = {p1}
  Finding <- MCFinding
  SrcProvider <- MCSrcProvider
  SrcRef <- MCSrcRef
  SrcFindings <- MCSrcFindings
  NodeOrder <- MCNodeOrder
  Lagging = {"rjobs", "jobs"}
  TTL = 3
  ShortTTL = 2
  StalenessTimeout = 9
  LateStart = FALSE
  Deadlines = FALSE
  DryRun = FALSE
  OpensPR = TRUE
  MaxNow = 0
  MaxConcurrentJobs = 1
  MaxRetries = 2
  Correlate = FALSE
  Window = 0
  Injected = {}
  Vanish = FALSE
  MaxUid = 1
  MaxFaults = 1
  Threshold = 2
PROPERTY NoDoubleDispatch
PROPERTY EventuallySettled
INVARIANT TypeOK
