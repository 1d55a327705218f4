CONSTANTS
  None = None
  NoCluster = NoCluster
  r1 = r1
  r2 = r2
  r3 = r3
  v1 = v1
  v2 = v2
  prod = prod
  lab = lab
  oom = oom
  oomKilled = oomKilled
  Runs <- TwoRuns
  Scopes = {NoCluster, prod}
  Incidents = {oom}
  Reviewers = {}
  MaxReviews = 0
  Configured = TRUE
  MaxMemory = 1
  MaxRecalled = 1
  Contains <- Prefixes
SPECIFICATION Spec
INVARIANT
  NeverWrittenTwice
CHECK_DEADLOCK FALSE
