CONSTANTS
  None = None
  Local = Local
  alpha = alpha
  beta = beta
  fleet = fleet
  Clusters = {alpha, beta}
  Calls = {c1, c2}
  Probes = {}
  Files <- FixedFile
  BucketSet = TRUE
  LoadsFail = FALSE
SPECIFICATION Spec
INVARIANTS
  NeverMixed
CHECK_DEADLOCK FALSE
