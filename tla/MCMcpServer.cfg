CONSTANTS
  None = None
  Local = Local
  alpha = alpha
  beta = beta
  fleet = fleet
  Clusters = {alpha, beta, fleet}
  Calls = {c1, c2}
  Probes = {probe}
  Files <- EditedFile
  BucketSet = TRUE
  LoadsFail = TRUE
SPECIFICATION Spec
INVARIANTS
  OnlyServedClusters
  TotalOutageRefuses
  EvictionHeals
SYMMETRY CallSymmetry
