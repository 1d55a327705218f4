CONSTANTS
  None = None
  Default = Default
  alpha = alpha
  ALPHA = ALPHA
  beta = beta
  front = front
  ghost = ghost
  p1 = p1
  p2 = p2
  prod = prod
  apps = apps
  infra = infra
  Threads = {t1, t2}
  Words = {alpha, ALPHA, beta, front, ghost}
  Fold <- SmallFold
  Projects = {p1, p2}
  Environments = {prod}
  Namespaces = {apps, infra}
  Files <- SmallFiles
  Requests <- SmallRequests
  Sources = {prometheus}
  UrlSet = TRUE
  Replies <- SmallReplies
SPECIFICATION Spec
INVARIANTS
  DestinationKnown
  ResultFollowsReply
PROPERTIES
  RoutesByRule
  UpdatesArrive
