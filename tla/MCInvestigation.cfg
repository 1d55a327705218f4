CONSTANTS
  None = None
  Done = Done
  eventsOfPod = eventsOfPod
  events = events
  logs = logs
  prometheus = prometheus
  Calls <- GkeCalls
  Scoped <- GkeScoped
  Broad <- GkeBroad
  Sources = {}
  Domain <- CallDomain
  Required <- BothDomains
  ClusterType = "gke"
  MaxSteps = 3
  MinSteps = 1
  SafetyBudget = 1
  MaxDuration = 2
  TimeCap = 2
  RegistryStates = {"enabled", "missing"}
  MaxTokens = 7
  Usages = {1}
  MaxUsage = 1
  GraphRecursionLimit = 21
SPECIFICATION Spec
INVARIANTS
  TypeOK
  EvidenceFollowsHistory
  RepeatOnlyByBroadening
  SufficientIsEarned
  RouterFailureReported
  CleanSuccess
  NoEvidenceNoConclusion
  TokenOvershootBounded
PROPERTIES
  FailureIsFinal
