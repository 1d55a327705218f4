CONSTANTS
  None = None
  Done = Done
  eventsOfPod = eventsOfPod
  events = events
  logs = logs
  prometheus = prometheus
  Calls <- OnpremCalls
  Scoped = {}
  Broad <- NoBroad
  Sources = {prometheus}
  Domain <- CallDomain
  Required <- BothDomains
  ClusterType = "onprem"
  MaxSteps = 2
  MinSteps = 1
  SafetyBudget = 1
  MaxDuration = 2
  TimeCap = 2
  RegistryStates = {"enabled", "disabled"}
  MaxTokens = 0
  Usages = {1}
  MaxUsage = 1
  GraphRecursionLimit = 15
SPECIFICATION Spec
INVARIANTS
  NoRecursionError
  ReturnsRunResult
PROPERTIES
  Termination
  ImplementsRoundBudget
