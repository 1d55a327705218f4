CONSTANTS
  None = None
  e1 = e1
  e2 = e2
  Ids = {e1, e2}
  Items <- SmallItems
  Proposals <- SmallProposals
  Verdicts <- SmallVerdicts
  MaxAnswered = 1
SPECIFICATION Spec
INVARIANTS
  ConclusionIsEarned
  DenialHasCause
  OutcomeMonotone
  UsageCounted
  CauseIsTheClaim
PROPERTIES
  ImplementsReportContract
