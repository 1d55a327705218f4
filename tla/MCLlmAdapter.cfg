CONSTANTS
  None = None
  q = q
  s = s
  Requests = {q, s}
  Streams = {s}
  Budgets = {2}
  Cap = 3
  MaxCalls = 2
SPECIFICATION Spec
INVARIANTS
  SessionIsOwn
  TotalsExplained
  RetriesAreEarned
PROPERTIES
  CallReturns
CHECK_DEADLOCK FALSE
