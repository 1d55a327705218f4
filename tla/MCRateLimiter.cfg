CONSTANTS
  Callers = {c1, c2, c3}
  Limits = {0, 1, 2}
  Window = 3
  Delay = 1
  MaxClock = 8
SPECIFICATION Spec
INVARIANTS
  LimitHolds
  RefusalsEarned
PROPERTIES
  RetryHonest
SYMMETRY CallerSymmetry
