SPECIFICATION Spec
CONSTANTS
  None = None
  c1 = c1
  c2 = c2
  Callers = {c1, c2}
  T = 2
  Burst = 3
  tolerance = 3
  LockTTL = 2
  Slack = 1
  MaxStall = 1
  FailOpen = TRUE
  MaxClock = 6
SYMMETRY Symmetry
INVARIANT Conforms
INVARIANT Exclusive
