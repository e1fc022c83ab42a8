SPECIFICATION Spec
CONSTANTS
  NULL = NULL
  r1 = r1
  r2 = r2
  r3 = r3
  Requests = {r1, r2, r3}
  Unsigned = {r3}
  Faults <- LiveFaults
  Arrivals <- SomeArrivals
  Copies = 2
  N = 2
  age_s = 600
INVARIANT ForwardedOnce
INVARIANT HonestUpstream
INVARIANT AttackRefused
PROPERTY EveryRequestAnswered
CHECK_DEADLOCK FALSE
