SPECIFICATION Spec
CONSTANTS
  NULL = NULL
  i1 = i1
  i2 = i2
  w1 = w1
  w2 = w2
  m1 = m1
  m2 = m2
  m3 = m3
  m4 = m4
  Chart <- SeedChart
  Payload <- Catalogue
  Settled <- SettledFees
  Movement <- Movements
  Events = {"charge", "chargeTwin"}
  Ingests = {i1}
  Workers = {w1, w2}
  Msgs = {m1, m2}
  QueueBound = 2
  MaxRetries = 0
  MaxFaults = 1
SYMMETRY Symmetry
INVARIANT IInv
INVARIANT OnePostingPerMovement
PROPERTY ImplementsMoneyPath
