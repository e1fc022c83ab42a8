SPECIFICATION HSpec
CONSTANTS
  NULL = NULL
  i1 = i1
  w1 = w1
  m1 = m1
  m2 = m2
  m3 = m3
  m4 = m4
  Chart <- SeedChart
  Draw <- Drawn
  MaxCopies = 3
  Events <- AllIds
  Payload <- Payloads
  Settled <- NeverSettled
  Movement <- OwnMovement
  Ingests = {i1}
  Workers = {w1}
  Msgs = {m1, m2, m3, m4}
  QueueBound = 4
  MaxRetries = 0
  MaxFaults = 0
  Schedules <- AllSchedules
  MaxGiveUps = 1
INVARIANT GreenWhenCorrect
INVARIANT GreenIsTrue
INVARIANT EvidenceNamesFault
PROPERTY EveryScenarioEnds
CHECK_DEADLOCK FALSE
