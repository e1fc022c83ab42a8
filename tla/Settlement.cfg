SPECIFICATION Spec
CONSTANTS
  NULL = NULL
  None = None
  lock_timeout = lock_timeout
  p1 = p1
  Reader = Reader
  Posts = {p1}
  Chart <- Books
  Amount <- Amounts
  Fee <- FeesTaken
  max_retries = 1
  limit = 2
  MaxFaults = 2
  Histories <- Started
  Verdicts <- Proposed
  Approvers = {"", "ana"}
  MaxRepairs = 1
INVARIANT ReportExact
INVARIANT NoPhantom
INVARIANT NoTriggerError
PROPERTY ImplementsChargeOnce
PROPERTY RepairRestores
PROPERTY EveryRequestEnds
CHECK_DEADLOCK FALSE
