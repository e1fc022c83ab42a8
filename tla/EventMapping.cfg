SPECIFICATION Spec
CONSTANTS
  NULL = NULL
  Chart <- SeedChart
  Inputs <- OrdinaryEvents
  Fees <- SmallFees
INVARIANT NetMatchesStripe
INVARIANT SaneEventsPost
CHECK_DEADLOCK FALSE
