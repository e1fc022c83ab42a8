SPECIFICATION ShedFairSpec
CONSTANTS
  Thresholds <- DEFAULT_THRESHOLDS
  Pressures <- Samples
  EscalateAfter = 2
  RecoverAfter = 5
  Enforce = TRUE
INVARIANT MoneyPathProtected
PROPERTY AntiFlap
PROPERTY Converges
