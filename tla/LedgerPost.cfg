SPECIFICATION FairSpec
CONSTANTS
  NULL = NULL
  c1 = c1
  c2 = c2
  Chart <- Books
  Callers = {c1, c2}
  Txns <- AllTxns
  MAX_ATTEMPTS = 2
INVARIANT OnePostingPerKey
INVARIANT NoHalfPost
INVARIANT HonestOutcome
INVARIANT CheckAlwaysOk
PROPERTY ImplementsStore
PROPERTY EveryCallEnds
