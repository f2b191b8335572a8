SPECIFICATION FairSpec
CONSTANTS
  Ids = {i1, i2}
  Requests = {r1, r2}
  NoSession = NoSession
  MaxSessions = 1
  TokenBudget = 2
  MaxIterations = 2
  MaxToolCalls = 1
  MaxCost = 1
  Anthropic = FALSE
INVARIANTS  OverspendsOneTurn
PROPERTIES AccessedKept TurnsEnd
CHECK_DEADLOCK FALSE
