SPECIFICATION Spec
CONSTANTS
  Ids = {i1}
  Requests = {r1, r2}
  NoSession = NoSession
  MaxSessions = 1
  TokenBudget = 2
  MaxIterations = 3
  MaxToolCalls = 1
  MaxCost = 1
  Anthropic = TRUE
INVARIANT RequestBuilds
CHECK_DEADLOCK FALSE
