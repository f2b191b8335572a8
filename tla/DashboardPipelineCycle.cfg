SPECIFICATION FairSpec
CONSTANTS
  Clusters = {c1, c2}
  Capacity = 1
  NoRequest = NoRequest
  Hashes = {h0, h1}
  NoIssues = h0
  Configs = {g1}
  Guarded = {r1}
  Posters = {}
  NoHash = NoHash
  NoConfig = NoConfig
  MaxChecks = 2
  MaxPosts = 0
  EarlyRequests = FALSE
INVARIANTS EnhancementMatches PendingBacked
PROPERTY PendingResolves
CHECK_DEADLOCK FALSE
