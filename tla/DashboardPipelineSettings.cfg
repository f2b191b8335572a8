SPECIFICATION Spec
CONSTANTS
  Clusters = {c1}
  Capacity = 1
  NoRequest = NoRequest
  Hashes = {h0, h1, h2}
  NoIssues = h0
  Configs = {g1, g2}
  Guarded = {r1, r2}
  Posters = {p1}
  NoHash = NoHash
  NoConfig = NoConfig
  MaxChecks = 2
  MaxPosts = 1
  EarlyRequests = TRUE
INVARIANTS PendingBacked 
PROPERTIES CommitToOwnUpdate NewestCheckShown
SYMMETRY Symmetry
CHECK_DEADLOCK FALSE
