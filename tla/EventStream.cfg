SPECIFICATION FairSpec
CONSTANTS
  Clients = {k1, k2}
  Clusters = {c1}
  AllClusters = AllClusters
  SSEBufferSize = 1
  MaxSSEClients = 1
INVARIANTS TypeOK SendsSafe
PROPERTIES ChecksGoOn Delivered
