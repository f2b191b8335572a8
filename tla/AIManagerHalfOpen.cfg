SPECIFICATION FairSpec
CONSTANTS
  Callers = {p1, p2}
  Requests = {r1}
  Estimate <- MCEstimate
  ChatEstimate = 2
  Actuals = {1, 3}
  Names = {n1}
  Models = {m1}
  None = None
  MaxIterations = 1
  Windows = {}
  Limit <- MCLimit
  Duration <- MCDuration
  Threshold = 2
  ResetTimeout = 2
PROPERTY BreakerRecovers
CHECK_DEADLOCK FALSE
