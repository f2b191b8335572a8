SPECIFICATION FairSpec
CONSTANTS
  Callers = {p1, p2}
  Requests = {r1}
  Estimate <- MCEstimate
  ChatEstimate = 5
  Actuals = {3}
  Names = {n1}
  Models = {m1}
  None = None
  MaxIterations = 1
  Windows = {day}
  Limit <- MCLimit
  Duration <- MCDuration
  Threshold = 2
  ResetTimeout = 2
INVARIANTS ClosedBelowThreshold Accounted WithinLimit
PROPERTY HalfOpenResolves
CHECK_DEADLOCK FALSE
