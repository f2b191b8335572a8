SPECIFICATION FairSpec
CONSTANTS
  Clusters = {c1, c2, c3}
  NoRequest = NoRequest
  Capacity = 1
  MaxChecks = 3
INVARIANTS
  SingleWriter
  NewestKept
  NoStranded
PROPERTIES
  MailboxSpec
  ServedWhenChecksPause
  ShutdownReturns
CHECK_DEADLOCK FALSE
