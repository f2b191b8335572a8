SPECIFICATION FairSpec
CONSTANTS
  Health = {h1}
  Troubleshoot = {t1}
  NotifyCapacity = 1
  MaxCreates = 1
  MaxEdits = 0
  MaxFaults = 1
PROPERTY RunningEnds
CHECK_DEADLOCK FALSE
