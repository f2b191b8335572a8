SPECIFICATION FairSpec
CONSTANTS
  Health = {h1}
  Troubleshoot = {t1}
  NotifyCapacity = 1
  MaxCreates = 1
  MaxEdits = 1
  MaxFaults = 1
INVARIANT ExecutedOnce
PROPERTIES TroubleshootLifecycle EndsUnlessFault TTLRemoves
CHECK_DEADLOCK FALSE
