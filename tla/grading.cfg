SPECIFICATION Spec
CONSTANTS
  Count = 3
  Poison <- OldestIsPoison
  BatchLimit = 2
  Attempts = 1
  MaxCrashes = 1
  MaxRequests = 1
CHECK_DEADLOCK FALSE
INVARIANTS JobAlertsOncePerCrash AlertsAreStored
PROPERTIES EveryNoticeGraded
