SPECIFICATION Spec
CONSTANTS
  NoNotice = NoNotice
  Notices = {n1}
  Requests = {r1}
  FitScores <- TwoBands
  Ops <- AllOps
  MaxCrashes = 0
  MaxSent = 1
CHECK_DEADLOCK FALSE
PROPERTIES FollowsDocumentedLifecycle
