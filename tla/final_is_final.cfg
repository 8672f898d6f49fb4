SPECIFICATION Spec
CONSTANTS
  NoNotice = NoNotice
  Notices = {n1}
  Requests = {r1, r2}
  FitScores <- TwoBands
  Ops <- StatusOps
  MaxCrashes = 0
  MaxSent = 1
CHECK_DEADLOCK FALSE
PROPERTIES FinalIsFinal
