SPECIFICATION Spec
CONSTANTS
  NoNotice = NoNotice
  Notices = {n1}
  Requests = {r1}
  FitScores <- AllBands
  Ops <- AllOps
  MaxCrashes = 1
  MaxSent = 3
CHECK_DEADLOCK FALSE
INVARIANTS TypeOK OneMessagePerCrash
PROPERTIES ImplementsLifecycle
