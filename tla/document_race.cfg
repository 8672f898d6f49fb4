SPECIFICATION Spec
CONSTANTS
  NoNotice = NoNotice
  Notices = {n1}
  Requests = {r1, r2}
  FitScores <- HighBand
  Ops <- DocumentOps
  MaxCrashes = 0
  MaxSent = 1
CHECK_DEADLOCK FALSE
SYMMETRY SlotSymmetry
 
PROPERTIES SectionsLostOnlyByDesign
