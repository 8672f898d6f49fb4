SPECIFICATION FairSpec
CONSTANTS
  Rows <- MCRows
  Targets = {0, 3, 6}
  MaxDowngrades = 1
  MaxCrashes = 2
INVARIANTS SchemaIsItsRevision HeadFitsTheCode
PROPERTIES  CleanupLeavesNoTrace 
CHECK_DEADLOCK FALSE
