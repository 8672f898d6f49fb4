SPECIFICATION Spec
CONSTANTS
  Requests = {r1, r2}
  Retries = 2
  MirrorLimit = 2
  Mappings <- MCMappings
  MaxJobs = 2
  MaxSeconds = 1
  MaxEdits = 1
  MaxCrashes = 1
INVARIANTS TypeOK ExportsHaveJobs   
PROPERTIES RequestsEnd
CHECK_DEADLOCK FALSE
