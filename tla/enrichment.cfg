SPECIFICATION EnrichmentSpec
CONSTANTS
  Requests = {1, 2}
  Workers = {1, 2}
  Optional = {"security"}
  Items = {"voltage"}
  DocNames = {"profile"}
  MaxCalls = 5
  MaxItemCalls = 4
  MaxMixed = 3
INVARIANTS OneGeneration  
PROPERTIES VerifyTellsTheTruth ReviewsSurvive MarksSurvive
CHECK_DEADLOCK FALSE
