SPECIFICATION CollectionSpec
CONSTANTS
  NoNotice = NoNotice
  Notices = {"n1"}
  Requests = {r1, r2}
  FitScores <- TwoBands
  Ops <- StatusOps
  MaxCrashes = 0
  MaxSent = 1
  Bids <- MCBids
  Nameless = {"x"}
  Endpoints = 2
  Endpoint <- MCEndpoint
  Day <- MCDay
  Listing <- MCListing
  Title <- MCTitle
  Fields <- MCFields
  PageSize = 1
  MaxDays = 2
  Keywords <- MCKeywords
  Ranges <- MCRanges
  ShownSize = 2
  MaxSearches = 1
  MaxChanges = 2
CHECK_DEADLOCK FALSE
INVARIANTS SearchIsExact
PROPERTIES OnlyStaleCommitsDowngrade FinalFitsScore MessageBeforeFinal SearchEnds
