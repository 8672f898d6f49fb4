SPECIFICATION Spec
CONSTANTS
  RuleItems = {"bid_form", "bid_bond"}
  Conditional = {"bid_bond"}
  LlmItems = {}
  Attachments = {"a1"}
  HwpFiles = {"a1"}
  Pointed = {"bid_bond"}
  LlmAnswers <- MCLlmAnswers
  PatchStatuses = {"needed", "not_applicable"}
  MaxFiles = 2
  MaxCrashes = 1
  NoItem = "no_item"
INVARIANTS ReadyNeverOverclaims  
PROPERTIES LibraryKeeps  CompletedMeansFetched
CHECK_DEADLOCK FALSE
