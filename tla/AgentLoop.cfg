SPECIFICATION Spec
CONSTANTS
  MaxCalls = 4
  MaxUserMsgs = 2
  Permissions = {"p"}
  Policy <- MCPolicy
  Needs <- MCNeeds
  Malformed <- MCMalformed
INVARIANTS
  TypeOK PromptHoldsLock NoRedundantPrompt RequestAfterTools WellFormedUndisturbed
PROPERTIES
  CancelledActAsksNoMore InterruptedToolsEnd TurnSettles
CHECK_DEADLOCK FALSE
