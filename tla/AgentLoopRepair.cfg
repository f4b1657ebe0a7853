SPECIFICATION Spec
CONSTANTS
  MaxCalls = 3
  MaxUserMsgs = 3
  Permissions = {"p"}
  Policy <- MCPolicy
  Needs <- MCNeeds
  Malformed <- MCMalformed
INVARIANT EveryCallAnswered
CHECK_DEADLOCK FALSE
