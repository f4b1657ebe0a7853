SPECIFICATION Spec
CONSTANTS
  MaxTurns = 7
  MaxTokens = 7
  Threshold = 0
  MaxContext = 0
  Hooks = 2
  MaxRetries = 3
  ReadOnly = {}
INVARIANT RetriesPerHookBounded
