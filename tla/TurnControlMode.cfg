SPECIFICATION Spec
CONSTANTS
  MaxTurns = 3
  MaxTokens = 3
  Threshold = 0
  MaxContext = 0
  Hooks = 0
  MaxRetries = 3
  ReadOnly = {"plan", "chat"}
INVARIANT LastNoticeIsMode
