SPECIFICATION Spec
CONSTANTS
  MaxTurns = 5
  MaxTokens = 3
  Threshold = 2
  MaxContext = 2
  Hooks = 2
  MaxRetries = 1
  ReadOnly = {"plan", "chat"}
INVARIANTS
  TypeOK TurnsWithinLimit OverrunBounded ModeNoticed WarnedOnce HookRetriesBounded
PROPERTY ActEnds
