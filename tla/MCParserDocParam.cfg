SPECIFICATION Spec
CONSTANTS
  QueueSize = 4
  Shapes <- TwoParams
  ErrorTokens = 4
INVARIANT AcceptsOnlyDocumented
