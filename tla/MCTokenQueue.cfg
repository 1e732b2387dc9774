SPECIFICATION Spec
CONSTANTS
  QueueSize = 4
  MaxTokens = 30
INVARIANTS TypeOK WindowIsContiguous
PROPERTY StreamSpec
CHECK_DEADLOCK FALSE
