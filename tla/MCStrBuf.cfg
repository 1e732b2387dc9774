SPECIFICATION Spec
CONSTANTS
  PtrdiffMax = 7
  Slack = 2
  Chars = {a, b}
  NUL = NUL
  UNINIT = UNINIT
  Lengths = {0, 1, 3, 6, 7}
  Texts <- Runs
INVARIANTS TypeOK EndsInBuffer
PROPERTY BuilderSpec
CHECK_DEADLOCK FALSE
