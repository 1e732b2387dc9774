SPECIFICATION Spec
CONSTANTS
  PtrdiffMax = 15
  Slack = 0
  Names <- Words
  MaxArgs = 3
  MaxReports = 3
INVARIANTS TypeOK NothingDangles NothingLeaks CommandIsObeyed
PROPERTY CompilationSpec
CHECK_DEADLOCK FALSE
