SPECIFICATION FairSpec
CONSTANTS
  QueueSize = 4
  Shapes <- AllInputs
  ErrorTokens = 4
INVARIANTS TypeOK NoBug WindowIsSound DepthIsPaid ReportsNearlyInOrder IInv
PROPERTIES StmtProgress Termination
