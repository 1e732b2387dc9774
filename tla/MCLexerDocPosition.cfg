SPECIFICATION Spec
CONSTANTS
  Shapes <- OneString
INVARIANT TokensPointAtTheirStart
