SPECIFICATION Spec
CONSTANTS
  Shapes <- Unfinished
INVARIANT StaysInSource
