SPECIFICATION Spec
CONSTANTS
  Word = 8
  Ids = {o1, o2, o3}
  InitSizes = {1, 20, 100}
  Sizes = {1, 20, 100}
  MaxChunks = 3
  MaxResets = 1
SYMMETRY Symmetry
INVARIANTS TypeOK BlocksAreSound ContentsAreKept NothingIsLost
CHECK_DEADLOCK FALSE
