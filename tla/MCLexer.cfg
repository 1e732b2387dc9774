SPECIFICATION FairSpec
CONSTANTS
  Shapes <- Sources
INVARIANTS TypeOK CursorIsTracked ReportsPointAtSource TokensPointAtSource
INVARIANTS LongestMatch NothingIsSkipped ErrorsAreDeserved
PROPERTY Termination
