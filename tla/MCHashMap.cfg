SPECIFICATION MCSpec
CONSTANTS
  NULL = NULL
  Entries = {1, 2, 3, 4}
  Keys = {1, 2}
  Hashes = {0, 1, 2}
  InitSize = 1
INVARIANTS TypeOK LoadIsBounded
PROPERTIES MapSpec Returns
