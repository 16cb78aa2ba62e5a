CONSTANTS
  GoldenFiles <- MCGoldenFiles
  InputLens = {0, 2, 3}
  ReadLens = {1, 2}
  Offsets <- MCOffsets
  Whences = {0, 1, 2, 3}
  MaxFiles = 5
SPECIFICATION Spec
INVARIANTS
  TypeOK
  CursorInBounds
CHECK_DEADLOCK FALSE
