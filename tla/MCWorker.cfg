CONSTANTS
  NBlocks = 5
  BlockSize = 2
  Vals = {0, 1}
  Widths = {1, 2}
  Sizes = {1, 2, 3}
  Ptrs = {0, 6, 7, 8}
  AlignedOnly = TRUE
  Golden <- MCGolden
SPECIFICATION Spec
INVARIANTS
  TypeOK
  DirtyCoversDivergence
  DirtyLogBounded
  UninitReadsCaught
  FallbackRefaults
PROPERTIES
  SnapshotRefined
