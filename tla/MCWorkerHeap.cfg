CONSTANTS
  NBlocks = 6
  BlockSize = 2
  Vals = {0, 1}
  Widths = {1}
  Sizes = {1, 3}
  Ptrs = {0, 10}
  AlignedOnly = TRUE
  Golden <- MCGolden
SPECIFICATION Spec
INVARIANTS
  AllocationsDisjoint
