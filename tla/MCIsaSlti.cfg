CONSTANTS
  XLEN = 8
  WLEN = 4
  ImmBits = 4
  Vals <- MCVals
  Ops <- MCSlti
SPECIFICATION Spec
INVARIANTS
  JitMatchesInterp
