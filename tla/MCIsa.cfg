CONSTANTS
  XLEN = 8
  WLEN = 4
  ImmBits = 4
  Vals <- MCVals
  Ops <- MCOps
SPECIFICATION Spec
INVARIANTS
  InterpMatchesISA
  JitMatchesInterp
