CONSTANTS
  Prog <- MCProg
  Breakpoints = {7}
  FallibleBps = {7}
  Entry = 0
  InitRa = 11
  Timeout = 9
  MaxInstrs = 16
SPECIFICATION Spec
INVARIANTS
  TimeoutCountsRedone
PROPERTIES
  ExecRefinesInterp
  CaseEnds
