CONSTANTS
  procA = procA
  procB = procB
  t1 = t1
  t2 = t2
  p1 = p1
  p2 = p2
  Procs <- OneProc
  Threads <- MCThreads
  Progs <- MCProgs
  ToolsFail = FALSE
SPECIFICATION Spec
INVARIANTS
  CacheCorrect
PROPERTIES
  WaitersFinish
