CONSTANTS
  w1 = w1
  w2 = w2
  e1 = e1
  e2 = e2
  e3 = e3
  i1 = i1
  i2 = i2
  k1 = k1
  Workers <- MCWorkers
  Edges <- MCEdges
  Bit <- MCBit
  WordOf <- MCWordOf
  Inputs <- MCInputs
  InitCorpus <- MCInitCorpus
  CrashKeys <- MCCrashKeys
SPECIFICATION Spec
INVARIANTS
  BitsAccounted
