CONSTANTS
  r0 = r0
  r1 = r1
  main = main
  omp = omp
  Ranks = {r0, r1}
  Threads <- MCThreads
  Boss = main
  Node <- MCNode
  NodeSkew = 1
  Cores = {0, 2}
  CoreSkew = 2
  Modulus = 16
  MaxTime = 4
  MaxCalls = 2

SPECIFICATION Spec

INVARIANT TypeOK
INVARIANT DurationsRight
INVARIANT MergedOrder
INVARIANT FinalizesLast
