CONSTANTS
  Threads = {t1, t2}
  Handles = {h1, h2}
  NullRequest = NullRequest
  Language = "c"
  MaxCalls = 4
SPECIFICATION Spec
SYMMETRY Interchangeable
INVARIANTS
  TypeOK
  
  
  HandleLifetimesDisjoint
