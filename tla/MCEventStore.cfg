CONSTANTS
  Threads = {main, t1, t2}
  Main = main
  MaxCalls = 2
  NoThread = NoThread
SPECIFICATION Spec
INVARIANTS
  TypeOK
  MutualExclusion
  
  Accounted
  ProgramOrder
  InitFirst
  SavedWhole
  UnsavedOnlyIfRefused
  FinalizeUncontended
PROPERTIES
  AppendOnly
  LogSafety
  HolderLeaves
  FinalizeReturns
