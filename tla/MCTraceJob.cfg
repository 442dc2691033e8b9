CONSTANTS
  MaxRanks = 3
  MaxJobs = 2
  MaxFaults = 2
SPECIFICATION Spec
INVARIANTS
  TypeOK
  MergedExact
  UndisturbedWorks
  NeverStuck
PROPERTIES
  FilesFrozen
  Forward
  DirSafety
  FinalizeEnds
