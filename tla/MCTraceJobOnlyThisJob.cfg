CONSTANTS
  MaxRanks = 2
  MaxJobs = 2
  MaxFaults = 0
SPECIFICATION Safety
INVARIANT OnlyThisJob
