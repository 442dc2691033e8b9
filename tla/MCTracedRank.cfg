CONSTANTS
  MaxRanks = 2
  MaxJobs = 2
  MaxFaults = 1
  Me = 1
  Followed = 1
  Threads = {main, t1}
  Main = main
  MaxCalls = 2
  NoThread = NoThread
SPECIFICATION TracedSpec
INVARIANTS
  InStep
  TraceStandsForCalls
  CallsReachMergedTrace
PROPERTIES
  QuietWhileMerging
