CONSTANTS
  Threads = {main, t1}
  Main = main
  MaxCalls = 2
  NoThread = NoThread
SPECIFICATION Safety
INVARIANT FinalizeSerializes
