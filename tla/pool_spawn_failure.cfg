SPECIFICATION FairSpec
CONSTANTS
  c1 = c1
  c2 = c2
  NoThread = NoThread
  Callers = {c1}
  MaxThreads = 3
  GenModulus = 2
  Counts = {1, 4}
  MinPerChunks = {2}
  ThreadArgs = {1, 3}
  SpawnMayFail = TRUE
PROPERTY PostedRegionReturns
CHECK_DEADLOCK FALSE
