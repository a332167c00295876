SPECIFICATION FairSpec
CONSTANTS
  c1 = c1
  c2 = c2
  NoThread = NoThread
  Callers = {c1, c2}
  MaxThreads = 3
  GenModulus = 2
  Counts = {1, 4}
  MinPerChunks = {2}
  ThreadArgs = {0, 3}
  SpawnMayFail = FALSE
INVARIANTS
  IInv
  PendingCounts
  QuietBetweenCalls
PROPERTIES
  ControlReleased
  NestedCallsReturn
CHECK_DEADLOCK FALSE
