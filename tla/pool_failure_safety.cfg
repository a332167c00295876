SPECIFICATION Spec
CONSTANTS
  c1 = c1
  c2 = c2
  NoThread = NoThread
  Callers = {c1, c2}
  MaxThreads = 3
  GenModulus = 2
  Counts = {1, 4}
  MinPerChunks = {0, 2}
  ThreadArgs = {0, 2, 3}
  SpawnMayFail = TRUE
SYMMETRY CallerSymmetry
INVARIANTS
  IInv
  NoUseAfterReturn
  RangesDisjoint
  InParallelOnlyInBodies
PROPERTY ImplementsRegion
CHECK_DEADLOCK FALSE
