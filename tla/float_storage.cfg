SPECIFICATION StorageSpec
CONSTANTS
  MantLow = 8
  MantHigh = 4
  HalfBits = 3
  Bias = 7
  HalfBias = 3
  ModelWorkspace = w
  Workspaces <- ModelWorkspaces
  NoWorkspace = none
  Calls <- ModelCalls
  Written <- ModelWritten
  InitialMemory <- ModelMemory
  MaxDepth = 2
  MaxCalls = 3
  MaxWrites = 2
INVARIANTS
  IInv
  LeasesExclusive
  NansKept
  RoundedOnce
PROPERTIES
  ImplementsTypedCalls
CHECK_DEADLOCK FALSE
