SPECIFICATION SpecReplay
CONSTANTS
  Align = 4
  MinBlock = 8
  MaxSize = 31
  Sizes = {0, 1, 6, 30}
  Alignments = {1, 3, 4}
  MaxBlocks = 3
  MaxDepth = 2
  MaxLive = 3
  MaxLog = 2
INVARIANTS
  IInv
  IReplay
  LiveProtected
  ReserveHonoured
PROPERTY WarmNeverGrows
