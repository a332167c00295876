SPECIFICATION Spec
CONSTANTS
  Pairs = 2
  Half = 2
  RowTile = 2
  Blocks = 2
  BlockSize = 4
  Products = {0, 1, 3}
  Bits = 2
  MaxTotal = 2
INVARIANT
  SameBits
