SPECIFICATION CallSpec
CONSTANTS
  nan = nan
  Vocab = 4
  MinPerChunk = 1
  MaxTotal = 3
  Logits <- FourLogits
  NaN <- nan
  NegInf = 0
  IntMax = 100
  Grows = FALSE
  BaseRows = 5
  BaseChunksPerThread = 2
  BaseMaxTotal = 2
  BaseScores <- NumberScores
INVARIANTS
  IInv
  GreedyToken
  SlicesInBounds
  BaseIInv
  BaseGreedyToken
  BaseSameAcrossThreadCounts
