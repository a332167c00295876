SPECIFICATION ServingSpec
CONSTANTS
  Tokens = {0, 1}
  Models <- MC_Models
  DraftedModels = {0, 1, 2}
  Weight <- MC_Weight
  Score <- MC_Score
  Unit = 2
  Requests = 2
  Beams = 3
  BlockSize = 2
  MaxBlocks = 3
  PoolBlocks = 9
  MaxLength = 5
  MaxDraft = 2
  DraftSteps = 2
  TokenCount = 3
  ExpertCount = 3
  TopK = 2
  TileRows = 2
  Adapters = 2
  LoraLists <- MC_LoraLists
  LoraCapacity = 6
  DroppedRoutes = {0}
INVARIANTS
  IInv
  CacheHoldsHistory
  SampledEntries
  DraftsSpareHistory
  RoutedProducts
  RoutedGradients
  LoraTiles
  RowsFollowRoutes
PROPERTY ImplementsTokenStreams
