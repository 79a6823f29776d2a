SPECIFICATION HandlesSpec
CONSTANTS
  NumLayers = 2
  Norms = 2
  PromptLens = {0, 1, 2}
  MaxTokens = {0, 1, 4}
  Slack = 0
  MinCap = 2
INVARIANTS
  TokensContinuePrefix
  CacheIsPrefix
  CapacitySuffices
  ClosureFitsBuffers
  HandlesOwned
  HandlesReturn
PROPERTIES
  OnlyFallsBack
  EveryRequestAnswered
  ImplementsDecoder
