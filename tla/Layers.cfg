SPECIFICATION LayersSpec
CONSTANTS
  Window = 3
  MaxChunk = 4
  MaxRows = 8
  Kernel = 4
  KeyHeads = 2
  ValueHeads = 4
  MaxTokens = 6
  MaxFailures = 2
  Experts = 3
  Scores = {0, 1, 2, 4}
  Vocab = 3
  Weights = {1, 2, 3, 6}
INVARIANTS
  WindowKept
  AttendsWindow
  PairsMatch
  ChunksDontShow
  
  RoutedRight
  SampledFairly
