SPECIFICATION Spec
CONSTANTS
  NumLayers = 5
  NumExperts = 2
  Parts <- SomeParts
  FileSets <- SomeFileSets
  Selections <- SomeSelections
  Window = 2
  Depth = 2
  HotCount = 1
  PinAfter = 2
  PinPercent = 70
  MaxTokens = 3
INVARIANTS
  EveryLayerIndexed
CHECK_DEADLOCK FALSE
