SPECIFICATION HandlesSpec
CONSTANTS
  NumLayers = 1
  Norms = 2
  PromptLens = {1, 2}
  MaxTokens = {1, 3}
  Slack = 0
  MinCap = 2
INVARIANT
  SampledWhenAsked
