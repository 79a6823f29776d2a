SPECIFICATION Spec
CONSTANTS
  Procs = {p1, p2}
  Configs = {c1, c2}
  Weights = {w1, w2}
  NoFile = NoFile
  CutFile = CutFile
  ModelConfigs <- SmallConfigs
  Shapes <- SmallShapes
  MaxEdits = 2
  MaxCalls = 3
INVARIANTS
  StaleOnlyIfDisturbed
  CrashHeals
  CacheSettles
  KernelsCoverLayers
  LoadedAsStored
CHECK_DEADLOCK FALSE
