SPECIFICATION Spec
CONSTANTS
  Procs = {p1}
  Configs = {c1}
  Weights = {w1, w2}
  NoFile = NoFile
  CutFile = CutFile
  MaxEdits = 1
  MaxCalls = 2
INVARIANT
  NeverServesStale
CHECK_DEADLOCK FALSE
