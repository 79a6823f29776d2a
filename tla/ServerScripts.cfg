\* Three invocations at a time, three process ids; four model directories, two
\* scans.  Every property is a safety property, so the symmetry is sound.
CONSTANTS
  Cmds = {c1, c2, c3}
  Pids = {p1, p2, p3}
  ReadyTimeout = 2
  StopTimeout = 2
  NoPid = NoPid
  Orgs = {o1, o2}
  Names = {n1, n2}
  Scans = {s1, s2}
  None = None
SYMMETRY Symmetry
CONSTRAINT Claimed
SPECIFICATION Spec
INVARIANTS
  ServerNamed
  StrangersSpared
  FreshAgrees
  DefaultKept
PROPERTIES
  UpMeansMine
