SPECIFICATION FairSpec
CONSTANTS
  Calls = {c1, c2, c3}
  PoolSize = 2
  NoCall = NoCall
INVARIANTS
  NobodyForgotten
  BacklogBounded
PROPERTIES
  EveryCallAnswered
  ThreadsReturn
  ImplementsService
