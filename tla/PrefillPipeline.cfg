SPECIFICATION Spec
CONSTANTS
  Tokens = {"a", "b"}
  Prompts <- SomePrompts
  MaxEntries = 2
  ChunkSize = 3
  SystemLen = 2
  MaxOps = 7
INVARIANTS
  EveryTokenFedOnce
PROPERTY
  ImplementsLru
