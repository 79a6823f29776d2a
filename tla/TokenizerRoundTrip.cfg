SPECIFICATION BothSpec
CONSTANTS
  Toks <- SomeToks
  TextsOf <- SomeTextsOf
  Reversible <- SomeReversible
INVARIANTS
  RoundTrip
