SPECIFICATION BothSpec
CONSTANTS
  Toks <- SomeToks
  TextsOf <- SomeTextsOf
  Reversible <- SomeReversible
INVARIANTS
  SegmentsTile
  PiecesBest
  AsciiRoundTrip
PROPERTIES
  AnswersAlike
  MergesAsDefined
CHECK_DEADLOCK FALSE
