SPECIFICATION AllSpec
CONSTANTS
  Names = {"n"}
  Fields = {"if-none-match"}
  MaxRequests = 2
  MaxBody = 2
  CanReset = TRUE
  Condition = "if-none-match"
  Meanings <- MCMeanings
CHECK_DEADLOCK FALSE
INVARIANTS
  RoutedByOwnURL
  HeadersFirstWin
  FirstRequestFaithful
  BodyIsOwn
  ResponsesInOrder
  EarliestConditionDecides
