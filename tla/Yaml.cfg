SPECIFICATION Spec
CONSTANTS
  Columns = {0, 2, 3}
  Keys = {"a", "b"}
  Texts <- MCTexts
  Words <- MCWords
  MaxLines = 4
  MaxTokens = 8
INVARIANTS
  LoadIsMeaning
  FlowRoundTrip
CHECK_DEADLOCK FALSE
