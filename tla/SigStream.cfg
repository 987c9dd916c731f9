SPECIFICATION Spec
CONSTANTS
  MaxTokens = 6
  Streams <- MCStreams
INVARIANTS
  TypeOK
  NothingSkipped
PROPERTIES
  DeliversLogicalLines
  CallReturns
  LinesStayApart
