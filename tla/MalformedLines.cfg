SPECIFICATION Spec
CONSTANTS
  Nothing = Nothing
  MaxLines = 1
  Texts <- MalformedLines
PROPERTY RestStaysIntact
CHECK_DEADLOCK FALSE
