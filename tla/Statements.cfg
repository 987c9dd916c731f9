SPECIFICATION Spec
CONSTANTS
  Nothing = Nothing
  MaxLines = 2
  Texts <- MCTexts
INVARIANTS
  TypeOK
  ErrorsAreLocal
  StatementsStartLines
  NestingIsByLine
PROPERTY Terminates
CHECK_DEADLOCK FALSE
