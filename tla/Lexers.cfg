SPECIFICATION Spec
CONSTANTS
  MaxChars = 2
  Texts <- MCTexts
INVARIANTS
  TypeOK
  ParsersAssumption
  NewlinesAreTokens
  ParensMatchInLine
  CommentLines
CHECK_DEADLOCK FALSE
