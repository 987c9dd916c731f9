SPECIFICATION Spec
CONSTANTS
  MaxChars = 1
  Texts <- MCTexts
PROPERTY StackOutlivesComments
CHECK_DEADLOCK FALSE
