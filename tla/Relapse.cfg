SPECIFICATION Spec
CONSTANTS
  MaxOperators = 5
  Levels = {1, 2, 3}
  Texts <- MCTexts
INVARIANT Grouped
