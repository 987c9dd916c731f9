SPECIFICATION Spec
CONSTANTS
  MaxOperators = 2
  Levels = {0, 1}
  Texts <- MCTexts
INVARIANT NoPanic
