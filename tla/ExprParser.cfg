SPECIFICATION Spec
CONSTANTS
  MaxOperators = 6
  Levels = {0, 1, 2, 3}
  Texts <- MCTexts
INVARIANTS
  TypeOK
  TwoOperands
  GroupedUnlessRelapse
  FailureContained
PROPERTY Terminates
