SPECIFICATION Spec
CONSTANTS
  MaxLines = 4
  Kinds = {"plain", "toSpice", "toSpectre", "subckt", "ends", ".subckt", ".ends"}
  Starts = {"spectre", "spice"}
  StringLines = 3
  Texts <- MCTexts
INVARIANTS
  TypeOK
  RightUntilReturn
  OnlyCutTokensAreLost
PROPERTIES
  EmittedOnce
  Terminates
