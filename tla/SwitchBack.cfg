SPECIFICATION Spec
CONSTANTS
  MaxLines = 5
  Kinds = {"plain", "toSpice", "toSpectre"}
  Starts = {"spectre"}
  StringLines = 3
  Texts <- BackAgain
INVARIANT AllToTheirParser
