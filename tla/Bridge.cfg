SPECIFICATION MCSpec
CONSTANTS
  MaxParams = 3
  MaxEdges = 3
  MaxEdgesWide = 2
  Names <- MCNames
  Fold <- MCFold
  Lists <- MCLists
  Decks <- MCDecks
INVARIANTS
  TypeOK
  InDegreesExact
  CyclesReported
  DefinitionsSurvive
  BindsAsInSource
PROPERTIES
  KeepsPromise
  Terminates
  ProjectionEnds
