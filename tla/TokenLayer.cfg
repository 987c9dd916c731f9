SPECIFICATION Spec
CONSTANTS
  MaxOpen = 2
  MaxPieces = 3
  MaxLines = 2
  Streams <- MCStreams
INVARIANTS
  TypeOK
  TreeTiles
  LookaheadExact
  LeavesAreSignificant
  CheckpointsValid
PROPERTIES
  ErrorEatsOneLine
  RecoveryEnds
