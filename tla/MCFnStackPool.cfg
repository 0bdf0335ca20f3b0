CONSTANTS
  Fn = {0, 1}
  newsize = 7
  MaxDepth = 6

SPECIFICATION Spec

INVARIANT ChainIntact
PROPERTY ReusesChunks
PROPERTY ImplementsLifo
