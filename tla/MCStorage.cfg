CONSTANTS
  g = g
  x1 = x1
  x2 = x2
  y1 = y1
  Dbs = {d1, d2}
  Genesis = g
  Blocks <- ForkBlocks
  Parent <- ForkParent
  Depth <- ForkDepth
  CacheLimit = 2
  MaxMoves = 6
  Never = 100
SPECIFICATION Spec
SYMMETRY Databases
INVARIANTS
  DatabasesFollow
  AlwaysReadable
