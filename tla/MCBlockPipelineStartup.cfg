SPECIFICATION Spec
CONSTANTS
  g = g
  x1 = x1
  x2 = x2
  x3 = x3
  y1 = y1
  NoBlock = NoBlock
  Genesis = g
  Blocks <- Straight
  Parent <- MCParent
  Depth <- MCDepth
  Total <- Alternating
  Bytes <- MCBytes
  BadPrepare = {}
  BadConnect = {x2}
  PrepLanes = 1
  ReadyQueueDepth = 0
  SegmentBlocksLimit = 2
  SegmentSizeLimit = 2
  BiteFloorBlocks = 2
  BiteFloorSize = 2
  Feeds = 2
  Reindexing = TRUE
  MaxBulk = 1
INVARIANTS
  CondemnedJustly
  
  StagesComplete
