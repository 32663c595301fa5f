SPECIFICATION Spec
CONSTANTS
  g = g
  x1 = x1
  x2 = x2
  x3 = x3
  y1 = y1
  NoBlock = NoBlock
  Genesis = g
  Blocks <- Both
  Parent <- MCParent
  Depth <- MCDepth
  Total <- HeavyBlock
  Bytes <- MCBytes
  BadPrepare = {}
  BadConnect = {x3}
  PrepLanes = 2
  ReadyQueueDepth = 0
  SegmentBlocksLimit = 2
  SegmentSizeLimit = 2
  BiteFloorBlocks = 2
  BiteFloorSize = 2
  Feeds = 0
  Reindexing = FALSE
  MaxBulk = 0
INVARIANTS
  StateBelowSegment
  OneActiveChain
