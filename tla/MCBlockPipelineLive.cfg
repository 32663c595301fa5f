SPECIFICATION FairSpec
CONSTANTS
  g = g
  x1 = x1
  x2 = x2
  x3 = x3
  y1 = y1
  NoBlock = NoBlock
  Genesis = g
  Blocks <- Overtaken
  Parent <- MCParent
  Depth <- MCDepth
  Total <- Alternating
  Bytes <- MCBytes
  BadPrepare = {x2}
  BadConnect = {}
  PrepLanes = 1
  ReadyQueueDepth = 0
  SegmentBlocksLimit = 2
  SegmentSizeLimit = 2
  BiteFloorBlocks = 2
  BiteFloorSize = 2
  Feeds = 1
  Reindexing = TRUE
  MaxBulk = 0
PROPERTIES
  Progress
