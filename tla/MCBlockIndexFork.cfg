SPECIFICATION Spec
CONSTANTS
  b0 = b0
  b1 = b1
  b2 = b2
  b3 = b3
  t1 = t1
  t2 = t2
  t3 = t3
  NoBlock = NoBlock
  Genesis = b0
  Blocks <- Fork
  Parent <- ForkParent
  Proof <- ForkProof
  Depth <- ForkDepth
  Total <- ForkTotal
  Loaded <- JustGenesis
  Threads <- ThreeThreads
SYMMETRY ThreadSymmetry
INVARIANTS
  ReadsPublished
  NothingLost
  HeaviestNotified
PROPERTIES
  PublishedStays
  ImplementsReadiness
