SPECIFICATION Spec
CONSTANTS
  Threads = {t1, t2, t3}
  Nodes = {n1, n2}
  Null = Null
  MaxPosts = 4
CHECK_DEADLOCK FALSE
INVARIANTS
  NoWorkLost
PROPERTIES
  ImplementsQueue
