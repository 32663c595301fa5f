CONSTANTS
  g = g
  c = c
  a1 = a1
  a2 = a2
  b1 = b1
  b2 = b2
  b3 = b3
  t1 = t1
  t2 = t2
  t3 = t3
  t4 = t4
  p = p
  q = q
  w1 = w1
  w2 = w2
  w3 = w3
  s1 = s1
  s2 = s2
  none = none
  SourceThreads={t1}
SPECIFICATION Spec
CONSTRAINT Undisturbed
INVARIANTS
  ConsistentWithBase
  OneLiveMark
  OneLoop
  FinishedIsComplete
  ListIsChain
  DeletedOnce
CHECK_DEADLOCK FALSE
