CONSTANTS
  g = g
  x1 = x1
  x2 = x2
  y1 = y1
  d1 = d1
  d2 = d2
  p = p
  q = q
  w1 = w1
  none = none
SPECIFICATION FairSpec
PROPERTIES
  ArchiveCatchesUp
  RequestsEnd
  CatchesUp
CHECK_DEADLOCK FALSE
