CONSTANTS
  ka = ka
  kb = kb
  x = x
  y = y
  z = z
  m1 = m1
  m2 = m2
  r1 = r1
  none = none
SPECIFICATION Spec
INVARIANTS
  ViewExact
  
  TopRanksRight
  
  HitIsExact
CHECK_DEADLOCK FALSE
