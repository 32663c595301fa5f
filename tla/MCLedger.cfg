CONSTANTS
  g = g
  x1 = x1
  x2 = x2
  x3 = x3
  y1 = y1
  y2 = y2
  d1 = d1
  d2 = d2
  fresh = fresh
  noAddress = noAddress
  nullData = nullData
  noWorker = noWorker
  theWriter = theWriter
  w1 = w1
  w2 = w2
SPECIFICATION Spec
INVARIANTS
  
  BalanceIsUnspent
  CacheExact
  EveryoneLevel
PROPERTIES
  FlushedSurvives
