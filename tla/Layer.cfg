CONSTANTS
  c1 = c1
  c2 = c2
  c3 = c3
  s1 = s1
  s2 = s2
  a = a
  b = b
  Calls = {c1, c2, c3}
  Stoppers = {s1, s2}
  Ids = {a, b}
  Workers = 2
  MaxTicks = 1
  NoCall = NoCall
SPECIFICATION LayerFairSpec
CHECK_DEADLOCK FALSE
INVARIANTS StopIsSound AbortMissesOnlyRacers
PROPERTY StopReturns
