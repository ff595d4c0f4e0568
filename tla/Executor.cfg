CONSTANTS
  w1 = w1
  w2 = w2
  a = a
  b = b
  c = c
  Workers = {w1, w2}
  Requests = {a, b}
  Priorities <- ThreePrio
  DefaultScore <- Defaults
  Hysteresis = 1
  UniqueIds = TRUE
  MaxSubmits = 2
  MaxWrites = 1
  None = None
SPECIFICATION FairSpec
CHECK_DEADLOCK FALSE
INVARIANTS QueueIsSound OutrankedIsAsked
PROPERTIES ImplementsPool EverythingEnds
