SPECIFICATION Spec
CONSTANTS
  ann = ann
  bob = bob
  p1 = p1
  p2 = p2
  User = {ann, bob}
  History = {ann}
  Proc = {p1, p2}
  Sliding = 2
  Absolute = 3
  MaxTime = 4
  MaxSessions = 3
  MaxCalls = 5
CHECK_DEADLOCK FALSE
SYMMETRY Symmetry
INVARIANTS SessionsAreSound AdminRemains
PROPERTIES  EndsAreAudited
