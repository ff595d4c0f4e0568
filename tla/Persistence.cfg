SPECIFICATION Spec
CONSTANTS
  g1 = g1
  g2 = g2
  e1 = e1
  x1 = x1
  x2 = x2
  Graph = {g1, g2}
  MetaEdge = {e1}
  XRef = {x1, x2}
  Ends <- MCEnds
  MaxOps = 10
  MaxFaults = 3
CHECK_DEADLOCK FALSE
SYMMETRY Symmetry
INVARIANT HeldIsSafe
PROPERTIES LogBracketsRows UnsavedIsRemembered
