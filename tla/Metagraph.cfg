SPECIFICATION Spec
CONSTANTS
  g1 = g1
  g2 = g2
  a = a
  b = b
  e1 = e1
  m1 = m1
  i1 = i1
  x1 = x1
  t1 = t1
  c1 = c1
  Graph = {g1, g2}
  Node = {a, b}
  Edge = {e1}
  Meta = {m1}
  Inter = {i1}
  XRef = {x1}
  Instance = {t1}
  Composite = {c1}
  Home <- MCHome
  MaxOps = 4
CHECK_DEADLOCK FALSE
SYMMETRY Symmetry
 
PROPERTY RemovalMarksStale
