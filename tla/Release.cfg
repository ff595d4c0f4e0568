SPECIFICATION Spec
CONSTANTS
  lexicon = lexicon
  concepts = concepts
  horse = horse
  mare = mare
  p1 = p1
  p2 = p2
  Role = {lexicon, concepts}
  Content = {horse, mare}
  Imported <- OneImport
  Proc = {p1, p2}
  MaxRows = 3
  MaxShips = 4
  MaxFaults = 2
CHECK_DEADLOCK FALSE
SYMMETRY Symmetry
INVARIANTS  DriftIsStaleness
