SPECIFICATION SkillsSpec
CONSTANTS
  a1 = a1
  a2 = a2
  b1 = b1
  c1 = c1
  n1 = n1
  n2 = n2
  p1 = p1
  p2 = p2
  p3 = p3
  Shell = {p1, p2, p3}
  Manifest = {a1, a2, b1, c1}
  Name <- MCName
  Requires <- MCRequires
  Content <- MCContent
  RoleOf <- MCRoleOf
  Rank <- MCRank
  MaxOpened = 4
CHECK_DEADLOCK FALSE
SYMMETRY Symmetry
INVARIANTS RosterIsSound
PROPERTY HistoryGrows
