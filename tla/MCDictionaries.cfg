SPECIFICATION Spec
CONSTANTS
  c1 = c1
  c2 = c2
  Items <- MCItems
  Declared <- MCDeclared
  Corrected = "corrected"
  Seeders = {s1, s2}
  MaxSeeds = 2
  MaxActs = 1
  MaxLosses = 1
  Null = Null
INVARIANTS CopiesHold
PROPERTIES SeedsSettle AllSettles
CHECK_DEADLOCK FALSE
