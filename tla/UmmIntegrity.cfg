SPECIFICATION SpecWalk
CONSTANTS
  p1 = p1
  p2 = p2
  N = 5
  Ids = {p1, p2}
  Sizes = {8, 9, 25}
INVARIANTS
  WalkTypeOK
  HeapSurvives
  LoneCheckSound
PROPERTIES
  CheckReturns
