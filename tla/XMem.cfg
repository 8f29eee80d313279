SPECIFICATION SpecX
SYMMETRY Symmetry
VIEW View
CONSTANTS
  p1 = p1
  p2 = p2
  p3 = p3
  p4 = p4
  N = 10
  Ids = {p1, p2, p3, p4}
  Sizes = {8, 24, 40, 64}
  AlignSizes = {32}
INVARIANTS
  XTypeOK
  PointersHold
  FreesItsOwn
  ListsSound
  NothingLost
PROPERTIES
  AllocatorSpec
