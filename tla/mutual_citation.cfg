SPECIFICATION LeapSpec
CONSTANTS
  a = a
  b = b
  c = c
  d = d
  e = e
  w1 = w1
  w2 = w2
  Goal = {a, b, c, d}
  Worker = {w1, w2}
  Decomposition <- Halfway
  Nobody = Nobody
  Unproved = Unproved
  Direct = Direct
  NoAnd = NoAnd
  Root <- RootsAB
  Earlier <- SideBySide
  Mortal = {}
  Slow = {}
  History <- HalfwayHistory
  Portfolio = 1
  MaxDepth = 1
  MaxBlueprints = 0
  MaxNodes = 4
  MaxChildren = 3
INVARIANT SelectedFounded
CHECK_DEADLOCK FALSE
