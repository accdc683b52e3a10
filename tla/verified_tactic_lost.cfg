SPECIFICATION LeapSpec
CONSTANTS
  a = a
  b = b
  c = c
  d = d
  e = e
  w1 = w1
  w2 = w2
  Goal = {a, b, c, d, e}
  Worker = {w1, w2}
  Decomposition <- SharedLemma
  Nobody = Nobody
  Unproved = Unproved
  Direct = Direct
  NoAnd = NoAnd
  Root <- RootsAB
  Earlier <- SideBySide
  Mortal = {w2}
  Slow = {}
  History <- Nothing
  Portfolio = 1
  MaxDepth = 2
  MaxBlueprints = 1
  MaxNodes = 3
  MaxChildren = 3
INVARIANT
  OnlyFailedSkipped
CHECK_DEADLOCK FALSE
