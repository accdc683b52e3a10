SPECIFICATION FairLeapSpec
CONSTANTS
  a = a
  b = b
  c = c
  d = d
  e = e
  w1 = w1
  w2 = w2
  Goal = {a, b, c, d, e}
  Worker = {w1, w2}
  Decomposition <- Alternatives
  Nobody = Nobody
  Unproved = Unproved
  Direct = Direct
  NoAnd = NoAnd
  Root <- RootsBB
  Earlier <- OneByOne
  Mortal = {}
  Slow = {}
  History <- Nothing
  Portfolio = 1
  MaxDepth = 2
  MaxBlueprints = 2
  MaxNodes = 4
  MaxChildren = 3
INVARIANTS
  SelectedFounded
  OnlyFailedSkipped
CHECK_DEADLOCK FALSE
