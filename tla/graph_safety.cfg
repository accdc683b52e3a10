SPECIFICATION GraphSpec
CONSTANTS
  g1 = g1
  g2 = g2
  g3 = g3
  Goal = {g1, g2, g3}
  Worker = {w1, w2}
  Decomposition <- MCDecomposition
  Nobody = Nobody
  Unproved = Unproved
  Direct = Direct
INVARIANTS
  GraphTypeOK
  NoDecompositionCycle
  ProofsSupported
  PropagationComplete
PROPERTIES
  FoundedUnlessReplaced
SYMMETRY WorkerSymmetry
CHECK_DEADLOCK FALSE
