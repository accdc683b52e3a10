SPECIFICATION ExperimentSpec
CONSTANTS
  Kernel = kernel
  Cli = {cli}
  p1 = p1
  o1 = o1
  o2 = o2
  None = None
  Program = {p1}
  Outputs <- MayWrite
  MaxCommands = 2
  MaxFaults = 1
  MaxMoves = 1
INVARIANTS
  ExperimentTypeOK
  EnsuredIsCurrent
  UndisturbedSucceeds
  NoProgramKilled
  ObservedTwice
CHECK_DEADLOCK FALSE
