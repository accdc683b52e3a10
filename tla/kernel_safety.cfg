\* Two runs that compete for the lock, with exceptions and a crash.
SPECIFICATION Spec
CONSTANTS
  r1 = r1
  r2 = r2
  v1 = v1
  a1 = a1
  a2 = a2
  a3 = a3
  w1 = w1
  w2 = w2
  f1 = f1
  f2 = f2
  s1 = s1
  s2 = s2
  NoProc = NoProc
  NoAction = NoAction
  NoState = NoState
  Runners = {r1, r2}
  Viewers = {}
  SubsystemLists <- MCSolo
  ActionId = {a1, a2, a3}
  ActionFp = {w1}
  RecordFp = {f1, f2}
  Drafts <- MCDrafts
  MaxDrafts = 2
  Digest = {1}
  MaxSteps = 2
  MaxEdits = 0
  MaxCrashes = 1
  MaxRemembered = 2
SYMMETRY Symmetry
INVARIANTS
  TypeOK
  CommittedOnce
  RecordsUnique
  OutcomeNamesRecords
PROPERTIES
  OnlyDeadInterrupted
  JournalSpec
  NoLostUpdate
