\* A status command initializes a fresh workspace beside its first run, outside the lock.
SPECIFICATION StatusSpec
CONSTANTS
  r1 = r1
  r2 = r2
  v1 = v1
  a1 = a1
  a2 = a2
  a3 = a3
  w1 = w1
  w2 = w2
  f1 = f1
  f2 = f2
  s1 = s1
  s2 = s2
  NoProc = NoProc
  NoAction = NoAction
  NoState = NoState
  Runners = {r1}
  Viewers = {v1}
  SubsystemLists <- MCSolo
  ActionId = {a1, a2}
  ActionFp = {w1}
  RecordFp = {f1, f2}
  Drafts <- MCDrafts
  MaxDrafts = 1
  Digest = {1}
  MaxSteps = 1
  MaxEdits = 0
  MaxCrashes = 0
  MaxRemembered = 2
PROPERTIES
  OnlyDeadInterrupted
