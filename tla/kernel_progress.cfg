\* Runs, crashes, exceptions and an edit of the task, under fairness.
SPECIFICATION FairSpec
CONSTANTS
  r1 = r1
  r2 = r2
  v1 = v1
  a1 = a1
  a2 = a2
  a3 = a3
  w1 = w1
  w2 = w2
  f1 = f1
  f2 = f2
  s1 = s1
  s2 = s2
  NoProc = NoProc
  NoAction = NoAction
  NoState = NoState
  Runners = {r1}
  Viewers = {}
  SubsystemLists <- MCTwoLists
  ActionId = {a1}
  ActionFp = {w1}
  RecordFp = {f1, f2}
  Drafts <- MCDrafts
  MaxDrafts = 1
  Digest = {1, 2}
  MaxSteps = 2
  MaxEdits = 1
  MaxCrashes = 1
  MaxRemembered = 2
INVARIANTS
  CursorDurable
PROPERTIES
  RunEnds
  RunningSettles
  EditNoticed
