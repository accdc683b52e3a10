SPECIFICATION AttemptSpec
CONSTANTS
  good = good
  wrong = wrong
  sorry = sorry
  veiled = veiled
  plan = plan
  None = None
  Body = {good, wrong, sorry, veiled}
  Sound = {good}
  Visible = {sorry}
  Veiled = {veiled}
  Portfolio <- OneTactic
  Plan = {plan}
  MaxDirect = 1
  MaxRevisions = 1
  MaxBlueprints = 1
  MaxCalls = 6
  MaxInvocations = 2
  MaxFaults = 1
  MaxCrashes = 1
INVARIANTS
  AttemptTypeOK
  CallsWithinBudget
  ProvedIsChecked
  CheckedOnce
  OneEnvironment
CHECK_DEADLOCK FALSE
