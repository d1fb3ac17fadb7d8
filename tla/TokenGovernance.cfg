SPECIFICATION FairSpec
CONSTANTS
  Providers = {p1, p2}
  Allowed = {p1}
  Adapters = {r1, r2}
  Budgets = {4}
  none = none
  Rpm = 1
  Tpm = 2
  Cap = 1
  Failover = TRUE
  Input = 1
  MaxAnswer = 1
  Threshold = 2
  MaxOutput = 3
  MaxCalls = 1
INVARIANTS
  BudgetHolds ChargedExactly
CHECK_DEADLOCK FALSE
