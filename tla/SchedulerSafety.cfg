SPECIFICATION FairSpec
CONSTANTS
  Jobs = {j1}
  Rules = {t1, t2}
  Limited = {j1, t1}
  MaxConcurrent = 1
  Cooled = {t2}
  MaxHistory = 2
  Executions = {e1, e2, e3}
  MaxAdds = 2
  MaxStarts = 2
  none = none
INVARIANTS
  TimersAreHeld
PROPERTIES
  CountIsTemporary
CHECK_DEADLOCK FALSE
