SPECIFICATION Spec
CONSTANTS
  Runs = {r1, r2}
  MaxConcurrent = 2
  StoreFaults = FALSE
INVARIANTS
  OneSlotPerRun
CHECK_DEADLOCK FALSE
