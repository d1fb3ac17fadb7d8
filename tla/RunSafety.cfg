SPECIFICATION RuntimeSpec
CONSTANTS
  Runs = {r1, r2}
  MaxConcurrent = 1
  StoreFaults = TRUE
  MaxStarts = 1
  MaxStops = 1
INVARIANTS
  NoPhantomSlot StopLeavesNothingRunning
PROPERTIES
  SettledIsReleased
CHECK_DEADLOCK FALSE
