SPECIFICATION Spec
CONSTANTS
  Instances = {a, b}
  RecentTurns = 1
  MaxTurns = 3
  MaxFailures = 0
INVARIANTS
  FailedWritesAreRestored
CHECK_DEADLOCK FALSE
