SPECIFICATION FairSpec
CONSTANTS
  n1 = n1  n2 = n2  n3 = n3  n4 = n4  ghost = ghost
  Nodes = {n1, n2, n3, n4}
  Graphs <- Shapes
  Approvals = {n2}
  MaxRetries = 1
  Checkpointing = FALSE
  StoreFaults = TRUE
INVARIANTS
  StartsAfterDependencies
PROPERTIES
  EventuallySettles KeepsThePromise
CHECK_DEADLOCK FALSE
