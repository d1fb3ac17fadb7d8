SPECIFICATION ResumeSpec
CONSTANTS
  Nodes = {n1, n2}
  Graphs <- AllGraphs
  Approvals = {}
  MaxRetries = 0
  Checkpointing = TRUE
  StoreFaults = FALSE
  MaxSaves = 2
INVARIANTS
  ResumeSkipsCompleted
CHECK_DEADLOCK FALSE
