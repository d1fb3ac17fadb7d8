SPECIFICATION ResumeSpec
CONSTANTS
  Nodes = {n1, n2, n3}
  Graphs <- AllGraphs
  Approvals = {}
  MaxRetries = 0
  Checkpointing = TRUE
  StoreFaults = FALSE
  MaxSaves = 3
INVARIANTS
  AnnouncedIsDurable
PROPERTIES
  CheckpointSurvives
CHECK_DEADLOCK FALSE
