SPECIFICATION Spec
CONSTANTS
  Nodes = {n1, n2}
  Tasks = {"t1"}
  Strategies = {"least-loaded", "round-robin"}
  Capacity <- OneEach
  Fits <- FitsAll
  Matches <- MatchesAll
  MaxLoad = 0
  MaxPosts = 2
  MaxQueue = 2
  TaskIds = {"t1", "t2"}
  Subscribers = {"c1"}
  MaxTasks = 1
  MaxRequests = 3
  Callers = {m1, m2, m3}
  MaxConcurrentCalls = 1
  Transports = {"stdio", "http"}
  MaxChildren = 2
  TaskNames = {"t1"}
  Registered <- Backends
  MaxExecutions = 2
  MaxCancels = 1
INVARIANTS
  TrackedIsInFlight SubscribersSeeTheLast WorkingIsWorked NoIdleSlot BlockersAreInFlight
PROPERTY
  GoneStaysGone
SYMMETRY Symmetry
CHECK_DEADLOCK FALSE
