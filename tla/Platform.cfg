SPECIFICATION Spec
CONSTANTS
  MaxListeners = 2
  Overflows <- OverflowsChecked
  Timestamp <- Timestamps
  MaxSubscribes = 4
  Requests = {"r1"}
  MaxMessages = 5
  AlertRules = {"r1"}
  RuleDefinitions <- DefinitionsChecked
  MaxAlerts = 3
  MaxAlertTime = 9
  LoopModes <- ModesOfLoop
  MaxIterations = 5
  MaxTotalTokens = 3
  TurnCost = 2
  Plans <- PlansChecked
  Machines <- MachinesChecked
  StepFactor = 10
  MaxRounds = 2
  EvaluatorScores = {0, 5, 9}
  Threshold = 8
  Generators = 2
  Instances = {"a", "b"}
  RecentTurns = 1
  MaxTurns = 3
  MaxFailures = 1
  MaxHandoffs = 1
  MaxToolCalls = 2
  Senders = {"s"}
  Registered = {"slack"}
  Secured = {"slack"}
  Bodies = {"big", "bot", "event"}
  TriggerRules <- RulesOfTriggers
  Fields <- FieldsChecked
  TextWithin <- Texts
  RateLimitMax = 1
  Window = 2
  MaxRequests = 3
  MaxGatewayTime = 4
  Clients = {"c1", "c2"}
  EventTypes = {"x", "y"}
  AuthModes = {"none", "api-key", "multi-key"}
  KeyRole <- Roles
  MaxApiCalls = 1
  Lists <- ListsChecked
  HasAdapter = TRUE
  Outputs <- OutputsChecked
  Schemas <- SchemasChecked
  VersionLabels = {"v1", "v2"}
  Contents <- ContentsChecked
  PromptScores = {50, 60}
  Context = 2
  MaxCells = 9
  MaxExperiments = 1
  Subscribers = {"s1", "s2", "s3"}
  Filter <- Filters
  Drafts <- DraftsChecked
  MaxEntries = 2
  Episodes <- Lives
  Goals = {"s", "st"}
  GoalsWithin <- Contained
  Facts = {"f"}
  Consolidations = {"c1", "c2"}
  BatchLimit = 2
  DecayTo <- Halved
  MinImportance = 1
  RecallFloor = 2
  TopK = 1
  MaxMemoryCalls = 4
  Expressions <- ExpressionsChecked
  Minutes = 2
  Hours = 2
  WeekDays = 3
  Days <- Calendar
  LongestMonth = 3
  MonthsPerYear = 2
  MinuteTicks = 2
  Horizon = 24
  MaxDelay = 30
  MaxLate = 1
  MaxCronTime = 44
  Workspaces = {"w1", "w2", "w3"}
  Configs <- ConfigsChecked
  Types = {"tool-call", "turn"}
  Tokens = {0, 3}
  MaxSpans = 3
  MaxEnds = 3
  Runs <- RunsChecked
  RunLabels = {"base", "next"}
  FullScore = 20
  PassScore = 10
  WarningDelta = 1
  CriticalDelta = 2
  MaxLatencyIncrease = 2
  MaxRuns = 3
INVARIANTS
  CatchUpMissesNothing NothingIsLost OverspendIsBounded EveryStartEnds HistoryTellsAll HandoffsAreClosed RefusalsAreDue HeartbeatFollowsClients RewritesAreJudged DiffIsMinimal EveryoneHearsOnce PatternsAreFew DueMinutesFireOnce DirectoriesAreAccounted TraceIsWhole BetterNeverFails
PROPERTY
  AlertsAreSustained
CHECK_DEADLOCK FALSE
