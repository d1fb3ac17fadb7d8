------------------------------ MODULE Platform ------------------------------
(***************************************************************************)
(* The components of one process beside the engine and the runtime,         *)
(* composed.  They share no state: `system' says which of them this          *)
(* behaviour is about, and the other ones stay as they began, so that the    *)
(* states to explore are the sum and not the product of theirs.             *)
(***************************************************************************)
EXTENDS Integers, Sequences, FiniteSets

CONSTANTS
  MaxListeners, Overflows, Timestamp, MaxSubscribes,                           \* EventBus.tla
  Requests, MaxMessages,                                                       \* MessageBroker.tla
  AlertRules, RuleDefinitions, MaxAlerts, MaxAlertTime,                        \* AlertManager.tla
  LoopModes, MaxIterations, MaxTotalTokens, TurnCost, Plans,                   \* AgentLoop.tla
  Machines, StepFactor,                                                        \* StateMachine.tla
  MaxRounds, EvaluatorScores, Threshold, Generators,                           \* CognitiveWorkflow.tla
  Instances, RecentTurns, MaxTurns, MaxFailures,                               \* AgentMemory.tla
  MaxHandoffs, MaxToolCalls,                                                   \* DynamicWorkflow.tla
  Senders, Registered, Secured, Bodies, TriggerRules, Fields, TextWithin,
  RateLimitMax, Window, MaxRequests, MaxGatewayTime,                           \* Gateway.tla
  Clients, EventTypes, AuthModes, KeyRole, MaxApiCalls,                        \* Monitor.tla
  Lists, HasAdapter, Outputs, Schemas,                                         \* Guardrails.tla
  VersionLabels, Contents, PromptScores, Context, MaxCells, MaxExperiments,    \* PromptVersions.tla
  Subscribers, Filter, Drafts, MaxEntries,                                     \* Blackboard.tla
  Episodes, Goals, GoalsWithin, Facts, Consolidations, BatchLimit, DecayTo,
  MinImportance, RecallFloor, TopK, MaxMemoryCalls,                            \* CognitiveMemory.tla
  Expressions, Minutes, Hours, WeekDays, Days, LongestMonth, MonthsPerYear,
  MinuteTicks, Horizon, MaxDelay, MaxLate, MaxCronTime,                        \* CronTime.tla
  Workspaces, Configs,                                                         \* Workspace.tla
  Types, Tokens, MaxSpans, MaxEnds,                                            \* AgentTrace.tla
  Runs, RunLabels, FullScore, PassScore, WarningDelta, CriticalDelta,
  MaxLatencyIncrease, MaxRuns                                                  \* EvalRegression.tla

\* Events are numbered from one; each has a timestamp.
ASSUME BusAssumption == Timestamp \in Seq(Int)

ASSUME AlertAssumption == \A d \in RuleDefinitions : d.durationMs \in Nat

ASSUME LoopAssumption ==
  /\ LoopModes \subseteq {"single-turn", "loop", "plan-and-execute"}
  /\ MaxIterations \in Nat \ {0} /\ MaxTotalTokens \in Nat \ {0} /\ TurnCost \in Nat

ASSUME MachineAssumption ==
  \A m \in Machines : \A s \in DOMAIN m.type : m.type[s] \in {"task", "choice", "wait", "succeed", "fail"}

ASSUME GatewayAssumption == RateLimitMax \in Nat /\ Window \in Nat

\* A text contains itself.
ASSUME MemoryAssumption == IsFiniteSet(Consolidations) /\ \A g \in Goals : g \in GoalsWithin[g]

\* The context manager keeps a number of recent turns.
ASSUME ContextAssumption == RecentTurns \in Nat

\* Contents are sequences of lines.
ASSUME PromptAssumption == MaxCells \in Nat /\ \A c \in Contents : c \in Seq({c[i] : i \in DOMAIN c})

ASSUME TraceAssumption == Tokens \subseteq Int

\* Timers are less than a minute late.
ASSUME CronAssumption == MinuteTicks \in Nat \ {0} /\ MaxLate \in Nat /\ MaxLate < MinuteTicks /\ Horizon \in Nat

\* Scores, latencies and the differences that count are numbers, and the
\* differences are positive, as the defaults are: with 0 a run would be worse
\* than itself.
ASSUME EvalAssumption ==
  /\ WarningDelta \in Nat \ {0} /\ CriticalDelta \in Nat \ {0} /\ MaxLatencyIncrease \in Nat
  /\ FullScore \in Nat /\ PassScore \in Int
  /\ \A cases \in Runs :
       /\ Len(cases) \in Nat /\ DOMAIN cases = 1..Len(cases)
       /\ \A i \in DOMAIN cases :
            cases[i].latencyMs \in Int /\ \A m \in DOMAIN cases[i].scores : cases[i].scores[m] \in Int

VARIABLES
  system,
  overflow, listeners, tracked, count, issued, refused, created, rows, seen, lastSeen,
  reading, fetched, partWay,
  sent, receiver, queue, inHand, stopped, received, heardFrom, request, replyListeners,
  now, rules, firingStates, cooldowns, alerts, lastUnmet,
  mode, reflects, phase, iteration, consecutiveErrors, revisionCount, plan, cursor, totalTokens, spent, turns, agent,
  sm, smAt, current, smSteps, attempt, outputs, announced, aborted, forgotten,
  cogAt, round, generated, scores, bestOutput, bestScore, openAgents, final,
  historyRows, said, managing, original, toWrite, lost, failures,
  dynAt, orchestrator, handoffAt, target, accepted, verdicts, handoffCount, results, nodeEvents, course,
  clock, listening, rateLimit, inbox, admitted, notices,
  monitor, authMode, socket, connections, wants, heartbeat, calls,
  guardrails, at, step, depth, content, candidate, judgements, rewritten, passed, approved, made,
  versions, experiments,
  entries, arrays, joined, frames, heard, published,
  episodes, memoryCalls, facts, preferences, patterns, batch,
  cron, cronNow, running, timer, since, fired, overflowed,
  config, making, workspaces, cleanupInProgress, disk, leftovers, disposal,
  spans, rootSpans, spanStack, ends,
  history

bus      == <<overflow, listeners, tracked, count, issued, refused, created, rows, seen, lastSeen,
              reading, fetched, partWay>>
broker   == <<sent, receiver, queue, inHand, stopped, received, heardFrom, request, replyListeners>>
alerting == <<now, rules, firingStates, cooldowns, alerts, lastUnmet>>
loop     == <<mode, reflects, phase, iteration, consecutiveErrors, revisionCount, plan, cursor, totalTokens, spent,
              turns, agent>>
machine  == <<sm, smAt, current, smSteps, attempt, outputs, announced, aborted, forgotten>>
thinking == <<cogAt, round, generated, scores, bestOutput, bestScore, openAgents, final>>
memory   == <<historyRows, said, managing, original, toWrite, lost, failures>>
dynamic  == <<dynAt, orchestrator, handoffAt, target, accepted, verdicts, handoffCount, results, nodeEvents,
              course>>
gateway  == <<clock, listening, rateLimit, inbox, admitted, notices>>
monitors == <<monitor, authMode, socket, connections, wants, heartbeat, calls>>
guards   == <<guardrails, at, step, depth, content, candidate, judgements, rewritten, passed, approved, made>>
prompts  == <<versions, experiments>>
board    == <<entries, arrays, joined, frames, heard, published>>
layers   == <<episodes, memoryCalls, facts, preferences, patterns, batch>>
cronJob  == <<cron, cronNow, running, timer, since, fired, overflowed>>
folders  == <<config, making, workspaces, cleanupInProgress, disk, leftovers, disposal>>
trace    == <<spans, rootSpans, spanStack, ends>>

-----------------------------------------------------------------------------
Bus       == INSTANCE EventBus
Broker    == INSTANCE MessageBroker
Alerting  == INSTANCE AlertManager WITH Rules <- AlertRules, Definitions <- RuleDefinitions,
                                     MaxTime <- MaxAlertTime
Loop      == INSTANCE AgentLoop WITH Modes <- LoopModes
Sm        == INSTANCE StateMachine
Cognitive == INSTANCE CognitiveWorkflow WITH Scores <- EvaluatorScores
Memory    == INSTANCE AgentMemory
Dynamic   == INSTANCE DynamicWorkflow
Gate      == INSTANCE Gateway WITH Rules <- TriggerRules, Within <- TextWithin, MaxTime <- MaxGatewayTime
Mon       == INSTANCE Monitor WITH Modes <- AuthModes, MaxCalls <- MaxApiCalls
Guard     == INSTANCE Guardrails
Prompt    == INSTANCE PromptVersions WITH Labels <- VersionLabels, Scores <- PromptScores
Board     == INSTANCE Blackboard
Layers    == INSTANCE CognitiveMemory WITH calls <- memoryCalls, Within <- GoalsWithin, MaxCalls <- MaxMemoryCalls
Job       == INSTANCE CronTime WITH now <- cronNow, MaxTime <- MaxCronTime
Folders   == INSTANCE Workspace
Trace     == INSTANCE AgentTrace
Eval      == INSTANCE EvalRegression WITH Labels <- RunLabels

-----------------------------------------------------------------------------
Init ==
  /\ system \in {"bus", "broker", "alerting", "loop", "machine", "cognitive", "memory", "dynamic", "gateway",
                 "monitor", "guardrails", "prompts", "blackboard", "layers", "cron", "workspaces", "trace", "eval"}
  /\ Bus!Init /\ Broker!Init /\ Alerting!Init /\ Loop!Init /\ Sm!Init /\ Cognitive!Init /\ Memory!Init
  /\ Dynamic!Init /\ Gate!Init /\ Mon!Init /\ Guard!Init /\ Prompt!Init /\ Board!Init /\ Layers!Init
  /\ Job!Init /\ Folders!Init /\ Trace!Init /\ Eval!Init
  /\ system # "bus" => overflow = CHOOSE o \in Overflows : TRUE
  /\ system # "loop" => mode = (CHOOSE m \in LoopModes : TRUE) /\ reflects
  /\ system # "machine" => sm = CHOOSE m \in Machines : TRUE
  /\ system # "monitor" => authMode = CHOOSE m \in AuthModes : TRUE
  /\ system # "guardrails" => guardrails = Guard!Applicable(CHOOSE list \in Lists : TRUE, "input")
  /\ system # "cron" => cron = CHOOSE c \in Expressions : TRUE

Others ==
  /\ UNCHANGED system
  /\ system # "bus" => UNCHANGED bus
  /\ system # "broker" => UNCHANGED broker
  /\ system # "alerting" => UNCHANGED alerting
  /\ system # "loop" => UNCHANGED loop
  /\ system # "machine" => UNCHANGED machine
  /\ system # "cognitive" => UNCHANGED thinking
  /\ system # "memory" => UNCHANGED memory
  /\ system # "dynamic" => UNCHANGED dynamic
  /\ system # "gateway" => UNCHANGED gateway
  /\ system # "monitor" => UNCHANGED monitors
  /\ system # "guardrails" => UNCHANGED guards
  /\ system # "prompts" => UNCHANGED prompts
  /\ system # "blackboard" => UNCHANGED board
  /\ system # "layers" => UNCHANGED layers
  /\ system # "cron" => UNCHANGED cronJob
  /\ system # "workspaces" => UNCHANGED folders
  /\ system # "trace" => UNCHANGED trace
  /\ system # "eval" => UNCHANGED history

Next ==
  /\ Others
  /\ \/ system = "bus" /\ Bus!BusNext
     \/ system = "broker" /\ Broker!BrokerNext
     \/ system = "alerting" /\ Alerting!AlertNext
     \/ system = "loop" /\ Loop!AgentLoopNext
     \/ system = "machine" /\ Sm!StateMachineNext
     \/ system = "cognitive" /\ Cognitive!CognitiveNext
     \/ system = "memory" /\ Memory!MemoryNext
     \/ system = "dynamic" /\ Dynamic!DynamicNext
     \/ system = "gateway" /\ Gate!GatewayNext
     \/ system = "monitor" /\ Mon!MonitorNext
     \/ system = "guardrails" /\ Guard!GuardrailsNext
     \/ system = "prompts" /\ Prompt!PromptNext
     \/ system = "blackboard" /\ Board!BoardNext
     \/ system = "layers" /\ Layers!CognitiveMemoryNext
     \/ system = "cron" /\ Job!CronTimeNext
     \/ system = "workspaces" /\ Folders!WorkspaceNext
     \/ system = "trace" /\ Trace!TraceNext
     \/ system = "eval" /\ Eval!EvalNext

vars == <<system, bus, broker, alerting, loop, machine, thinking, memory, dynamic, gateway, monitors, guards, prompts,
          board, layers, cronJob, folders, trace, history>>

Spec == Init /\ [][Next]_vars

-----------------------------------------------------------------------------
(* EventBus.tla: nobody is refused a subscription for listeners that are gone. *)
CountIsOfListeners == Bus!CountIsOfListeners
(* EventBus.tla: a reader that read a replay from the start to its end, and     *)
(* goes on from its last event, misses no event.                            *)
CatchUpMissesNothing == Bus!CatchUpMissesNothing
(* MessageBroker.tla: what the receiver heard is delivered once and in order. *)
NothingIsLost == Broker!NothingIsLost
(* AlertManager.tla: an alert fires only when its condition has held.        *)
AlertsAreSustained == Alerting!AlertsAreSustained
(* AgentLoop.tla: failing turns overspend the budget by a bounded amount.     *)
OverspendIsBounded == Loop!OverspendIsBounded
(* StateMachine.tla: every state announced as started is announced as ended,    *)
(* unless its run was deleted meanwhile.                                    *)
EveryStartEnds == Sm!EveryStartEnds
(* AgentMemory.tla: summaries of summaries still stand for the whole history. *)
HistoryTellsAll == Memory!HistoryTellsAll
(* DynamicWorkflow.tla: accepted handoffs are announced so, and targets stop. *)
HandoffsAreClosed == Dynamic!HandoffsAreClosed
(* Gateway.tla: a refused sender has used up the window it is refused in.     *)
RefusalsAreDue == Gate!RefusalsAreDue
(* Monitor.tla: the heartbeat is armed exactly while a client is connected.   *)
HeartbeatFollowsClients == Mon!HeartbeatFollowsClients
(* Guardrails.tla: a rewritten content is used only when it was judged to pass. *)
RewritesAreJudged == Guard!RewritesAreJudged
(* PromptVersions.tla: a diff leads from the one content to the other, and up  *)
(* to MaxCells pairs of lines minimally.                                    *)
DiffIsMinimal == Prompt!DiffIsMinimal
(* Blackboard.tla: handlers that post or subscribe make nobody miss an entry. *)
EveryoneHearsOnce == Board!EveryoneHearsOnce
(* CognitiveMemory.tla: consolidating again records no pattern again.         *)
PatternsAreFew == Layers!PatternsAreFew
(* CronTime.tla: a job fires once in every minute its expression names.       *)
DueMinutesFireOnce == Job!DueMinutesFireOnce
(* Workspace.tla: no directory is lost track of, whoever cleans up meanwhile.  *)
DirectoriesAreAccounted == Folders!DirectoriesAreAccounted
(* AgentTrace.tla: in whatever order spans close, the trace counts each once.  *)
TraceIsWhole == Trace!TraceIsWhole
(* EvalRegression.tla: getting better never turns a verdict into a failure.   *)
BetterNeverFails == Eval!BetterNeverFails
=============================================================================
