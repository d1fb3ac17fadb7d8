# A verification project for TheMatrix

TLA+ models of this repository (a platform that runs workflows of LLM agents),
TLC configurations that check them on small instances, and TLAPS proofs for
every size. Paths below are relative to `src/`, or to `src/packages/` where
they begin with a package. `PROJECT.json` lists components, runs, mutants,
hazards, theorems and, under `map`, the lines of code each definition
translates.

## 1. The system

Everything runs on Node.js event loops: one callback runs to its next `await`
without interruption, and other callbacks run between. So the concurrency of
this system is *interleaving at awaits*, and nearly every hard behaviour is a
check or a piece of state that is read on one side of an await and relied on
at the other. State is in maps of long-lived objects; what is durable is in
SQLite (events, checkpoints, conversations, layers of memory).

| Part (`packages/…`) | State it keeps | What makes it correct | Model |
|---|---|---|---|
| DAG executor (`core/src/workflow/engine.ts:222-476`) | completed, failed, claimed nodes of a run | dependency order, failures reach exactly downstream, settling is last and happens | `DagExecution`, implementing `DagPromise` |
| Checkpoints and resume (`engine.ts:949-1026`, `checkpoint.ts`) | one row per run | no completed node is lost from the row | `DagExecution`, `DagResume` |
| Run lifecycle (`engine.ts:102-220, 278, 493, 860-1169`) | runs, agents, abort controllers, the count of active runs | a slot per run, given back; ended runs stay ended unless resumed from a checkpoint | `RunLifecycle` |
| State machine, dynamic and cognitive modes (`engine.ts:479-860`, `workflow/dynamic.ts`, `cognitive.ts`) | current state and steps; handoffs; best output | events tell where the run is, runtimes are stopped | `StateMachine`, `DynamicWorkflow`, `CognitiveWorkflow` |
| Runtime facade, health (`core/src/runtime`, `health`) | status | stop leaves nothing running | `Runtime` |
| Approvals (`core/src/workflow/approval.ts`) | decisions, waiters with timers | one decision per gate, told alike to everybody | `ApprovalManager` |
| Agent runtime (`core/src/agent/runtime.ts`) | status, turn lock, conversation | turns do not mix, conversations stay valid, a turn ends | `AgentRuntime` |
| Agent loop, planner, reflection (`agent/loop.ts`, `planner.ts`, `reflection.ts`) | phase, plan, tokens used | it ends, overspending is bounded | `AgentLoop` |
| Blackboard, handoff (`agent/blackboard.ts`, `handoff.ts`) | entries, subscribers; handoffs | everybody hears of an entry once | `Blackboard`, `DynamicWorkflow` |
| Context, prompts, trace (`agent/context-manager.ts`, `prompt-versioning.ts`, `trace.ts`) | summaries; versions and experiments; spans | a summarized history still tells all; diffs are right; traces are whole | `AgentMemory`, `PromptVersions`, `AgentTrace` |
| Token pool and router (`providers/src/pool.ts`, `router.ts`) | budgets, rate windows, counters of streams | no overdraft, charges exact | `TokenPool` |
| Scheduler (`scheduler/src`) | jobs, timers, rules, history | limits, no stray timer, a minute fires once | `Scheduler`, `CronTime`, `Gateway` |
| Event bus and store (`core/src/event`) | listeners and counts, rows | catching up misses nothing | `EventBus` |
| Message broker (`core/src/messaging`) | queue of a receiver, requests | no message lost to a receiver | `MessageBroker` |
| Memory (`core/src/memory`) | rows of turns, episodes, facts, procedures | summaries cover the conversation, one pattern per goal under bounds | `AgentMemory`, `CognitiveMemory` |
| Guardrails (`core/src/guardrails`) | the content as rewritten | what is let through was judged | `Guardrails` |
| Cluster (`cluster/src`) | nodes behind a lock queue, tracked and orphaned tasks | what is tracked is in flight, a removed node stays away | `Cluster` |
| A2A (`mcp/src/a2a-server.ts`, `a2a-client.ts`) | tasks, subscribers, streams | subscribers know the state, working tasks are worked on | `A2A` |
| MCP (`mcp/src/client.ts`, `server.ts`, `*-tools.ts`) | connection, pending requests, slots and queue | no call waits beside a free slot | `McpSession` |
| Executor, backends, workspaces (`executor/src`) | records per task and backend, directories | no id blocked by what has ended, no directory forgotten | `Executor`, `Workspace` |
| Alerts, monitor API (`monitor/src`) | firing since, cooldowns, alerts; clients, heartbeat, roles | an alert means a condition that held; heartbeat while clients | `AlertManager`, `Monitor` |
| Gateway (`gateway/src`) | rate windows, signatures | a refusal is due | `Gateway` |
| Evaluation regression (`eval/src/regression.ts`) | runs, baseline | a better run never fails | `EvalRegression` |
| Everything else | | | section 7 |

**Interactions.** `startWorkflow` runs an executor for the run; the executor
makes an `AgentRuntime` per node and calls `runTurn`, which calls a provider
through the adapter `ProviderRouter.getAdapter` made, which charges the
`TokenPool`. Approval nodes ask `ApprovalManager` and park; the monitor's API
approves. Everything publishes on the `EventBus`, whose `publish` first appends
to the SQLite store and *throws when the store does*: every `await publish` is
a point of partial failure, and the models have it (`StoreFaults`, or a
disjunct of its own). The scheduler calls `startWorkflow` through a callback and
learns of its end by a promise; the gateway feeds its trigger rules. The
`AbortController` of a run, shared by the timeout, cancel and the executor, is
the only cancellation signal. The facade `Runtime` cancels active runs one
after another while other calls come in.

**Hard behaviours.** Concurrent nodes that share a join; failure of one branch
while another runs; an abort between any two awaits; a crash and a resume from
the checkpoint; cleanup reached from three tasks at once; an agent stopped
during its turn; a decision that races its timeout; streams charged in
instalments while the budget is reset; timers that survive their owner; posts
to cluster nodes that time out while the node works; answers of task handlers
that come after a cancellation or an eviction; the exit of a child process
reported after its successor was started; handlers that call back into the
list they are called from; summaries that share a primary key. They are listed
with their lines under `hazards`; each but one has a property that a run
checks.

## 2. How the models are built

An action is everything the code does between two awaits; a `pc`, `task` or
`...At` variable names the await at which an asynchronous function is parked.
What is outside this repository (model answers, HTTP peers, child processes,
the consumer of a generator) is a choice. An operator such as `Free_NoDecrement` is
`Free` with a plausible fault; nothing in a specification
uses it, the mutants of `PROJECT.json` do. Bounds on counters are CONSTANTS
named `Max...` that guards test; where one of them is a limit of the code its
comment says so.

Two modules only compose. `Remote` has the four components that talk to
other processes and `Platform` the eighteen components of one process beside
the engine and the runtime; `MCRemote` and `MCPlatform` give their constants
values. The components of each share no state: `system` picks one at the start
and the others stay as they began, so a run explores the sum of their state
spaces, each over all of its interleavings. The theorems about a component are
stated of the composition it is in, so they are about the very definitions the
runs check. What does interact is composed for real: `Runtime` extends `RunLifecycle` (its actions call
the engine's), `DagResume` extends `DagExecution` (a crash at any step),
`DynamicWorkflow` holds the handoffs of its orchestrator, `AgentMemory` the
context managers of agents that share one table.

## 3. The modules

### DagExecution (`engine.ts:222-476`, `:565-700`, `:949-967`)

`pc[n]` is where the invocation of the closure `executeNode` that claimed `n`
is parked. Invocations that return before their first await are part of the
step that calls them: `ExecuteNodes(S, at)` is the synchronous prefix of
`executeNode` for all of `S` at once, with `Doomed`, `Ready` and `Skipped` for
its early returns. That the calls may be taken together rests on their
commuting: none of them changes `completedNodes`, and a node that a doomed
sibling fails has a failed or unfinished dependency, so it is not ready.
`Downstream` is `propagateFailureToDownstream`, stated as a least closed set
instead of a recursion; `Circular` is `hasCircularDependency` likewise.

| Action | Code |
|---|---|
| `Start`, `Finish` | `executeDAG` to the first await; after `Promise.allSettled` |
| `Begin`, `LoseStart` | NODE_STARTED persisted or not (outside the `try`) |
| `Succeed`, `Retry`, `Reattempt`, `Fail` | an attempt's end in `executeNodeWithRetry` |
| `LoadCheckpoint`, `SaveCheckpoint` | the two awaits of `saveCheckpoint` |
| `TriggerDependents`, `FailCompleted` | NODE_COMPLETED persisted or not |
| `Settle` | the invocation returns or rejects |
| `Abort` | timeout or cancel |

Agents are inputs: an attempt succeeds, fails retryably or fails for good.
Approval nodes are never retried and need not answer.

**DagPromise** is the abstract specification: of a node it knows whether it is
waiting, working, completed, failed or lost, and whether its invocation has
settled. `Launch` works on nodes whose prerequisites have completed, `Fail`
takes everything downstream along and nothing else, `Lose` is a node whose
start could not be stored, and `Settle` comes after all work, with the outcome
the failed nodes decide. Claims, promises, retries, events and checkpoints are
not in it. `MCDagExecution` defines the refinement mapping (`NodeState`, from
`pc` and the claimed, completed and failed sets) and `KeepsThePromise`.

**DagResume** adds `CrashAndResume`: the process dies at any step, the
checkpoint row survives, and `resumeFromCheckpoint` starts over with the row's
outputs. Only the row outlives the process.

### RunLifecycle (`engine.ts:102-220`, `:278`, `:493`, `:860-1169`) and Runtime (`core/src/runtime/index.ts`)

A *call* of `startWorkflow` works on the run id it generates, one of
`resumeFromCheckpoint` on the id of its checkpoint, which may be that of an earlier
call (`runId[c]`). Three tasks may belong to a call: `startWorkflow` or
`resumeFromCheckpoint` itself, the `.then/.catch` chain of the executor, and
`cancelWorkflow`; `task[c][a]` is where each is. `Cleanup` is
the synchronous part of `cleanup(runId)`, reached from all three; it looks at
its guard once and then awaits `runtime.stop()` for each agent
(`CleanupContinues`), which is the window this module is about. The three maps
that are always written together are one set, `tracked`. The executor is
abstract: it begins nodes, which it does not do once its signal is aborted
(`engine.ts:278`, `:493`), and a node that has begun may make an agent after that
(`NodeBegins`, `AgentStarts`, the awaits between); it stops agents, and settles.
`signal[c]` is the controller it looks at, which a cancel before the launch has
deleted; its `.catch` then throws.

`ResumeFromCheckpoint` puts the run back into the maps and counts it without
looking at the limit. `holder[r]` is the call that did so last, and `clashed` has the
resumptions that met leftovers of their id: maps not emptied yet, a task of the
former life, a pending retention timer. Properties that such leftovers break are
stated of ids without them (`Untouched`).

`Runtime` adds the facade, which keeps its engine to itself and has no checkpoint
store, and beside it (`direct`) an application that calls an engine of its own, with
resumptions: `StartFacade` sets the status (the health checks that it then awaits
change nothing), `Stop` takes the runs of the moment (`todo`), cancels those still
running when their turn comes and awaits each; runs may be paused, resumed,
cancelled and, once the facade was started again, begun meanwhile.

### StateMachine, DynamicWorkflow, CognitiveWorkflow (`engine.ts:479-860`, `workflow/dynamic.ts`, `cognitive.ts`, `agent/handoff.ts`)

`StateMachine` runs a definition state by state with the step bound (ten times
the states), task retries, waits and aborts, and says what each event announces.
`DynamicWorkflow` has the orchestrator's turn, each handoff call with its
runtime of the target, and the `finally` blocks. A run may be deleted while
its machine goes on (`RunIsDeleted`); its `handleNodeError` then returns at once. `CognitiveWorkflow` has the
planner, the parallel generators and the evaluator over rounds; the output of
round `i` is `i` and its feedback `-i`, which is how a mix-up shows.

### AgentRuntime (`core/src/agent/runtime.ts`)

The status machine (`Valid` is `VALID_TRANSITIONS`), the lock
`turnInProgress`, the tool loop bounded by `MaxIterations`, the one correction
of an invalid structured answer, and the catch block with its three awaits. A
row of the conversation is its turn and its kind. `Stop`, `Pause`, `Resume`,
`ResetFromError` may come at any await of a turn.

### ApprovalManager (`core/src/workflow/approval.ts`)

`owner[a]` is the entry of `pending`, `timer[w]` the timer a waiter armed,
`announce[a]` the publish of a decision that already stands. Waiters may share
an approval: the second takes the entry of the first.

### TokenPool (`providers/src/pool.ts`, `router.ts`)

One owner, several adapters, two providers. `consume` is one step (`Accept` or
`Refuse`), because the code checks and commits without an await. The clock is
two facts, "the minute of `p` is over" and "the period is over", which may
become true at any moment and are consumed by the code that looks at them.
`output[r]` is `estimateTokens` of the text so far, and a chunk may take it to any
value up to `MaxOutput`, the bound on a whole answer: the whole text is estimated
anew at a rate that depends on its share of CJK characters, so one chunk can change it
by any amount, *downwards as well*. Usage may thus become negative.

### Scheduler and CronTime (`scheduler/src`)

In `Scheduler` a timer belongs to the job *object* that armed it: `timers[o]`
counts live timers, `handle[o]` says whether the object's field still holds
one. Replacing a job makes a new object. An event runs all matching rules in
their order in one step (`HandleEvent`). A timer may fire at any moment. `getNextRunTime` throws when it
finds no next run, out of `start` (the jobs that follow are not armed), `addJob` or the
timer's callback; `missed` has the jobs this happened to last.
`CronTime` is one job's clock: the parsed expression as sets, the scan for the
next matching minute, bounded as in the code (366 days there), and the delay,
which makes `setTimeout` fire at once when it does not fit, in a calendar made
small by constants (years of two months, the second one a leap year).

### EventBus, MessageBroker, Blackboard (`core/src/event`, `messaging`, `agent/blackboard.ts`)

`EventBus` keeps the order of rows apart from that of the timestamps, which is
what the two replays differ in. A replay fetches its rows at its first `next`
(`Fetch`), gives one at a time (`YieldEvent`), and may be left part way (`LeaveReplay`);
events are published meanwhile. `MessageBroker` has the receive generator at
each of its suspension points, with its waiting promise and its queue.
`Blackboard` keeps the stack of `post` calls under way (`frames`): a handler may
post, subscribe, unsubscribe or clear before the loop over the live array goes on.

### AgentLoop, Guardrails, PromptVersions, AgentTrace, AgentMemory, CognitiveMemory (`core/src/agent`, `guardrails`, `memory`)

`AgentLoop` is one run of a loop in each execution mode, with the counters of
errors in a row and of revisions and the walk over a plan's steps. `Guardrails`
is one run of a list of guardrails, contents numbered as they are rewritten.
`PromptVersions` has the versions, their experiments, and `computeLCS` with the
diff and its hunks: the table row by row (`NextRow`), and the two `while` loops
round by round (`StepBack`, `Compare`). `AgentTrace` has spans with the stack that
nests them, and `getTrace`'s walk over the children. `AgentMemory` is the table of
turns several instances share, with summaries that cover sets of turns. `CognitiveMemory` has episodes with
decay and recall, facts, preferences, and the consolidation that awaits between
looking for a pattern and recording one.

### Cluster, A2A, McpSession, Executor, Workspace (`cluster/src`, `mcp/src`, `executor/src`)

`Cluster`: operations of the registry are queued by callers who mostly do not
wait (`ops`) and applied later; a post to a node is answered, fails, or times
out while the node works on. `A2A`: requests may be given up by the client and
still arrive; handlers answer at any time, for tasks cancelled or evicted
meanwhile; a server may have no handler, and its tasks are then heard by nobody
(`unheard`); a stream is a sequence of lines that the network cuts anywhere.
`McpSession`: children are numbered, a child's exit event comes later than its
exit; slots and the queue of tool calls. `Executor`: the manager's active tasks
over the records of the four backends, every external call may fail.
`Workspace`: creation, cleanup and `disposeAll` of directories, interleaved.

### AlertManager, Monitor, Gateway, EvalRegression (`monitor/src`, `gateway/src`, `eval/src`)

`AlertManager`: since when a rule's condition holds, cooldowns and alerts over a
bounded clock; `addRule` may overwrite a rule with another condition, and the firing
state stays. `Monitor`: which mode and role a request needs, how each route
answers when a provider is missing, fails or finds nothing, and the clients of
the event stream. `Gateway`: which requests each platform's adapter takes, the
rate limit, and which trigger rules an event matches. `EvalRegression`: averages
as sums and counts, compared by cross-multiplication where the code divides.

## 4. The runs

| Run | Instance | States | Properties and what they show |
|---|---|---|---|
| `dag_safety` | four shapes of four nodes, one approval, one retry, store faults, aborts | 18 957 | `StartsAfterDependencies`; `EventuallySettles`; `KeepsThePromise`: each step is one `DagPromise` allows |
| `dag_all_graphs` | all 64 graphs over three nodes, checkpoints, crashes at any step | 94 631 | `AnnouncedIsDurable`, `CheckpointSurvives`: a node is in the row before it is announced, and neither concurrent saves nor a crash nor a resumed run lose it again |
| `dag_resume_skips` | graphs over two nodes | counterexample | a resumed run executes the completed nodes again |
| `run_safety` | two runs, one slot, store faults; under the facade, or called directly with resumptions | 587 140 | `NoPhantomSlot`, `StopLeavesNothingRunning`; `SettledIsReleased` |
| `run_double_cleanup` | two runs | counterexample | two tasks are inside `cleanup`; the counter drops twice (section 6) |
| `agent_turns` | two turns, two tool rounds, schema, store faults | 28 236 | `TurnsDoNotMix`, `CallsAreAnswered`; `TurnEnds` |
| `approval_gates` | two approvals, two waiters, store faults | 10 850 | `AnswerIsTheDecision`; `TimeoutAnswers` |
| `token_governance` | two adapters, two providers, budget 4, threshold 2 | 1 112 332 | `BudgetHolds`, `ChargedExactly` |
| `scheduler_safety` | one job replaced once, two rules, history of 2, three executions, scans that throw | 306 418 | `TimersAreHeld`; `CountIsTemporary` |
| `remote_systems` | cluster of two nodes; A2A with two ids, a table of one, three requests; MCP with one slot and three callers; executor with four backends and two executions | 2 434 419 | `TrackedIsInFlight`, `GoneStaysGone`; `SubscribersSeeTheLast`, `WorkingIsWorked`; `NoIdleSlot`; `BlockersAreInFlight` |
| `platform` | eighteen components, the instances in `MCPlatform` | 571 553 | one property of each (below) but `CognitiveWorkflow`, whose statement `FinalIsTheBest` is not kept (section 6) |
| `history_restore` | two agents on one memory, no store faults | counterexample | a history whose summary cannot be written is not restored |

The properties of `platform`, by module:

| Module | Property | Says |
|---|---|---|
| `EventBus` | `CatchUpMissesNothing` | a reader that came to the end of a replay was given all rows up to its last event, though replays follow different orders |
| `MessageBroker` | `NothingIsLost` | from the first message heard to the end none is lost, doubled or reordered, wherever the consumer is |
| `AlertManager` | `AlertsAreSustained` | for the whole duration no evaluation found the condition then in force unmet, across cooldowns and overwritten rules |
| `AgentLoop` | `OverspendIsBounded` | tokens stay below the budget plus three turns, turns within the limit |
| `StateMachine` | `EveryStartEnds` | the events never leave a state open, whatever fails or is aborted, unless the run was deleted |
| `AgentMemory` | `HistoryTellsAll` | summaries of summaries still cover the whole conversation in order |
| `DynamicWorkflow` | `HandoffsAreClosed` | announced runtimes and targets that ran their turn are stopped; a handoff is accepted for the orchestrator when it was announced so and the target's stop did not fail |
| `Gateway` | `RefusalsAreDue` | nobody is refused without as many admitted requests in the window before |
| `Monitor` | `HeartbeatFollowsClients` | no stream without the heartbeat, no timer after the last client |
| `Guardrails` | `RewritesAreJudged` | a rewritten content was judged by the guardrail that had it rewritten |
| `PromptVersions` | `DiffIsMinimal` | a diff gives both contents back and keeps a longest common subsequence (checked against all subsequences), below the size (`MaxCells`) from which the code takes a cheaper diff |
| `Blackboard` | `EveryoneHearsOnce` | whatever handlers call back, nobody hears an entry twice, and all who were subscribed hear it unless somebody unsubscribed during the loop |
| `CognitiveMemory` | `PatternsAreFew` | consolidated again and again, a goal has no more patterns than there were consolidations to overlap |
| `CronTime` | `DueMinutesFireOnce` | each matching minute fires once and no other does, while timers are punctual and delays fit |
| `Workspace` | `DirectoriesAreAccounted` | no directory is lost track of unless it was to be kept or could not be removed; `disposeAll` leaves none it found but those others are removing |
| `AgentTrace` | `TraceIsWhole` | in whatever order spans close, the stack holds the open ones, and the totals count each span once |
| `EvalRegression` | `BetterNeverFails` | a run no worse than another in any case does not fail where the other passes |

**Why the bounds are enough to be interesting.**
- *DAGs.* A join needs two parents and, to expose a race, branches of
  different length: three nodes give every pattern of two parents, four give
  the diamond and a join behind a long and a short branch. The edge to `ghost`
  exercises the rejection of a malformed graph, the cyclic graphs the other.
  One retry distinguishes first, middle and last attempt. A process may crash as
  long as its row was saved at most three times, so at every step of a first run
  and at most of those of resumed ones.
- *Runs.* Two runs and one slot: every slot error shows as one run admitted
  over the limit or none admitted. All three tasks of a run are unbounded in
  their order. One start and one stop of the facade, since a stop that follows
  begins anew.
- *Agent.* Two turns are what can mix; two tool rounds reach and pass the
  bound's check.
- *Approvals.* Two waiters on one or on two gates cover the overwritten entry.
- *Tokens.* The budget admits one call and refuses the second; answers up to
  3 against threshold 2 reach both a charged and an uncharged remainder, in one chunk
  or several, and an estimate that falls after it was charged.
- *Scheduler.* Two starts, two objects per id and a history shorter than the
  executions in flight are the least that show a stray timer and an eviction.
- *Remote.* Two nodes are a task's first and second choice; a task submitted
  twice, and two posts. A table of one task with two ids evicts at the second;
  three requests are a send, a cancellation or a second send, and one more.
  Three callers on one slot leave two in the queue, where an order can go wrong;
  two children are a former and a present one. Nodes are symmetric: no
  definition orders them but by the sequence `members`.
- *Platform.* Each instance has what makes a case of its code happen that the
  others do not: three timestamps of which two are equal, and rows in another order; a
  cooldown shorter than the clock; a plan whose step depends on a later one; a
  machine with a loop and one with an unknown state; three subscribers of
  which each filters differently; a last day that only leap years have; a workspace whose
  making fails.

`CHECK_DEADLOCK FALSE` everywhere: these systems really stop, when all bounded
inputs were used and all callbacks ran. That they do not stop *early* is what
the liveness properties say.

**Mutants.** Every property of a passing run is violated under the run's own
configuration when one mapped definition is replaced by its faulty variant.

**Fairness**, and why the code justifies it:
- `DagExecution`: the event loop runs callbacks that are due (weak fairness of
  each node's bookkeeping, of `Start` and `Finish`), and every agent attempt
  ends because model calls carry a timeout. A human approver is not obliged to
  answer: `EventuallySettles` is checked under `FairSpec`, which assumes it. The
  timeout itself is never assumed to fire.
- `RunLifecycle`, `Runtime`: only the continuations of started tasks are fair.
  Callers, executors and the retention hour are not; `SettledIsReleased`
  therefore starts from an executor that has settled.
- `AgentRuntime`: steps of a turn and of `stop`. `TurnEnds` excepts the turn
  whose first event is lost, since the publish stands outside the `try` and
  leaves the lock taken.
- `ApprovalManager`: an armed timer fires and its publish ends.
- `TokenPool`: the creation of an adapter succeeds or fails.
- `Scheduler`: the promise of a triggered workflow settles.
- The components of `MCRemote` and `MCPlatform` are checked for safety only: what
  they wait for is a network, a child process or a caller that owes nothing.

## 5. What is proved

All for every value of the constants, under the named assumption of each
module (finite sets, positive bounds, distinct model values), which TLC
evaluates in the runs as well.

**DagExecutionProofs**: `TypeCorrect`, `DependencyOrder`,
`FailurePropagation`, `SettlingIsLast`, `EveryNodeDecided`, `SingleLaunch`.
The invariants are not inductive alone. `IndInv` adds *Bookkept* (how `pc`,
claimed, completed and failed determine each other), *Awaited* (each parked
invocation is a root's or is awaited by a joining parent) and *Pending* (an
unclaimed node of a running, unaborted run has a dependency that is unfinished
or has yet to trigger it). The two end-of-run theorems would seem to need
induction on the graph; they do not: if some node were parked (or forgotten)
when all roots are settled, then by *Awaited* (*Pending*) every such node
depends on another of them, and the set of them is exactly what `Circular`
denies to exist.

A crash keeps `IndInv` as well (`ResumedRunIsARun`), so all of it holds in runs
that were resumed, any number of times. `NoSaveIsUndone` and
`AnnouncedStaysDurable` are about the row: it is a part of the outputs, and with
stores that work an invocation past its save finds its node there (*Durable*),
whichever of the concurrent saves was the last.

`ImplementsPromise`: under `IndInv` every step of `DagExecution` maps to a step
of `DagPromise` or changes nothing there: the bookkeeping steps (`Begin`,
retries, checkpoints) to none, `Start` and `TriggerDependents` to a `Launch` of
the nodes that became ready, `CatchError` (in `Fail` and `FailCompleted`) to a
`Fail` with `Downstream` as its nodes, `LoseStart` to `Lose`, the end of an
invocation to `Leave`, `Finish` to `Settle`. That `Finish` maps to `Settle` uses
that settling is last.

**RunLifecycleProofs**, for an engine with resumptions from checkpoints:
`TypeCorrect` (the limit is exceeded by at most the resumptions, which do not look at
it), `NoSlotLeaksIntoTheLimit` (and the counter stands above the runs that hold a
slot by at most the resumptions that met leftovers), `ActiveRunsStayCancellable`,
`RetentionFollowsRelease`, `NoRevival` and `FailureIsFinal`, which except the
resumption of the very id, and where a former life's tasks or timer were still there
(`Untouched`) what these do to it. The invariant says at
which awaits a run can be tracked, live or retiring. The counter may also stand
*below* the runs that hold a slot (that is the finding of
`run_double_cleanup`). Then the facade: `FacadeIsACaller`, that
`Runtime` implements `RunLifecycle`, so that all of this holds of the composed
system too; `FacadeKeepsTheLimit`, that under the facade, which never resumes from a
checkpoint, the limit itself holds and the counter never stands above the slots; and
`StopIsThorough`, by an invariant over a stop under way (a
running run is still to be looked at or was resumed since), which needs that no
task but `startWorkflow` and `resumeWorkflow` makes a run running (`WhoRuns`).

**AgentRuntimeProofs**: `TypeCorrect`, `TurnsSeparated`, `StopReleases`,
`StopIsFinal`. The strengthening says that at most the current turn is not idle
or lost and that the lock is held while it is. `ConversationIsValid` needs to
know what the conversation ends with at each await of a turn (*Ending*), which
only stays so because turns are separated, and that a completed turn's rows end
with the answer (*Finished*). `CallsAreAnswered` is stated row by row
(`Opens`, `Closes`, `Answered`) so that a row that is added can disturb only the
statement about the row before it. It covers the whole conversation: every batch of
calls is answered by the next row but that of a turn between its two writes, or of
one whose second write failed (`cut`). `AnsweredUnlessAWriteFails`: when
no store throws, every model call is sent a conversation without unanswered calls.

**ApprovalManagerProofs**: `TypeCorrect`, `AnswersAgree`, `LogAgrees`,
`WaitersAreReached`, `FirstDecisionWins`. `GateInv` relates an entry of
`pending` to the waiter it names (*Owned*, *Targets*, *Listed*), a publish in
flight to the decision that stands (*Announcing*, *Expiring*), and says that an
unannounced decision is not in the log yet (*Unlogged*).

**TokenPoolProofs**: `TypeCorrect`, `BudgetKept`, `ChargesAreExact`,
`EvasionIsBounded`. The budget needs nothing beyond itself, because `consume`
checks and commits in one step (*Consumed*). The charges need *InFlight*: a call
in flight has no outcome yet, a chat has no output and no charge yet, and a
stream goes back to the provider less than a threshold short. `EvasionIsBounded`
says of a stream between two chunks, and of a call that ended well or that the provider
broke off, that it owes less than a threshold, with no assumption on how far a chunk
moves the estimate.

**SchedulerProofs**: `JobsStayArmed`, `NoTimerIsLost`. The invariant adds that
an object's field never holds a timer that is gone (*HeldIsLive*), and that a
replacement is a new object (`job[j] <= added[j]`). `JobsStayArmed` excepts the jobs
whose last scan threw (`missed`), which nothing arms again but a restart or a
replacement.

**RemoteProofs**: every property of `remote_systems`.
- `TrackedInFlight`: the tasks tracked for a node are those of posts under way,
  whatever times out, fails or is answered late. Inductive with its types.
- `DeregisteredStaysGone`: an action property; what is taken out of `members`
  comes back by a registration only. It needs that the queued operations are
  about nodes, and what `RemoveFirst` returns (*FirstRemoved*).
- `SubscribersAreCurrent`, `NoOrphanedTask`, for any limit of the table and any
  number of requests (`"none"` may not be a task id); a task that is left in working
  is worked on, or was sent to a server that had no handler then (`unheard`). A connection is listed for
  the one task it subscribed to (*ListedOnce*), so the events of two tasks never
  mix on a stream; `EventIsLast` and `RestEndsAlike` say what the writer and the
  reader do to the last line.
- `QueueMovesOn`, for any number of callers and slots: a queued caller is in the
  queue once (*QueueOK*), and the slots in use and the callers woken for one make
  up the limit. Finite sets and their cardinalities carry the count.
- `NothingBlocksForever`, for any number of executions: an id is blocked by an
  execution that is under way and has an open record, or is to be cancelled.

**PlatformProofs**: every property of `platform`, each by an invariant of its
component (the name in brackets):

| Theorem | What makes the invariant inductive |
|---|---|
| `HeartbeatIsArmed` | nothing: it is inductive |
| `BudgetHolds` (*LoopInv*) | in a row of failed turns each has used at most one turn's cost over the tokens compared with the budget (*UseOfLoop*); a plan's failed turn leaves the agent unable to run another (*UseOfPlan*) |
| `RewritesPassed` (*GuardInv*) | contents judged to pass by the guardrail at hand are among the approved |
| `HandoffsClose` (*DynamicInv*) | where the handoff is parked tells which verdicts were announced, whether the target ran its turn and what its stop did (*HandoffInv*) |
| `StartsEnd` (*MachineInv*) | only the current state is announced as started, and only at the awaits of its work, or the run was deleted |
| `DirectoriesAreTracked` (*FoldersInv*) | what `disposeAll` has gone past is forgotten or being removed; nothing is recorded a second time |
| `AlertsSustained` (*AlertInv*) | no evaluation found the condition of its moment unmet since `firingStates` says; a rule that is not registered has no such time |
| `MessagesArrive` (*BrokerInv*) | received, in hand and queued messages, in that order, are all of those since the first heard; a waiting receiver has an empty queue |
| `CatchingUpIsComplete` (*StoreInv*) | unless a replay from the start was left part way, all rows up to the last event seen were seen, and what a replay under way has yet to give are the rows after it, in order; an event is stored once |
| `PatternsFew` (*LayersInv*) | a goal's patterns and the consolidations about to record one come of different consolidations: their numbers add up to at most that of the consolidations |
| `RefusalsDue` (*GateInv*) | the last requests let through are those the window counts, and they came since it began |
| `DueMinutesFire` (*CronInv*) | the timer is set for the least matching minute after the last run, and all before have fired |
| `EveryoneHears` (*BoardInv*) | nobody whom a loop has yet to come to has heard its entry, and of those it began with all who asked have, or are yet to come (*LoopsHold*); taking a subscriber out never adds to those to come (*PendingRemoved*) |
| `HistoryIsWhole` (*MemoryInv*) | the rows written and those a summary or a restore has yet to write tell all turns together, and so does the history a restore would bring back |
| `TracesAreWhole` (*TraceInv*) | parents are older than their children, every span is listed once, where it hangs (*Forest*), and the open ones are on the stack (*Stacked*) |
| `DiffsAreMinimal` (*PromptInv*) | versions have contents; the rest is about `computeLCS` and `computeUnifiedDiff`, below |
| `BetterPassesOn` (*EvalInv*) | entries hold runs; the rest is about sums, below |

The last three are about what loops compute:
- *Traces.* `getTrace` walks the forest from its roots. The walk is defined span by
  span from the youngest, since children are younger (`WalkExists`). Going down
  from the youngest span, the walks of those whose parent is older add up to the
  amounts of all from there on (`CountedOnce`); at the first span these are the roots.
- *Diffs.* By induction on `i + j`, no common subsequence of the first `i` and the
  first `j` lines is longer than `dp[i][j]` (`NoneLonger`). On the way back, what
  was found and what the cell promises add up to the corner (*Backwards*), so
  `computeLCS` returns a common subsequence of the greatest length (`LCSOf`). In the
  loop that compares, the places where `computeLCS` found the lines that are left
  are not passed yet (*Comparing*), although the loop takes the first places that fit:
  so no line of the subsequence is missed, and an `add` always has a line to add.
- *Comparisons.* A sum whose parts are no smaller is no smaller, the averages that are
  compared have the same denominators, and a drop that was not over a threshold
  does not become so when the later scores rise.

Assumptions besides finite sets and natural numbers: a state machine has states
of the five types (`MachineAssumption`), a goal is within itself
(`MemoryAssumption`), and a cron timer is less than a minute late
(`CronAssumption`: with a later one the code does pass over minutes, so without
it the property is false), a context manager keeps a number of turns
(`ContextAssumption`), timestamps are integers (`BusAssumption`), tokens are numbers (`TraceAssumption`), contents are
sequences (`PromptAssumption`), and the thresholds of the comparison are positive
(`EvalAssumption`: with 0, as no default is, a run regresses against itself).

**Induction.** The library's induction theorems take a predicate as a parameter,
which the provers cannot instantiate. But a set can take its place: from
`NatLessThanWellFounded` and `WFMin`, a nonempty set of numbers has a least one
(`LeastNumber`), so a set that holds 0 and with each number the next holds all of
them (`UpFromZero`). On these rest the searches of the code for the least of
something (`SelectInSeq`, `Min`, the next minute), that a loop has a state after each
of its rounds (`Iterated`), which is what gives a recursive function its meaning,
and everything about sums, walks and tables. For this the loops are recursive
functions, over the number of their rounds or the places of a list; what a theorem
depends on uses no `RECURSIVE` operator and no `SelectSeq`, whose definitions the
provers cannot use.

**Only model-checked**: the liveness properties (`EventuallySettles`,
`SettledIsReleased`, `TurnEnds`, `TimeoutAnswers`, `CountIsTemporary`), since the prover
has no fairness or `ENABLED`. Every invariant and action property that a run
checks and finds kept is also a theorem.

**Proved and not run**: `FailureReachesDownstream`, `NoNodeForgotten`,
`LaunchedOnce`, `SettlesLast`, `ActiveIsCancellable`, `ForgottenIsReleased`,
`EndedStaysEnded`, `FailedIsFinal`, `StoppedHoldsNoTools`, `StoppedIsFinal`,
`LogTellsTheDecision`, `NoLostWaiter`, `DecisionIsFinal`, `UnchargedIsBounded`,
`EnabledIsArmed`.

## 6. Where the code and its words differ

Three runs are counterexamples to what a comment says; the lines are quoted in
`PROJECT.json` under `findings`.

- `OneSlotPerRun`: `cleanup` tests its guard before an await and empties the
  maps after it. A run is cancelled while a node that had begun is still making its
  agent (past the check of the signal, `engine.ts:278`); `cancelWorkflow` stops that
  agent inside `cleanup`, and meanwhile the executor settles, reports the
  completion and cleans up: the counter, 0 by then, becomes -1.
- `ResumeSkipsCompleted`: `resumeFromCheckpoint` restores outputs that
  `executeDAG` never looks at; completed nodes run again.
- `FailedWritesAreRestored`: all summaries have one turn id, which is a primary
  key, so two agents on a table can prevent each other's summary *and* the
  restore of the history it was to replace.

Other statements that the code does not keep, or one would expect of it, have
a definition at the end of their module, with the line it is about, and no run:
`AbortedRunRejects`, `AbortStopsNodes`, `AbortSettles`, `FailuresAreTracked`,
`VersionIncrements` (`DagExecution`); `CancelledIsFinal`, `PausedWaits`,
`ThrownStartIsReleased`, `ResumedIsReleased` (`RunLifecycle`); `StopEndsPausedRuns`
(`Runtime`); `ResetAllowsRetries`, `NextCallIsAnswered` (`AgentRuntime`);
`CapEnforced` (`TokenPool`); `LimitIsEnforced`, `RemovedIsSilent`, `MissedIsRetried`
(`Scheduler`);
`FiresOnlyWhenDue`, `NextRunIsFound` (`CronTime`); `HandoffsAreLimited`,
`OneVerdict`, `TargetsAreStopped`, `NothingIsLeft` (`DynamicWorkflow`); `AbortThrows`
(`StateMachine`); `FinalIsTheBest` (`CognitiveWorkflow`);
`FailedStepsLeaveTheRest`, `CompletedPlansAreDone` (`AgentLoop`);
`LimitOfListeners`, `PartialReplayMissesNothing` (`EventBus`); `NewConditionStartsAnew`
(`AlertManager`); `StopDeliversTheQueue`, `RequestsCanBeAnswered`
(`MessageBroker`); `WindowSlides` (`Gateway`); `StopEndsStreams` (`Monitor`);
`AcceptedByAll`, `FailsClosed` (`Guardrails`); `HunksAreDisjoint`
(`PromptVersions`); `NobodyIsPassedOver`, `PublishedInOrder` (`Blackboard`);
`OnePatternPerGoal` (`CognitiveMemory`); `RunningTasksAreActive`,
`FailureStopsTheWork`, `RecordTellsTheResult` (`Executor`); `DisposedIsEmpty`
(`Workspace`); `ParentsOutliveChildren` (`AgentTrace`); `BaselineIsTheLatest`,
`NoSilentDrift`, `ImprovementIsOneWay` (`EvalRegression`); `CancelHolds`,
`EventsArrive` (`A2A`); `DrainCompletes`, `OrphansArePreserved` (`Cluster`);
`CallsAreLimited`, `ExitIsOfTheCurrent`, `FailedCallsHaveEnded` (`McpSession`).

Some of these bear on a property that a run checks, whose formula says so:
- a turn that loses the write of its results leaves the calls unanswered in the
  conversation that the next turn, after `resetFromError`, is sent (`runtime.ts:281`,
  `:290`; `NextCallIsAnswered` beside `CallsAreAnswered`);
- a reader that leaves the replay from the start, which is ordered by timestamp, and
  resumes by row misses events (`bus.ts:159-171`; `PartialReplayMissesNothing` beside
  `CatchUpMissesNothing`);
- a rule that is overwritten keeps its firing state, so an alert may rest on the time
  the former condition held (`alerts.ts:35-38`; `NewConditionStartsAnew` beside
  `AlertsAreSustained`);
- a stop of the target that fails makes an announced acceptance a rejection, and a
  target whose initialization failed is not stopped (`handoff.ts`; `OneVerdict` and
  `TargetsAreStopped` beside `HandoffsAreClosed`);
- a task sent to a server without a handler stays in working (`a2a-server.ts:261`;
  `unheard` in `WorkingIsWorked`);
- a job whose scan throws is armed again by nobody (`cron.ts:309`; `MissedIsRetried`
  beside `EnabledIsArmed`);
- a run resumed while the retention timer of its former life is pending is deleted by
  it, and its slot is then never given back (`engine.ts:991`, `:1145`; `ResumedIsReleased`
  beside `SettledIsReleased`).

That a facade whose health checks failed is not running is not a formula: its status
is set before the checks and never set back.

## 7. What is not modelled

- *Formats and I/O without a decision*: the HTTP formats of model providers
  (`adapters`, `providers/src/plugins`, the registry of plugins, secrets),
  configuration and settings files, the command line and the dashboard, report
  and export formats, logging, metrics and telemetry, identifiers.
- *Texts*: prompts, the parsing of model output, scores of evaluations,
  embeddings and vector search, self-healing and the creation of workflows from
  natural language. Where their outcome decides something, it is a choice.
- *Small maps and pure functions*: the agent registry, the tool composer, policy
  evaluation. They keep no state between two awaits.
- *SQLite* beyond "a row is read, written, or the statement throws"; the filters
  of queries.
- *The wall clock* is a bounded counter where durations decide (alerts, gateway,
  cron) and otherwise free: timers fire at any moment. Time zones are left out,
  among them that `Intl` with `hour12: false` writes midnight as 24 in some
  versions. The 32-bit limit of `setTimeout` is in `CronTime`.
- *Conditions over the data of edges* in DAGs, and the listing and deletion of
  checkpoints.

**Plan.** In this order: `RunLifecycle` over `DagExecution` instead of the abstract executor; policy evaluation and the evaluation runner as function modules.
