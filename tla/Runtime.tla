------------------------------ MODULE Runtime ------------------------------
(***************************************************************************)
(* The facade an application starts, asks to run workflows, and stops       *)
(* (core/src/runtime/index.ts), over the runs of RunLifecycle.tla: start     *)
(* runs the health checks (core/src/health/index.ts), stop cancels the runs  *)
(* one after another, awaiting each, and closes the memory.  The facade     *)
(* keeps its engine to itself, gives it no checkpoint store and offers no   *)
(* resumeFromCheckpoint.  Beside it: an application that has an engine of    *)
(* its own, with a store, and calls it directly.                            *)
(***************************************************************************)
EXTENDS RunLifecycle

CONSTANT MaxStarts, MaxStops    \* bounds: calls of start and stop; two stops never overlap here

VARIABLES
  direct,      \* the application calls an engine of its own: there is no facade
  facade,      \* _status: running, stopped
  stopAt,      \* idle, cancelling, done; threw when a cancellation did
  todo,        \* the runs the stop has not looked at yet
  awaited,     \* the runs whose cancellation it awaits: at most one
  starts, stops,
  resumed      \* the runs somebody resumed since stop was called

facadeVars  == <<direct, facade, stopAt, todo, awaited, starts, stops, resumed>>
runtimeVars == <<vars, facadeVars>>

RuntimeInit ==
  /\ Init /\ direct \in BOOLEAN
  /\ facade = "stopped"
  /\ stopAt = "idle" /\ todo = {} /\ awaited = {} /\ starts = 0 /\ stops = 0 /\ resumed = {}

-----------------------------------------------------------------------------
\* The status is set before the health checks are awaited.  start then returns,
\* or throws when they found the system unhealthy, as that of the memory does after
\* every stop; either way the status stays, and no call looks at the checks.
StartFacade ==
  /\ ~direct /\ facade = "stopped" /\ starts < MaxStarts
  /\ facade' = "running" /\ starts' = starts + 1
  /\ UNCHANGED <<vars, direct, stopAt, todo, awaited, stops, resumed>>

RunWorkflow_Unchecked(r) == Start(r) /\ UNCHANGED facadeVars

\* The engine registers the run before its first await.
RunWorkflow(r) == facade = "running" /\ Start(r) /\ UNCHANGED facadeVars

\* These three do not look at the facade's status.
PauseWorkflow(r)  == Pause(r) /\ UNCHANGED facadeVars
CancelWorkflow(r) == Cancel(r) /\ UNCHANGED facadeVars
ResumeWorkflow(r) ==
  /\ Resume(r) /\ resumed' = IF stopAt = "idle" THEN {} ELSE resumed \cup {r}
  /\ UNCHANGED <<direct, facade, stopAt, todo, awaited, starts, stops>>

-----------------------------------------------------------------------------
Stop ==
  /\ ~direct /\ stopAt # "cancelling" /\ stops < MaxStops
  /\ facade' = "stopped" /\ stopAt' = "cancelling" /\ stops' = stops + 1
  /\ todo' = {r \in Runs : status[r] \notin {"absent", "forgotten"}}
  /\ resumed' = {}
  /\ UNCHANGED <<vars, direct, awaited, starts>>

\* A run is looked at when its turn comes; in any order, here.  A paused one
\* is not cancelled.
StopLooksAt(r) ==
  /\ stopAt = "cancelling" /\ awaited = {} /\ r \in todo
  /\ todo' = todo \ {r}
  /\ IF status[r] = "running" THEN Cancel(r) /\ awaited' = {r} ELSE UNCHANGED <<vars, awaited>>
  /\ UNCHANGED <<direct, facade, stopAt, starts, stops, resumed>>

\* A cancellation that throws makes stop throw: the other runs go on.
StopContinues(r) ==
  /\ stopAt = "cancelling" /\ r \in awaited /\ task[holder[r]]["cancel"] \in {"done", "threw"}
  /\ awaited' = {}
  /\ IF task[holder[r]]["cancel"] = "threw" THEN stopAt' = "threw" /\ todo' = {} ELSE UNCHANGED <<stopAt, todo>>
  /\ UNCHANGED <<vars, direct, facade, starts, stops, resumed>>

StopEnds ==
  /\ stopAt = "cancelling" /\ awaited = {} /\ todo = {}
  /\ stopAt' = "done"
  /\ UNCHANGED <<vars, direct, facade, todo, awaited, starts, stops, resumed>>

Engine(r) == (Starting(r) \/ Executing(r) \/ Settling(r) \/ Cancelling(r) \/ Expire(r)) /\ UNCHANGED facadeVars

\* The calls of the facade, and the calls of an engine of one's own.
FacadeCalls(r) == RunWorkflow(r) \/ PauseWorkflow(r) \/ ResumeWorkflow(r) \/ CancelWorkflow(r)
EngineCalls(r) == (Calls(r) \/ Checkpoints(r)) /\ UNCHANGED facadeVars

RuntimeNext ==
  \/ StartFacade \/ Stop \/ StopEnds
  \/ \E r \in Runs : \/ ~direct /\ FacadeCalls(r)
                     \/ direct /\ EngineCalls(r)
                     \/ StopLooksAt(r) \/ StopContinues(r) \/ Engine(r)

\* As in RunLifecycle, the engine's callbacks run when they are due; whoever
\* calls the facade need not.
RuntimeSpec ==
  /\ RuntimeInit /\ [][RuntimeNext]_runtimeVars
  /\ \A r \in Runs : WF_vars(Starting(r)) /\ WF_vars(Settling(r)) /\ WF_vars(Cancelling(r))

-----------------------------------------------------------------------------
(* When stop has returned and nobody started the facade meanwhile, the only  *)
(* runs left running are those somebody resumed since: no workflow slips in   *)
(* while the others are being cancelled.                                     *)
StopLeavesNothingRunning ==
  (stopAt = "done" /\ facade = "stopped") => \A r \in Runs : status[r] = "running" => r \in resumed

(* Not kept: paused runs survive stop and may be resumed on closed memory.    *)
StopEndsPausedRuns == (stopAt = "done" /\ facade = "stopped") => \A r \in Runs : status[r] # "paused"
=============================================================================
