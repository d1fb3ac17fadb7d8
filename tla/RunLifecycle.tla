---------------------------- MODULE RunLifecycle ----------------------------
(***************************************************************************)
(* The lifecycle of workflow runs in WorkflowEngine: startWorkflow under    *)
(* the concurrency limit, resumeFromCheckpoint beside it, pause, resume and *)
(* cancel, the .then/.catch chain that completes or fails a run when its    *)
(* executor settles, and the shared cleanup                                 *)
(* (packages/core/src/workflow/engine.ts).                                  *)
(*                                                                         *)
(* A call of startWorkflow works on the id it generates, named after the    *)
(* call; a call of resumeFromCheckpoint on the id of its checkpoint, which  *)
(* may be that of an earlier call.  Up to three asynchronous tasks belong   *)
(* to a call c: "start", "settle" and "cancel"; task[c][a] is the await at  *)
(* which task a is parked.  The executor is abstract here: it begins nodes, *)
(* creates and stops agent runtimes and settles; DagExecution is the        *)
(* detailed one.                                                            *)
(***************************************************************************)
EXTENDS Integers, FiniteSets

CONSTANTS
  Runs,           \* the calls, and the run ids
  MaxConcurrent,  \* maxConcurrentWorkflows
  StoreFaults     \* may the event store throw?

ASSUME LifecycleAssumption ==
  /\ IsFiniteSet(Runs)
  /\ MaxConcurrent \in Nat \ {0}
  /\ StoreFaults \in BOOLEAN

VARIABLES
  (* of an id *)
  status,   \* runs[r].status; "absent" before the first call, "forgotten"
            \* when the entry was deleted
  tracked,  \* the ids in activeAgents, abortControllers and runStats
  holder,   \* the call that put those entries there last
  retiring, \* how many retention timers are pending
  saved,    \* the ids a checkpoint was saved for (and may have been loaded)
  (* of a call *)
  runId,    \* the id it works on
  exec,     \* its executor: none, running, working (on a node), resolved, rejected
  signal,   \* the controller its executor looks at: none, or the call that made it
  live,     \* it has an agent runtime in the map that is not stopped
  task,     \* where its tasks are parked
  aborted,  \* its controller was aborted
  (* of the engine *)
  count,        \* activeWorkflowCount
  resumptions,  \* the calls that were calls of resumeFromCheckpoint, and of
  clashed       \* these, those that met leftovers of the id they resumed

idVars   == <<status, tracked, holder, retiring, saved>>
callVars == <<runId, exec, signal, live, task, aborted>>
history  == <<resumptions, clashed>>
vars     == <<idVars, callVars, count, history>>

Tasks   == {"start", "settle", "cancel"}
Ended   == {"completed", "failed", "cancelled"}
Settled == {"resolved", "rejected"}
Parked  == {"announcing", "reporting", "stopping", "cleaning", "emptying"}

CallsOf(r) == {c \in Runs : runId[c] = r}
Goto(c, a, place) == task' = [task EXCEPT ![c][a] = place]
SetStatus(r, s)   == status' = [status EXCEPT ![r] = s]

-----------------------------------------------------------------------------
Init ==
  /\ status = [r \in Runs |-> "absent"] /\ holder = [r \in Runs |-> r]
  /\ retiring = [r \in Runs |-> 0]
  /\ tracked = {} /\ saved = {} /\ live = {} /\ aborted = {}
  /\ runId = [c \in Runs |-> c] /\ signal = [c \in Runs |-> {}]
  /\ exec = [c \in Runs |-> "none"]
  /\ task = [c \in Runs |-> [a \in Tasks |-> "idle"]]
  /\ count = 0 /\ resumptions = {} /\ clashed = {}

(***************************************************************************)
(* cleanup(runId).  The guard looks at the maps; agents that are still      *)
(* running are then stopped one by one, an await each, before the maps are  *)
(* emptied and the slot is given back.                                      *)
(***************************************************************************)
Free_NoDecrement(r) == tracked' = tracked \ {r} /\ UNCHANGED count
Free(r) == tracked' = tracked \ {r} /\ count' = count - 1

Release(c, a) ==
  /\ Free(runId[c])
  /\ retiring' = [retiring EXCEPT ![runId[c]] = @ + 1]
  /\ Goto(c, a, "done")
  /\ UNCHANGED live

HasAgents(r) == live \cap CallsOf(r) # {}

StopAgents(c, a) ==
  /\ live' = live \ CallsOf(runId[c])
  /\ Goto(c, a, "cleaning")
  /\ UNCHANGED <<tracked, count, retiring>>

Cleanup(c, a) ==
  \/ runId[c] \notin tracked /\ Goto(c, a, "done")
     /\ UNCHANGED <<tracked, count, live, retiring>>
  \/ runId[c] \in tracked /\ HasAgents(runId[c]) /\ StopAgents(c, a)
  \/ runId[c] \in tracked /\ ~HasAgents(runId[c]) /\ Release(c, a)

\* An awaited stop returned: the loop goes on over the map, which may have
\* gained an agent, unless a resumption put another in its place, and the
\* guard is not looked at again.
CleanupContinues(c, a) ==
  /\ \/ task[c][a] = "cleaning" /\ HasAgents(runId[c]) /\ StopAgents(c, a)
     \/ task[c][a] = "cleaning" /\ ~HasAgents(runId[c]) /\ Release(c, a)
     \/ task[c][a] = "emptying" /\ Release(c, a)
  /\ UNCHANGED <<status, holder, saved, runId, exec, signal, aborted, history>>

-----------------------------------------------------------------------------
(* startWorkflow.                                                          *)

Register(r) ==
  /\ SetStatus(r, "running")
  /\ tracked' = tracked \cup {r}
  /\ count' = count + 1

Start_OffByOne(c) ==
  /\ task[c]["start"] = "idle"
  /\ count <= MaxConcurrent
  /\ Register(c)
  /\ Goto(c, "start", "announcing")
  /\ UNCHANGED <<holder, retiring, saved, runId, exec, signal, live, aborted, history>>

Start(c) ==
  /\ task[c]["start"] = "idle"
  /\ count < MaxConcurrent
  /\ Register(c)
  /\ Goto(c, "start", "announcing")
  /\ UNCHANGED <<holder, retiring, saved, runId, exec, signal, live, aborted, history>>

\* WORKFLOW_STARTED was persisted: arm the timeout and run the executor,
\* without looking at what happened to the run during the publish.
Launch(c) ==
  /\ task[c]["start"] = "announcing"
  /\ exec' = [exec EXCEPT ![c] = "running"]
  /\ signal' = [signal EXCEPT ![c] = IF runId[c] \in tracked THEN {holder[runId[c]]} ELSE {}]
  /\ Goto(c, "start", "done")
  /\ UNCHANGED <<idVars, runId, live, aborted, count, history>>

\* WORKFLOW_STARTED was not persisted: the call throws to its caller.
StartThrows(c) ==
  /\ StoreFaults
  /\ task[c]["start"] = "announcing"
  /\ Goto(c, "start", "threw")
  /\ UNCHANGED <<idVars, runId, exec, signal, live, aborted, count, history>>

-----------------------------------------------------------------------------
(* resumeFromCheckpoint: a new entry in every map, whatever they held, and   *)
(* a slot taken without a look at the limit.                                 *)

\* The call has something left to do.
Busy(c) ==
  \/ exec[c] \in {"running", "working"}
  \/ exec[c] \in Settled /\ task[c]["settle"] = "idle"
  \/ \E a \in Tasks : task[c][a] \in Parked

\* What an earlier call of the same id may have left behind.
Leftovers(r) == r \in tracked \/ retiring[r] > 0 \/ \E c \in CallsOf(r) : Busy(c)

\* The loops over the map of agents that is replaced: nobody adds to it now.
Detached(place) ==
  CASE place = "cleaning" -> "emptying" [] place = "stopping" -> "announcing" [] OTHER -> place

\* r is the id of a checkpoint that another process saved, or an earlier call.
ResumeFromCheckpoint(c, r) ==
  /\ task[c]["start"] = "idle"
  /\ r = c \/ r \in saved
  /\ Register(r)
  /\ holder' = [holder EXCEPT ![r] = c]
  /\ runId' = [runId EXCEPT ![c] = r]
  /\ live' = live \ CallsOf(r)
  /\ task' = [d \in Runs |->
       IF d = c THEN [task[c] EXCEPT !["start"] = "announcing"]
       ELSE IF runId[d] = r THEN [a \in Tasks |-> Detached(task[d][a])]
       ELSE task[d]]
  /\ resumptions' = resumptions \cup {c}
  /\ clashed' = IF Leftovers(r) THEN clashed \cup {c} ELSE clashed
  /\ UNCHANGED <<retiring, saved, exec, signal, aborted>>

-----------------------------------------------------------------------------
(* The executor.  A node begins only under a controller that is not aborted; *)
(* one that has begun registers agent runtimes, a new one per attempt, while *)
(* the run is tracked, executeNode's finally stops them, and the promise     *)
(* settles when no node is left.  (The timeout aborts the controller too:    *)
(* that only keeps nodes from beginning, which they need not do.)            *)

NodeBegins(c) ==
  /\ exec[c] = "running" /\ signal[c] # {} /\ signal[c] \cap aborted = {}
  /\ exec' = [exec EXCEPT ![c] = "working"]
  /\ UNCHANGED <<idVars, runId, signal, live, task, aborted, count, history>>

AgentStarts(c) ==
  /\ exec[c] = "working" /\ c \notin live /\ runId[c] \in tracked
  /\ live' = live \cup {c}
  /\ UNCHANGED <<idVars, runId, exec, signal, task, aborted, count, history>>

AgentStops(c) ==
  /\ exec[c] = "working" /\ c \in live
  /\ live' = live \ {c}
  /\ UNCHANGED <<idVars, runId, exec, signal, task, aborted, count, history>>

\* A node completed, and there is a checkpoint store.
NodeSaved(c) ==
  /\ exec[c] = "working" /\ saved' = saved \cup {runId[c]}
  /\ UNCHANGED <<status, tracked, holder, retiring, callVars, count, history>>

NodesEnd(c) ==
  /\ exec[c] = "working" /\ c \notin live
  /\ exec' = [exec EXCEPT ![c] = "running"]
  /\ UNCHANGED <<idVars, runId, signal, live, task, aborted, count, history>>

ExecutorSettles(c) ==
  /\ exec[c] = "running"
  /\ \E how \in Settled : exec' = [exec EXCEPT ![c] = how]
  /\ UNCHANGED <<idVars, runId, signal, live, task, aborted, count, history>>

-----------------------------------------------------------------------------
(* completeWorkflow and handleWorkflowError.                               *)

\* The entry of the id is marked, or is gone; then the checkpoint is deleted,
\* errors swallowed, and WORKFLOW_COMPLETED published: one wait here, for
\* nothing of this state changes between the two.
Complete(c) ==
  /\ exec[c] = "resolved" /\ task[c]["settle"] = "idle"
  /\ IF status[runId[c]] = "forgotten"
       THEN Goto(c, "settle", "done") /\ UNCHANGED status
       ELSE Goto(c, "settle", "announcing") /\ SetStatus(runId[c], "completed")
  /\ UNCHANGED <<tracked, holder, retiring, saved, runId, exec, signal, live, aborted, count, history>>

CompletionAnnounced(c) ==
  /\ task[c]["settle"] = "announcing"
  /\ Cleanup(c, "settle")
  /\ UNCHANGED <<status, holder, saved, runId, exec, signal, aborted, history>>

EnterError(c) ==
  IF status[runId[c]] = "forgotten"
    THEN Goto(c, "settle", "done") /\ UNCHANGED status
    ELSE Goto(c, "settle", "reporting") /\ SetStatus(runId[c], "failed")

\* The executor rejected, or WORKFLOW_COMPLETED was not persisted: the
\* .catch handler fails the run; it throws at abortController.signal when
\* there was no controller at the launch, and the last .catch cleans up.
HandleError(c) ==
  /\ \/ exec[c] = "rejected" /\ task[c]["settle"] = "idle"
     \/ StoreFaults /\ task[c]["settle"] = "announcing"
  /\ \/ /\ signal[c] # {}
        /\ EnterError(c)
        /\ UNCHANGED <<tracked, count, live, retiring>>
     \/ signal[c] = {} /\ Cleanup(c, "settle") /\ UNCHANGED status
  /\ UNCHANGED <<holder, saved, runId, exec, signal, aborted, history>>

\* WORKFLOW_FAILED was persisted, or was not and the last .catch cleans up.
ErrorReported_NoLastResort(c) ==
  /\ task[c]["settle"] = "reporting"
  /\ \/ Cleanup(c, "settle")
     \/ /\ StoreFaults
        /\ Goto(c, "settle", "done")
        /\ UNCHANGED <<tracked, count, live, retiring>>
  /\ UNCHANGED <<status, holder, saved, runId, exec, signal, aborted, history>>

ErrorReported(c) ==
  /\ task[c]["settle"] = "reporting"
  /\ Cleanup(c, "settle")
  /\ UNCHANGED <<status, holder, saved, runId, exec, signal, aborted, history>>

-----------------------------------------------------------------------------
(* pauseWorkflow, resumeWorkflow and cancelWorkflow.  The first two change  *)
(* the status; the runtimes they pause or resume are not tracked here.      *)

Pause(r) ==
  /\ status[r] = "running"
  /\ SetStatus(r, "paused")
  /\ UNCHANGED <<tracked, holder, retiring, saved, callVars, count, history>>

Resume_Anything(r) ==
  /\ status[r] \notin {"absent", "forgotten"}
  /\ SetStatus(r, "running")
  /\ UNCHANGED <<tracked, holder, retiring, saved, callVars, count, history>>

Resume(r) ==
  /\ status[r] = "paused"
  /\ SetStatus(r, "running")
  /\ UNCHANGED <<tracked, holder, retiring, saved, callVars, count, history>>

\* Mark the run, abort the controller the maps hold and stop the first live
\* agent.  The task is kept with the call whose entries it found.
Cancel(r) ==
  /\ status[r] \in {"running", "paused"}
  /\ SetStatus(r, "cancelled")
  /\ aborted' = IF r \in tracked THEN aborted \cup {holder[r]} ELSE aborted
  /\ live' = live \ CallsOf(r)
  /\ Goto(holder[r], "cancel", IF HasAgents(r) THEN "stopping" ELSE "announcing")
  /\ UNCHANGED <<tracked, holder, retiring, saved, runId, exec, signal, count, history>>

\* An awaited stop returned; the loop also sees agents registered meanwhile.
CancelContinues(c) ==
  /\ task[c]["cancel"] = "stopping"
  /\ live' = live \ CallsOf(runId[c])
  /\ Goto(c, "cancel", IF HasAgents(runId[c]) THEN "stopping" ELSE "announcing")
  /\ UNCHANGED <<idVars, runId, exec, signal, aborted, count, history>>

CancelAnnounced(c) ==
  /\ task[c]["cancel"] = "announcing"
  /\ Cleanup(c, "cancel")
  /\ UNCHANGED <<status, holder, saved, runId, exec, signal, aborted, history>>

\* runtime.stop or WORKFLOW_CANCELLED was not persisted: cancelWorkflow
\* throws before its cleanup.
CancelThrows(c) ==
  /\ StoreFaults
  /\ task[c]["cancel"] \in {"stopping", "announcing"}
  /\ Goto(c, "cancel", "threw")
  /\ UNCHANGED <<idVars, runId, exec, signal, live, aborted, count, history>>

\* One hour after a cleanup the entry of the id is deleted from the runs map,
\* also when it is by then that of a resumption.
Expire(r) ==
  /\ retiring[r] > 0
  /\ retiring' = [retiring EXCEPT ![r] = @ - 1]
  /\ SetStatus(r, "forgotten")
  /\ UNCHANGED <<tracked, holder, saved, callVars, count, history>>

-----------------------------------------------------------------------------
Settling(c) ==
  \/ Complete(c) \/ CompletionAnnounced(c)
  \/ HandleError(c) \/ ErrorReported(c) \/ CleanupContinues(c, "settle")

Starting(c)   == Launch(c) \/ StartThrows(c)
Cancelling(c) == \/ CancelContinues(c) \/ CancelAnnounced(c) \/ CancelThrows(c)
                 \/ CleanupContinues(c, "cancel")
Executing(c)  == \/ NodeBegins(c) \/ AgentStarts(c) \/ AgentStops(c) \/ NodesEnd(c)
                 \/ ExecutorSettles(c)
Calls(r)      == Start(r) \/ Pause(r) \/ Resume(r) \/ Cancel(r)

\* An engine with a checkpoint store.
Checkpoints(c) == NodeSaved(c) \/ \E r \in Runs : ResumeFromCheckpoint(c, r)

Next ==
  \E r \in Runs : \/ Calls(r) \/ Starting(r) \/ Executing(r) \/ Settling(r)
                  \/ Cancelling(r) \/ Expire(r) \/ Checkpoints(r)

Spec == Init /\ [][Next]_vars

\* The event loop runs the callbacks that are due.  Callers need not call,
\* executors need not settle and the hour need not pass.
FairSpec ==
  Spec /\ \A c \in Runs : WF_vars(Starting(c)) /\ WF_vars(Settling(c))
                          /\ WF_vars(Cancelling(c))

-----------------------------------------------------------------------------
(* The limit is part of the types: startWorkflow keeps to it, and only the  *)
(* calls of resumeFromCheckpoint, which do not look at it, can exceed it.   *)
TypeOK ==
  /\ status \in [Runs -> {"absent", "running", "paused", "forgotten"} \cup Ended]
  /\ holder \in [Runs -> Runs] /\ retiring \in [Runs -> Nat] /\ runId \in [Runs -> Runs]
  /\ tracked \subseteq Runs /\ saved \subseteq Runs
  /\ live \subseteq Runs /\ aborted \subseteq Runs
  /\ exec \in [Runs -> {"none", "running", "working"} \cup Settled]
  /\ signal \in [Runs -> SUBSET Runs]
  /\ task \in [Runs -> [Tasks -> {"idle", "done", "threw"} \cup Parked]]
  /\ clashed \subseteq resumptions /\ resumptions \subseteq Runs
  /\ count \in Int /\ count <= MaxConcurrent + Cardinality(resumptions)

\* No call of resumeFromCheckpoint met leftovers of the id.
Untouched(r) == \A c \in clashed : runId[c] # r

(* The counter never stands above the slots that are really held, so no     *)
(* interleaving of settling, cancelling and store failures exhausts the     *)
(* limit with runs that are gone (cleanup, activeWorkflowCount); at most    *)
(* one slot is lost by each resumption over leftovers of its id.            *)
NoPhantomSlot == count <= Cardinality(tracked) + Cardinality(clashed)

(* A run that reports itself running or paused still has its controller and *)
(* agent map, so cancelWorkflow and pauseWorkflow can act on it.            *)
ActiveIsCancellable ==
  \A r \in Runs : Untouched(r) /\ status[r] \in {"running", "paused"} => r \in tracked

(* An ended run is active again only by a call of resumeFromCheckpoint for  *)
(* its id, whatever order the tasks run in: no other call and no late       *)
(* callback revives it.                                                     *)
EndedStaysEnded ==
  [][\A r \in Runs : status[r] \in Ended
       => \/ status'[r] \in Ended \cup {"forgotten"}
          \/ \E c \in resumptions' \ resumptions : runId'[c] = r]_vars

(* A failed run stays failed, unless it is resumed.  (A completed one may   *)
(* still fail.)                                                             *)
FailedIsFinal ==
  [][\A r \in Runs : Untouched(r)' /\ status[r] = "failed"
       => \/ status'[r] \in {"failed", "forgotten"}
          \/ \E c \in resumptions' \ resumptions : runId'[c] = r]_vars

(* A run is dropped from the runs map only after its slot was given back.   *)
ForgottenIsReleased ==
  \A r \in Runs : Untouched(r) /\ status[r] = "forgotten" => r \notin tracked

(* engine.ts:209, "Ensure activeWorkflowCount is always decremented": once  *)
(* the executor has settled, the run's slot is given back, also when the    *)
(* checkpoint store, WORKFLOW_COMPLETED and WORKFLOW_FAILED all fail.       *)
SettledIsReleased ==
  \A r \in Runs : exec[holder[r]] \in Settled ~> (r \notin tracked \/ ~Untouched(r))

-----------------------------------------------------------------------------
(* Statements of the repository that the code does not keep.                *)

(* engine.ts:1122: "Guard against double cleanup (e.g. cancel + async       *)
(* completion race)": no cleanup gives back a slot that is not held any     *)
(* more.                                                                    *)
OneSlotPerRun == count >= Cardinality(tracked)

(* engine.ts:1080: "only cancel runs that are still active", and            *)
(* architecture.md:234 "Pause / resume / cancel support": a cancelled run   *)
(* is not reported completed afterwards.                                    *)
CancelledIsFinal ==
  [][\A r \in Runs : status[r] = "cancelled"
                       => status'[r] \in {"cancelled", "forgotten"}]_vars

(* architecture.md:234: a paused run waits for resume or cancel.            *)
PausedWaits ==
  [][\A r \in Runs : status[r] = "paused"
                       => status'[r] \in {"paused", "running", "cancelled"}]_vars

(* engine.ts:209: a call of startWorkflow that threw does not keep its slot.*)
ThrownStartIsReleased ==
  \A c \in Runs : task[c]["start"] = "threw" ~> runId[c] \notin tracked

(* A run whose executor has settled gives its slot back however it was      *)
(* started.  (Not kept: the retention timer of the earlier life deletes the *)
(* resumed run, whose completion then returns before its cleanup.)          *)
ResumedIsReleased == \A r \in Runs : exec[holder[r]] \in Settled ~> r \notin tracked
=============================================================================
