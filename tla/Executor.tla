------------------------------ MODULE Executor ------------------------------
(***************************************************************************)
(* The executor (packages/executor/src): the manager, which remembers the  *)
(* backend of each active task, and the four backends.  A backend keeps a   *)
(* record for each task id and drives what runs the task: an agent in this  *)
(* process, a container, a Kubernetes job or a process on another host.     *)
(*                                                                         *)
(* Executions are numbered: a task id may be executed again.  The workload  *)
(* is external and ends, or a call to its host fails, at any time.          *)
(***************************************************************************)
EXTENDS Integers, Sequences, FiniteSets, SequencesExt

CONSTANTS
  TaskNames,     \* the task ids
  Registered,    \* the backends registered, in their order
  MaxExecutions, \* bound on the calls of execute
  MaxCancels     \* bound on the calls of cancel

VARIABLES
  exec,         \* each execution: its task, backend, step and result
  recordOf,     \* for each backend and task id the execution of its record, 0 for none
  recordStatus, \* the status in the record of each execution
  workload,     \* what runs each execution: none, created, running, ended, removed
  activeTasks,  \* activeTasks of the manager: the backend of each task
  cancelling,   \* the cancels under way: task and execution
  cancels,      \* the cancels so far
  disposed      \* how many backends a dispose under way has finished

executorVars == <<exec, recordOf, recordStatus, workload, activeTasks, cancelling, cancels, disposed>>

Backends == ToSet(Registered)
Execs    == DOMAIN exec
InFlight == {e \in Execs : exec[e].step # "returned"}
Open(s)  == s \in {"pending", "running"}

Init ==
  /\ exec = <<>> /\ recordOf = [b \in Backends |-> [t \in TaskNames |-> 0]]
  /\ recordStatus = <<>> /\ workload = <<>> /\ activeTasks = [t \in TaskNames |-> "none"]
  /\ cancelling = {} /\ cancels = 0 /\ disposed = 0

Goto(e, step) == exec' = [exec EXCEPT ![e].step = step]
Become(e, s)  == recordStatus' = [recordStatus EXCEPT ![e] = s]
Works(e, w)   == workload' = [workload EXCEPT ![e] = w]

-----------------------------------------------------------------------------
(* execute of the manager, and of the backend: a task id whose record is     *)
(* open is refused, and the refusal takes the manager's finally too.        *)
Begin(t, b) ==
  LET e == Len(exec) + 1
      r == recordOf[b][t]
  IN  /\ e <= MaxExecutions
      /\ IF r # 0 /\ Open(recordStatus[r])
         THEN /\ activeTasks' = [activeTasks EXCEPT ![t] = "none"]
              /\ UNCHANGED <<exec, recordStatus, workload, recordOf>>
         ELSE /\ activeTasks' = [activeTasks EXCEPT ![t] = b]
              /\ recordOf' = [recordOf EXCEPT ![b][t] = e]
              /\ recordStatus' = Append(recordStatus, IF b = "local" THEN "running" ELSE "pending")
              /\ workload' = Append(workload, IF b = "local" THEN "running" ELSE "none")
              /\ exec' = Append(exec, [task |-> t, backend |-> b, result |-> "none",
                                       step |-> IF b = "local" THEN "wait" ELSE "create"])
      /\ UNCHANGED <<cancelling, cancels, disposed>>

\* finally: whoever of the task's executions returns, the task is no longer active.
Return_OnSuccess(e, s) ==
  /\ exec' = [exec EXCEPT ![e].step = "returned", ![e].result = s]
  /\ activeTasks' = [activeTasks EXCEPT ![exec[e].task] = IF s = "completed" THEN "none" ELSE @]
  /\ UNCHANGED <<recordOf, cancelling, cancels, disposed>>

Return(e, s) ==
  /\ exec' = [exec EXCEPT ![e].step = "returned", ![e].result = s]
  /\ activeTasks' = [activeTasks EXCEPT ![exec[e].task] = "none"]
  /\ UNCHANGED <<recordOf, cancelling, cancels, disposed>>

Within(e) == UNCHANGED <<recordOf, activeTasks, cancelling, cancels, disposed>>
At(e, b, step) == exec[e].backend = b /\ exec[e].step = step

-----------------------------------------------------------------------------
(* Local: the agent races the abort of cancel and a timer.  It goes on in    *)
(* the background when it loses.                                            *)
LocalReturns(e) ==
  /\ At(e, "local", "wait")
  /\ \/ workload[e] = "ended" /\ Become(e, "completed") /\ Return(e, "completed")
     \/ LET s == IF recordStatus[e] = "cancelled" THEN "cancelled" ELSE "failed"
        IN  Become(e, s) /\ Return(e, s)
  /\ UNCHANGED workload

\* The retention timer deletes the record of the task id, whichever it is now.
ScheduledCleanup(t) ==
  /\ "local" \in Backends
  /\ \E e \in Execs : exec[e].task = t /\ exec[e].backend = "local" /\ exec[e].step = "returned"
  /\ recordOf' = [recordOf EXCEPT !["local"][t] = 0]
  /\ UNCHANGED <<exec, recordStatus, workload, activeTasks, cancelling, cancels, disposed>>

-----------------------------------------------------------------------------
(* Docker: create, start, wait, read the logs.  Any call to the daemon may   *)
(* fail; a container is removed only then.                                  *)
CreateContainer(e) ==
  At(e, "docker", "create") /\ Goto(e, "start") /\ Become(e, "running") /\ Works(e, "created") /\ Within(e)

StartContainer(e) ==
  /\ At(e, "docker", "start") /\ workload[e] = "created" /\ Goto(e, "wait") /\ Works(e, "running")
  /\ UNCHANGED recordStatus /\ Within(e)

WaitForContainer(e) ==
  /\ At(e, "docker", "wait") /\ workload[e] \in {"ended", "removed"} /\ Goto(e, "logs")
  /\ UNCHANGED <<recordStatus, workload>> /\ Within(e)

DockerFails(e) ==
  /\ exec[e].backend = "docker" /\ exec[e].step \in {"create", "start", "wait", "logs"}
  /\ Become(e, "failed") /\ Goto(e, IF workload[e] = "none" THEN "failed" ELSE "remove")
  /\ UNCHANGED workload /\ Within(e)

RemoveContainer(e) ==
  /\ At(e, "docker", "remove") /\ Goto(e, "failed") /\ UNCHANGED recordStatus /\ Within(e)
  /\ (Works(e, "removed") \/ UNCHANGED workload)

DockerStep(e) ==
  CreateContainer(e) \/ StartContainer(e) \/ WaitForContainer(e) \/ DockerFails(e) \/ RemoveContainer(e)

DockerReturns(e) ==
  /\ exec[e].backend = "docker" /\ UNCHANGED workload
  /\ \/ \E s \in {"completed", "failed"} : At(e, "docker", "logs") /\ Become(e, s) /\ Return(e, s)
     \/ At(e, "docker", "failed") /\ UNCHANGED recordStatus /\ Return(e, "failed")

-----------------------------------------------------------------------------
(* Kubernetes: create the job, poll it until its deadline, read the logs.    *)
(* A job that is late or cannot be asked about is left to itself.           *)
CreateJob(e) ==
  At(e, "kubernetes", "create") /\ Goto(e, "wait") /\ Become(e, "running") /\ Works(e, "running") /\ Within(e)

WaitForJob(e) ==
  /\ At(e, "kubernetes", "wait") /\ workload[e] = "ended" /\ Goto(e, "succeeded")
  /\ Become(e, "completed") /\ UNCHANGED workload /\ Within(e)

JobFails_Blocks(e) ==
  /\ exec[e].backend = "kubernetes" /\ exec[e].step \in {"create", "wait"} /\ Goto(e, "lost")
  /\ UNCHANGED <<recordStatus, workload>> /\ Within(e)

JobFails(e) ==
  /\ exec[e].backend = "kubernetes" /\ exec[e].step \in {"create", "wait"} /\ Goto(e, "lost")
  /\ Become(e, "failed") /\ UNCHANGED workload /\ Within(e)

JobStep(e) == CreateJob(e) \/ WaitForJob(e) \/ JobFails(e)

\* The logs are read after the verdict; a cancel may have changed the record by then.
JobReturns(e) ==
  /\ UNCHANGED <<recordStatus, workload>>
  /\ \/ At(e, "kubernetes", "succeeded") /\ Return(e, "completed")
     \/ At(e, "kubernetes", "lost") /\ Return(e, "failed")

-----------------------------------------------------------------------------
(* SSH: upload, run, read the process id, set the verdict, and remove the    *)
(* directory.  The id is thus known only when the process has ended.        *)
SshUpload(e) ==
  At(e, "ssh", "create") /\ Goto(e, "wait") /\ Become(e, "running") /\ Works(e, "running") /\ Within(e)

SshExec(e) ==
  /\ At(e, "ssh", "wait") /\ workload[e] = "ended" /\ Goto(e, "pid")
  /\ UNCHANGED <<recordStatus, workload>> /\ Within(e)

SshVerdict(e) ==
  At(e, "ssh", "pid") /\ Goto(e, "succeeded") /\ Become(e, "completed") /\ UNCHANGED workload /\ Within(e)

SshFails(e) ==
  /\ exec[e].backend = "ssh" /\ exec[e].step \in {"create", "wait", "pid"} /\ Goto(e, "lost")
  /\ Become(e, "failed") /\ UNCHANGED workload /\ Within(e)

SshStep(e) == SshUpload(e) \/ SshExec(e) \/ SshVerdict(e) \/ SshFails(e)

SshReturns(e) ==
  /\ UNCHANGED <<recordStatus, workload>>
  /\ \/ At(e, "ssh", "succeeded") /\ Return(e, "completed")
     \/ At(e, "ssh", "lost") /\ Return(e, "failed")

-----------------------------------------------------------------------------
WorkEnds(e) ==
  /\ workload[e] = "running" /\ Works(e, "ended")
  /\ UNCHANGED <<exec, recordOf, recordStatus, activeTasks, cancelling, cancels, disposed>>

(* cancel asks the backend of the active task, for the record it has now,    *)
(* and forgets the task when the backend is done with it.                   *)
Cancel(t) ==
  /\ cancels < MaxCancels /\ activeTasks[t] # "none" /\ cancels' = cancels + 1
  /\ cancelling' = cancelling \cup {[task |-> t, exec |-> recordOf[activeTasks[t]][t]]}
  /\ LET e == recordOf[activeTasks[t]][t]
     IN  IF e # 0 /\ exec[e].backend = "local" /\ Open(recordStatus[e])
         THEN Become(e, "cancelled") ELSE UNCHANGED recordStatus
  /\ UNCHANGED <<exec, recordOf, workload, activeTasks, disposed>>

\* A container that is not created yet is not cancelled; a job may not be deleted;
\* a remote process is killed only once its id was read.
CancelledAtHost(e) ==
  \/ /\ e # 0 /\ exec[e].backend \in {"docker", "kubernetes"} /\ workload[e] # "none"
     /\ Become(e, "cancelled")
     /\ Works(e, "removed") \/ (exec[e].backend = "docker" /\ UNCHANGED workload)
  \/ e # 0 /\ exec[e].backend = "ssh" /\ Become(e, "cancelled") /\ UNCHANGED workload
  \/ ~(e # 0 /\ exec[e].backend = "ssh") /\ UNCHANGED <<recordStatus, workload>>

CancelDone(c) ==
  /\ cancelling' = cancelling \ {c} /\ CancelledAtHost(c.exec)
  /\ activeTasks' = [activeTasks EXCEPT ![c.task] = "none"]
  /\ UNCHANGED <<exec, recordOf, cancels, disposed>>

\* getStatus asks the host about a running record and corrects the record.  (The
\* record of an SSH task is never running once its process id is known.)
GetStatus(t, b) ==
  /\ b \in {"docker", "kubernetes"}
  /\ LET e == recordOf[b][t] IN
       /\ e # 0 /\ recordStatus[e] = "running" /\ workload[e] = "ended"
       /\ \E s \in {"completed", "failed"} : Become(e, s)
  /\ UNCHANGED <<exec, recordOf, workload, activeTasks, cancelling, cancels, disposed>>

\* dispose: each backend stops what its open records run and forgets its records, ...
DisposeBackend ==
  /\ disposed < Len(Registered) /\ disposed' = disposed + 1
  /\ LET b == Registered[disposed']
         held(e) == recordOf[b][exec[e].task] = e /\ Open(recordStatus[e])
     IN  /\ recordOf' = [recordOf EXCEPT ![b] = [t \in TaskNames |-> 0]]
         /\ recordStatus' = [e \in Execs |-> IF b = "local" /\ held(e) THEN "cancelled" ELSE recordStatus[e]]
         /\ workload' = [e \in Execs |-> IF /\ b \in {"docker", "kubernetes"} /\ held(e)
                                            /\ workload[e] # "none" THEN "removed" ELSE workload[e]]
  /\ UNCHANGED <<exec, activeTasks, cancelling, cancels>>

\* ... and the manager its active tasks.
DisposeManager ==
  /\ disposed = Len(Registered) /\ disposed' = 0 /\ activeTasks' = [t \in TaskNames |-> "none"]
  /\ UNCHANGED <<exec, recordOf, recordStatus, workload, cancelling, cancels>>

ExecutorNext ==
  \/ DisposeBackend \/ DisposeManager
  \/ \E t \in TaskNames : \/ Cancel(t) \/ ScheduledCleanup(t)
                          \/ \E b \in Backends : Begin(t, b) \/ GetStatus(t, b)
  \/ \E e \in Execs : \/ LocalReturns(e) \/ DockerStep(e) \/ DockerReturns(e) \/ JobStep(e)
                      \/ JobReturns(e) \/ SshStep(e) \/ SshReturns(e) \/ WorkEnds(e)
  \/ \E c \in cancelling : CancelDone(c)

Spec == Init /\ [][ExecutorNext]_executorVars

-----------------------------------------------------------------------------
(* A task id is never blocked by what has ended: a record that makes execute *)
(* refuse the id, and a task the manager counts as active, have an execution  *)
(* in flight, whatever failed, timed out, was cancelled or asked about.       *)
BlockersAreInFlight ==
  \A t \in TaskNames :
    /\ \A b \in Backends : recordOf[b][t] # 0 /\ Open(recordStatus[recordOf[b][t]]) => recordOf[b][t] \in InFlight
    /\ activeTasks[t] # "none" => \E e \in InFlight : exec[e].task = t

-----------------------------------------------------------------------------
(* What the code does not keep.  manager.ts:77, "Cancel a running task.     *)
(* Delegates to the backend that is running it": a task that runs is active, *)
(* so that cancel finds it (a refused second execution makes it inactive).   *)
RunningTasksAreActive ==
  \A e \in InFlight : Open(recordStatus[e]) /\ recordOf[exec[e].backend][exec[e].task] = e
                      => activeTasks[exec[e].task] # "none"

(* A workload does not outlive the execution that failed.                   *)
FailureStopsTheWork == \A e \in Execs : exec[e].result = "failed" => workload[e] # "running"

(* The record says what the caller was told.                                *)
RecordTellsTheResult ==
  \A e \in Execs : exec[e].result # "none" => recordStatus[e] = exec[e].result
=============================================================================
