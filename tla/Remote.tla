------------------------------- MODULE Remote -------------------------------
(***************************************************************************)
(* The components that talk to other processes, composed.  They share no     *)
(* state: `system' says which of them this behaviour is about, so that the   *)
(* states to explore are the sum and not the product of theirs.             *)
(***************************************************************************)
EXTENDS Naturals

CONSTANTS
  Nodes, Tasks, Strategies, Capacity, Fits, Matches, MaxLoad, MaxPosts, MaxQueue,  \* Cluster.tla
  TaskIds, Subscribers, MaxTasks, MaxRequests,                                     \* A2A.tla
  Callers, MaxConcurrentCalls, Transports, MaxChildren,                            \* McpSession.tla
  TaskNames, Registered, MaxExecutions, MaxCancels                                 \* Executor.tla

ASSUME NoneAssumption  == "none" \notin TaskIds
ASSUME SlotsAssumption == MaxConcurrentCalls \in Nat

VARIABLES system,
  members, known, nodeStatus, load, turn, strategy, ops, asked, posts, submitted, tracked, orphaned, drain,
  up, table, taskHandler, handlers, sseClients, unheard, stream, lines, shown, requests, nextRequestId,
  transport, connected, child, spawned, life, pending, pcCall, callQueue, activeCalls, served,
  exec, recordOf, recordStatus, workload, activeTasks, cancelling, cancels, disposed

clusterVars == <<members, known, nodeStatus, load, turn, strategy, ops, asked, posts, submitted, tracked,
                 orphaned, drain>>
a2aVars == <<up, table, taskHandler, handlers, sseClients, unheard, stream, lines, shown, requests, nextRequestId>>
mcpVars == <<transport, connected, child, spawned, life, pending, pcCall, callQueue, activeCalls, served>>
executorVars == <<exec, recordOf, recordStatus, workload, activeTasks, cancelling, cancels, disposed>>

Cl == INSTANCE Cluster
A  == INSTANCE A2A
M  == INSTANCE McpSession
E  == INSTANCE Executor

Init == /\ system \in {"cluster", "a2a", "mcp", "executor"}
        /\ Cl!Init /\ A!Init /\ M!Init /\ E!Init
        /\ system # "cluster" => strategy = CHOOSE s \in Strategies : TRUE
        /\ system # "mcp" => transport = CHOOSE t \in Transports : TRUE

Next ==
  /\ UNCHANGED system
  /\ \/ system = "cluster" /\ Cl!ClusterNext /\ UNCHANGED <<a2aVars, mcpVars, executorVars>>
     \/ system = "a2a" /\ A!A2ANext /\ UNCHANGED <<clusterVars, mcpVars, executorVars>>
     \/ system = "mcp" /\ M!McpNext /\ UNCHANGED <<clusterVars, a2aVars, executorVars>>
     \/ system = "executor" /\ E!ExecutorNext /\ UNCHANGED <<clusterVars, a2aVars, mcpVars>>

Spec == Init /\ [][Next]_<<system, clusterVars, a2aVars, mcpVars, executorVars>>

-----------------------------------------------------------------------------
(* Cluster.tla: what is tracked on a node is in flight there. *)
TrackedIsInFlight == Cl!TrackedIsInFlight
(* Cluster.tla: a node that was deregistered does not come back. *)
GoneStaysGone == Cl!GoneStaysGone
(* A2A.tla: the last event of a subscriber carries the status of its task. *)
SubscribersSeeTheLast == A!SubscribersSeeTheLast
(* A2A.tla: a task shown as working has a handler at work, or was sent while none was set. *)
WorkingIsWorked == A!WorkingIsWorked
(* McpSession.tla: no call waits beside a free slot. *)
NoIdleSlot == M!NoIdleSlot
(* Executor.tla: what blocks a task id, or counts as active, is in flight. *)
BlockersAreInFlight == E!BlockersAreInFlight
=============================================================================
