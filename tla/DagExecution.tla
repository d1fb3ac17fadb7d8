---------------------------- MODULE DagExecution ----------------------------
(***************************************************************************)
(* One run of a DAG workflow: WorkflowEngine.executeDAG, its executeNode   *)
(* closure, the retry loop around a node and the checkpoint taken after    *)
(* it (packages/core/src/workflow/engine.ts).                              *)
(*                                                                         *)
(* JavaScript runs one callback at a time, so everything the code does     *)
(* between two awaits is one action here, and pc[n] names the await at     *)
(* which the invocation of executeNode that claimed node n is parked:      *)
(*                                                                         *)
(*   idle -> starting -> attempting <-> backoff                            *)
(*                       attempting -> loading -> saving -> publishing     *)
(*                                  -> joining -> done                     *)
(*                       attempting, publishing -> failing -> rejected     *)
(*           starting -> lost     (NODE_STARTED could not be persisted)    *)
(*                                                                         *)
(* An invocation that does not claim its node returns without awaiting     *)
(* anything, so it is part of the action that makes the call.              *)
(*                                                                         *)
(* An operator named Def_Bug is Def with a plausible bug; nothing uses it  *)
(* but the mutation runs that show which property notices.                 *)
(***************************************************************************)
EXTENDS Integers, FiniteSets

CONSTANTS
  Nodes,          \* the ids of dag.nodes
  Graphs,         \* the edge sets the run may be given
  Approvals,      \* the nodes of type 'approval', which are never retried
  MaxRetries,     \* retry.maxRetries of the other nodes
  Checkpointing,  \* is a checkpointStore configured?
  StoreFaults     \* may the event store or the checkpoint store throw?

ASSUME DagAssumption ==
  /\ IsFiniteSet(Nodes)
  /\ Approvals \subseteq Nodes
  /\ MaxRetries \in Nat
  /\ Checkpointing \in BOOLEAN
  /\ StoreFaults \in BOOLEAN

VARIABLES
  edges,      \* dag.edges of this run
  main,       \* the promise of executeDAG: new, running, resolved, rejected
  aborted,    \* abortController.signal.aborted
  claimed,    \* claimedNodes
  completed,  \* completedNodes
  failed,     \* failedNodes
  pc,         \* where the claiming invocation of each node is parked
  attempt,    \* the retry loop's counter for each node
  awaits,     \* the dependents each node waits for in Promise.allSettled
  outputs,    \* the keys of run.context.nodeOutputs
  ckpt,       \* the run's row of the checkpoint table
  loaded      \* the version saveCheckpoint read for each node

vars == <<edges, main, aborted, claimed, completed, failed, pc, attempt,
          awaits, outputs, ckpt, loaded>>

NoCheckpoint == [version |-> 0, nodes |-> {}]

Parked  == {"starting", "attempting", "backoff", "loading", "saving",
            "publishing", "joining", "failing"}
Settled == {"done", "rejected", "lost"}

-----------------------------------------------------------------------------
(* The dependency maps the code builds from dag.edges.                     *)

Deps(n)       == {m \in Nodes : <<m, n>> \in edges}
Dependents(n) == {m \in Nodes : <<n, m>> \in edges}
Roots         == {n \in Nodes : Deps(n) = {}}

ValidEdges == edges \subseteq Nodes \X Nodes

\* hasCircularDependency: some nodes each depend on another of them.
Circular == \E S \in SUBSET Nodes : S # {} /\ \A n \in S : Deps(n) \cap S # {}

\* propagateFailureToDownstream(n): the nodes of open that the recursion
\* reaches from n through nodes of open, i.e. the least set closed under it.
ClosedUnder(S, n, open) ==
  \A m \in S \cup {n} : Dependents(m) \cap open \subseteq S
Downstream_OneLevel(n, open) == Dependents(n) \cap open
Downstream_FailFast(n, open) == open
Downstream(n, open) ==
  {m \in open : \A S \in SUBSET open : ClosedUnder(S, n, open) => m \in S}

-----------------------------------------------------------------------------
Init ==
  /\ edges \in Graphs
  /\ main = "new"
  /\ aborted = FALSE
  /\ claimed = {} /\ completed = {} /\ failed = {}
  /\ pc = [n \in Nodes |-> "idle"]
  /\ attempt = [n \in Nodes |-> 0]
  /\ awaits = [n \in Nodes |-> {}]
  /\ outputs = {}
  /\ ckpt = NoCheckpoint
  /\ loaded = [n \in Nodes |-> 0]

(***************************************************************************)
(* The synchronous part of executeNode for every node of S, called in one  *)
(* turn with these completed nodes.  A node with a failed dependency is    *)
(* failed and so is everything downstream; a node still waiting for a      *)
(* dependency, or claimed already, is left alone; the others are claimed   *)
(* and park on the NODE_STARTED event.  Nothing happens once aborted.      *)
(***************************************************************************)
Doomed(S) == {d \in S \ claimed : ~aborted /\ Deps(d) \cap failed # {}}

Ready_NoDependencyCheck(S) == {d \in S \ claimed : ~aborted}
Ready_NoClaimCheck(S) == {d \in S : /\ ~aborted
                                    /\ Deps(d) \cap failed = {}
                                    /\ Deps(d) \subseteq completed}
Ready(S)  == {d \in S \ claimed : /\ ~aborted
                                  /\ Deps(d) \cap failed = {}
                                  /\ Deps(d) \subseteq completed}

Skipped(S) ==
  LET open == Nodes \ (failed \cup completed)
  IN  Doomed(S) \cup UNION {Downstream(d, open) : d \in Doomed(S)}

ExecuteNodes_ClaimFirst(S, at) ==
  /\ claimed' = claimed \cup S
  /\ failed' = failed \cup Skipped(S)
  /\ pc' = [n \in Nodes |-> IF n \in Ready(S) THEN "starting" ELSE at[n]]

ExecuteNodes(S, at) ==
  /\ claimed' = claimed \cup Ready(S) \cup Skipped(S)
  /\ failed' = failed \cup Skipped(S)
  /\ pc' = [n \in Nodes |-> IF n \in Ready(S) THEN "starting" ELSE at[n]]

\* executeDAG: reject a malformed graph, else start every root.
Start ==
  /\ main = "new"
  /\ IF ValidEdges /\ ~Circular
       THEN main' = "running" /\ ExecuteNodes(Roots, pc)
       ELSE main' = "rejected" /\ UNCHANGED <<claimed, failed, pc>>
  /\ UNCHANGED <<edges, aborted, completed, attempt, awaits, outputs, ckpt,
                 loaded>>

\* The global timeout fires, or cancelWorkflow aborts the controller.
Abort ==
  /\ main \in {"new", "running"} /\ ~aborted
  /\ aborted' = TRUE
  /\ UNCHANGED <<edges, main, claimed, completed, failed, pc, attempt, awaits,
                 outputs, ckpt, loaded>>

\* NODE_STARTED was persisted and the first attempt begins.
Begin(n) ==
  /\ pc[n] = "starting"
  /\ pc' = [pc EXCEPT ![n] = "attempting"]
  /\ UNCHANGED <<edges, main, aborted, claimed, completed, failed, attempt,
                 awaits, outputs, ckpt, loaded>>

\* NODE_STARTED was not persisted: the publish is outside the try block, so
\* the invocation rejects with the node claimed but not failed.
LoseStart(n) ==
  /\ StoreFaults
  /\ pc[n] = "starting"
  /\ pc' = [pc EXCEPT ![n] = "lost"]
  /\ UNCHANGED <<edges, main, aborted, claimed, completed, failed, attempt,
                 awaits, outputs, ckpt, loaded>>

\* The node's agent, or its approver, delivered an output.
Succeed(n) ==
  /\ pc[n] = "attempting"
  /\ outputs' = outputs \cup {n}
  /\ completed' = completed \cup {n}
  /\ pc' = [pc EXCEPT ![n] = IF Checkpointing THEN "loading" ELSE "publishing"]
  /\ UNCHANGED <<edges, main, aborted, claimed, failed, attempt, awaits, ckpt,
                 loaded>>

RetriesLeft_OffByOne(n) == attempt[n] <= MaxRetries
RetriesLeft(n) == attempt[n] < MaxRetries

\* A retryable error before the last attempt: sleep, then try again.
Retry(n) ==
  /\ pc[n] = "attempting" /\ n \notin Approvals
  /\ RetriesLeft(n)
  /\ attempt' = [attempt EXCEPT ![n] = @ + 1]
  /\ pc' = [pc EXCEPT ![n] = "backoff"]
  /\ UNCHANGED <<edges, main, aborted, claimed, completed, failed, awaits,
                 outputs, ckpt, loaded>>

Reattempt(n) ==
  /\ pc[n] = "backoff"
  /\ pc' = [pc EXCEPT ![n] = "attempting"]
  /\ UNCHANGED <<edges, main, aborted, claimed, completed, failed, attempt,
                 awaits, outputs, ckpt, loaded>>

\* executeNode's catch block: the node and everything downstream that has
\* not completed are failed, then NODE_FAILED is published.
CatchError(n) ==
  LET skipped == Downstream(n, Nodes \ (failed \cup {n} \cup completed))
  IN  /\ failed' = failed \cup {n} \cup skipped
      /\ claimed' = claimed \cup skipped
      /\ pc' = [pc EXCEPT ![n] = "failing"]

\* A fatal error, the last attempt's error, a rejection or a timed-out
\* approval leaves executeNodeWithRetry.
Fail(n) ==
  /\ pc[n] = "attempting"
  /\ CatchError(n)
  /\ UNCHANGED <<edges, main, aborted, completed, attempt, awaits, outputs,
                 ckpt, loaded>>

\* saveCheckpoint: read the row, then write the keys of nodeOutputs and the
\* next version over it; an error of the store is swallowed.
LoadCheckpoint(n) ==
  /\ pc[n] = "loading"
  /\ \/ /\ loaded' = [loaded EXCEPT ![n] = ckpt.version]
        /\ pc' = [pc EXCEPT ![n] = "saving"]
     \/ /\ StoreFaults
        /\ pc' = [pc EXCEPT ![n] = "publishing"]
        /\ UNCHANGED loaded
  /\ UNCHANGED <<edges, main, aborted, claimed, completed, failed, attempt,
                 awaits, outputs, ckpt>>

Row_BeforeOutput(n) == [version |-> loaded[n] + 1, nodes |-> outputs \ {n}]
Row_OnlyThisNode(n) == [version |-> loaded[n] + 1, nodes |-> {n}]
Row(n) == [version |-> loaded[n] + 1, nodes |-> outputs]

SaveCheckpoint(n) ==
  /\ pc[n] = "saving"
  /\ \/ ckpt' = Row(n)
     \/ StoreFaults /\ UNCHANGED ckpt
  /\ pc' = [pc EXCEPT ![n] = "publishing"]
  /\ UNCHANGED <<edges, main, aborted, claimed, completed, failed, attempt,
                 awaits, outputs, loaded>>

\* NODE_COMPLETED was persisted: call executeNode on every dependent and wait
\* for the invocations that claimed their node.
TriggerDependents(n) ==
  /\ pc[n] = "publishing"
  /\ ExecuteNodes(Dependents(n), [pc EXCEPT ![n] = "joining"])
  /\ awaits' = [awaits EXCEPT ![n] = Ready(Dependents(n))]
  /\ UNCHANGED <<edges, main, aborted, completed, attempt, outputs, ckpt,
                 loaded>>

\* NODE_COMPLETED was not persisted: the catch block fails a node that is
\* already in completedNodes.
FailCompleted(n) ==
  /\ StoreFaults
  /\ pc[n] = "publishing"
  /\ CatchError(n)
  /\ UNCHANGED <<edges, main, aborted, completed, attempt, awaits, outputs,
                 ckpt, loaded>>

Joined_FireAndForget(n) == TRUE
Joined_AllDependents(n) == \A m \in Dependents(n) : pc[m] \in Settled
Joined(n) == \A m \in awaits[n] : pc[m] \in Settled

\* The awaited dependents have settled, or NODE_FAILED was dealt with.
Settle(n) ==
  /\ \/ /\ pc[n] = "joining"
        /\ Joined(n)
        /\ pc' = [pc EXCEPT ![n] = "done"]
     \/ /\ pc[n] = "failing"
        /\ pc' = [pc EXCEPT ![n] = "rejected"]
  /\ UNCHANGED <<edges, main, aborted, claimed, completed, failed, attempt,
                 awaits, outputs, ckpt, loaded>>

\* Promise.allSettled over the roots is done; failures reject the run.
Finish ==
  /\ main = "running"
  /\ \A n \in Roots : pc[n] \notin Parked
  /\ main' = IF failed # {} THEN "rejected" ELSE "resolved"
  /\ UNCHANGED <<edges, aborted, claimed, completed, failed, pc, attempt,
                 awaits, outputs, ckpt, loaded>>

Answer(n) == Succeed(n) \/ Retry(n) \/ Fail(n)

Bookkeeping(n) ==
  \/ Begin(n) \/ LoseStart(n) \/ Reattempt(n)
  \/ LoadCheckpoint(n) \/ SaveCheckpoint(n)
  \/ TriggerDependents(n) \/ FailCompleted(n) \/ Settle(n)

Next == Start \/ Abort \/ Finish \/ \E n \in Nodes : Answer(n) \/ Bookkeeping(n)

Spec == Init /\ [][Next]_vars

\* The event loop runs every callback that is due, and every agent attempt
\* ends; a human approver need not answer.  The timeout need not fire.
EventLoopFairness ==
  /\ WF_vars(Start) /\ WF_vars(Finish)
  /\ \A n \in Nodes : WF_vars(Bookkeeping(n))
  /\ \A n \in Nodes \ Approvals : WF_vars(Answer(n))

ApproverFairness == \A n \in Approvals : WF_vars(Answer(n))

LoopSpec == Spec /\ EventLoopFairness
FairSpec == LoopSpec /\ ApproverFairness

-----------------------------------------------------------------------------
TypeOK ==
  /\ edges \in Graphs
  /\ main \in {"new", "running", "resolved", "rejected"}
  /\ aborted \in BOOLEAN
  /\ claimed \subseteq Nodes /\ completed \subseteq Nodes
  /\ failed \subseteq Nodes /\ outputs \subseteq Nodes
  /\ pc \in [Nodes -> {"idle"} \cup Parked \cup Settled]
  /\ attempt \in [Nodes -> 0..MaxRetries]
  /\ awaits \in [Nodes -> SUBSET Nodes]
  /\ ckpt \in [version : Nat, nodes : SUBSET Nodes]
  /\ loaded \in [Nodes -> Nat]

(* A node is never started before every node it depends on has completed,  *)
(* whichever of its parents triggered it (executeNode's dependency check). *)
StartsAfterDependencies ==
  \A n \in Nodes : pc[n] # "idle" => Deps(n) \subseteq completed

(* When executeDAG settles, no node is still executing: each invocation is *)
(* awaited by the one that triggered it, back to a root.                   *)
SettlesLast ==
  main \in {"resolved", "rejected"} => \A n \in Nodes : pc[n] \notin Parked

(* A failed node never leaves a dependent pending: each has been failed    *)
(* too, unless it had completed (propagateFailureToDownstream).  It makes  *)
(* executeNode's own "dependency failed" branch unreachable.               *)
FailureReachesDownstream ==
  \A n \in failed : Dependents(n) \subseteq failed \cup completed

(* Failure stays downstream: a node that never ran is failed only because  *)
(* of a failed dependency, so sibling branches are not short-circuited.    *)
FailureStaysDownstream ==
  \A n \in failed : pc[n] = "idle" => Deps(n) \cap failed # {}

(* No node is forgotten: when a run that was not aborted settles, and every *)
(* NODE_STARTED event was persisted, every node has completed or failed,    *)
(* although a node with several parents is left to "another parent" when    *)
(* one of them completes first.                                             *)
NoNodeForgotten ==
  (/\ main \in {"resolved", "rejected"} /\ ValidEdges /\ ~Circular
   /\ ~aborted /\ \A n \in Nodes : pc[n] # "lost")
     => completed \cup failed = Nodes

(* With a checkpoint store that works, a node whose completion was          *)
(* announced is in the saved checkpoint, however the saves interleave.      *)
AnnouncedIsDurable ==
  (Checkpointing /\ ~StoreFaults) =>
    \A n \in Nodes : pc[n] \in {"publishing", "joining", "done"}
                        => n \in ckpt.nodes

(* A checkpoint never loses a node to a concurrent save.                    *)
CheckpointGrows == [][ckpt.nodes \subseteq ckpt'.nodes]_vars

(* The claim is atomic: a node's body begins at most once.                  *)
LaunchedOnce ==
  [][\A n \in Nodes : pc'[n] = "starting" /\ pc[n] # "starting"
                        => pc[n] = "idle" /\ n \notin claimed]_vars

(* executeDAG settles when every agent and approver answers, also when      *)
(* nodes fail, the run is aborted or the stores throw.                      *)
EventuallySettles == <>(main \in {"resolved", "rejected"})

-----------------------------------------------------------------------------
(* Statements of the repository that the code does not keep.                *)

(* engine.ts:385-386: "even if some fail; failures are tracked via          *)
(* failedNodes": a run that was not aborted resolves only if all its nodes  *)
(* completed.                                                               *)
FailuresAreTracked ==
  main = "resolved" /\ ~aborted => completed = Nodes

(* engine.ts:170-171: "abort the workflow when timeout fires so running     *)
(* nodes stop promptly rather than continuing in the background": no        *)
(* attempt begins after the abort.                                          *)
AbortStopsNodes ==
  [][aborted => \A n \in Nodes : pc'[n] = "attempting" => pc[n] = "attempting"]_vars

(* The same comment: an aborted run ends, whatever its nodes wait for.      *)
AbortSettles == aborted ~> main \in {"resolved", "rejected"}

(* engine.ts:198: "If aborted due to timeout, wrap with a descriptive       *)
(* error": a run aborted before its nodes completed is not a success.       *)
AbortedRunRejects == main = "resolved" => completed = Nodes

(* types/workflow.ts:243: "Optimistic locking version (increments on each   *)
(* checkpoint)".                                                            *)
VersionIncrements == [][ckpt'.nodes # ckpt.nodes => ckpt'.version > ckpt.version]_vars
=============================================================================
