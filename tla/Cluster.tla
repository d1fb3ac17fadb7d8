------------------------------ MODULE Cluster ------------------------------
(***************************************************************************)
(* The cluster (packages/cluster/src): the registry of nodes behind its     *)
(* asynchronous lock, the health monitor, the distributor that posts tasks  *)
(* to nodes, and the manager that drains nodes and remembers the tasks of   *)
(* nodes that went offline.                                                 *)
(*                                                                         *)
(* An operation of the registry is queued by its caller, who mostly does    *)
(* not wait, and applied in a later microtask.  The nodes and the network are external: a  *)
(* health check answers or fails, a post answers, fails or times out.       *)
(***************************************************************************)
EXTENDS Integers, Sequences, SequencesExt

CONSTANTS
  Nodes,       \* the node ids register may generate
  Tasks,       \* the ids of the tasks callers submit
  Strategies,  \* the distribution strategies configured over time
  Capacity,    \* maxConcurrentTasks of each node
  Fits,        \* for each task the nodes with the GPUs it needs
  Matches,     \* for each task the number of labels it shares with a node
  MaxLoad,     \* bound on the load a node reports
  MaxPosts,    \* bound on the submissions of one task
  MaxQueue     \* bound on the registry operations in progress

VARIABLES
  members,     \* the registry's nodes, in the order of the Map
  known,       \* the ids generated so far
  nodeStatus,  \* node.status
  load,        \* currentLoad.activeTasks of each node
  turn,        \* RoundRobinStrategy.currentIndex
  strategy,    \* WorkDistributor.strategy
  ops,         \* the registry operation in progress and those behind it
  asked,       \* the nodes whose health check is in flight
  posts,       \* the posts in flight: task, node and number
  submitted,   \* the submissions of each task
  tracked,     \* activeTasksByNode
  orphaned,    \* orphanedTasks
  drain        \* the last drainNode of each node

registry == <<members, known, nodeStatus, load>>
work     == <<turn, strategy, posts, submitted, tracked>>
clusterVars == <<registry, ops, asked, work, orphaned, drain>>

Member(n) == n \in ToSet(members)

Init ==
  /\ members = <<>> /\ known = {} /\ nodeStatus = [n \in Nodes |-> "offline"]
  /\ load = [n \in Nodes |-> 0] /\ turn = 0 /\ strategy \in Strategies
  /\ ops = <<>> /\ asked = {} /\ posts = {} /\ submitted = [t \in Tasks |-> 0]
  /\ tracked = [n \in Nodes |-> {}] /\ orphaned = [n \in Nodes |-> {}]
  /\ drain = [n \in Nodes |-> "none"]

-----------------------------------------------------------------------------
(* The registry.  The first of ops holds the lock; the others wait in order. *)
Op(what, n, arg) == [what |-> what, node |-> n, arg |-> arg]

\* Applying takes microtasks only: no timer and no answer comes in between.
Idle == ops = <<>>

Calls(list) == Len(ops) + Len(list) <= MaxQueue /\ ops' = ops \o list

Register ==
  /\ \E n \in Nodes \ known : Calls(<<Op("register", n, 0)>>) /\ known' = known \cup {n}
  /\ UNCHANGED <<members, nodeStatus, load, asked, work, orphaned, drain>>

Deregister(n) ==
  /\ Member(n) /\ Calls(<<Op("deregister", n, 0)>>)
  /\ UNCHANGED <<registry, asked, work, orphaned, drain>>

Apply_Resurrects(op) ==
  LET n == op.node IN
  /\ members' = CASE op.what = "deregister" -> RemoveFirst(members, n)
                  [] Member(n)              -> members
                  [] OTHER                  -> Append(members, n)
  /\ nodeStatus' = [nodeStatus EXCEPT ![n] = IF op.what = "status" THEN op.arg ELSE "online"]
  /\ load' = load

Apply(op) ==
  LET n == op.node IN
  /\ members' = CASE op.what = "register"   -> Append(members, n)
                  [] op.what = "deregister" -> RemoveFirst(members, n)
                  [] OTHER                  -> members
  /\ nodeStatus' = CASE op.what = "register" -> [nodeStatus EXCEPT ![n] = "online"]
                     [] op.what = "status" /\ Member(n) -> [nodeStatus EXCEPT ![n] = op.arg]
                     [] OTHER -> nodeStatus
  /\ load' = IF op.what = "heartbeat" /\ Member(n) THEN [load EXCEPT ![n] = op.arg] ELSE load

\* The operation ends and hands the lock to the next one.
Release ==
  /\ ops # <<>> /\ Apply(Head(ops)) /\ ops' = Tail(ops)
  /\ UNCHANGED <<known, asked, work, orphaned, drain>>

-----------------------------------------------------------------------------
(* The health monitor.  What it does with an answer depends on the status   *)
(* at the time of the answer.                                               *)
CheckAllNodes ==
  /\ Idle /\ asked = {} /\ asked' = {n \in ToSet(members) : nodeStatus[n] # "maintenance"}
  /\ UNCHANGED <<registry, ops, work, orphaned, drain>>

Healthy(n) ==
  /\ Idle /\ n \in asked /\ asked' = asked \ {n}
  /\ \E l \in 0..MaxLoad :
       Calls(<<Op("heartbeat", n, l)>> \o
             IF nodeStatus[n] = "offline" THEN <<Op("status", n, "online")>> ELSE <<>>)
  /\ UNCHANGED <<registry, work, orphaned, drain>>

\* handleNodeOffline keeps the tasks in flight for their callers.
MarkNodeOffline(n) ==
  IF Member(n) /\ nodeStatus[n] # "offline"
  THEN /\ Calls(<<Op("status", n, "offline")>>)
       /\ orphaned' = IF tracked[n] = {} THEN orphaned ELSE [orphaned EXCEPT ![n] = tracked[n]]
  ELSE UNCHANGED <<ops, orphaned>>

Unhealthy(n) ==
  /\ Idle /\ n \in asked /\ asked' = asked \ {n}
  /\ MarkNodeOffline(n)
  /\ UNCHANGED <<registry, work, drain>>

-----------------------------------------------------------------------------
(* The strategies choose among the healthy nodes ns, in registration order.  *)
GetHealthy == SelectSeq(members, LAMBDA n : nodeStatus[n] = "online")

\* The first of ns that no other beats; none when none has a capacity.
Best(ns, Beats(_, _)) ==
  {n \in ToSet(ns) : /\ \A m \in ToSet(ns) : ~Beats(m, n)
                     /\ \A i, j \in DOMAIN ns : ns[i] = n /\ j < i => Beats(n, ns[j])}

LessLoaded(m, n) == load[m] * Capacity[n] < load[n] * Capacity[m]
LeastLoaded(ns)  == Best(SelectSeq(ns, LAMBDA n : Capacity[n] > 0), LessLoaded)

\* The scores weigh the processor and the memory, which are data: any of the fitting nodes.
ResourceAware(ns, t) == ToSet(ns) \cap Fits[t]

LabelMatch(ns, t) ==
  LET matching == SelectSeq(ns, LAMBDA n : Matches[t][n] > 0)
      Better(m, n) == \/ Matches[t][m] > Matches[t][n]
                      \/ Matches[t][m] = Matches[t][n] /\ load[m] < load[n]
      Top == {n \in ToSet(matching) : \A m \in ToSet(matching) : Matches[t][m] <= Matches[t][n]}
  IN  IF matching = <<>> THEN LeastLoaded(ns)
      ELSE Best(SelectSeq(matching, LAMBDA n : n \in Top), Better)

SelectNode(ns, t) ==
  CASE strategy = "round-robin"    -> {ns[(turn % Len(ns)) + 1]}
    [] strategy = "least-loaded"   -> LeastLoaded(ns)
    [] strategy = "resource-aware" -> ResourceAware(ns, t)
    [] strategy = "label-match"    -> LabelMatch(ns, t)

SetStrategy ==
  /\ strategy' \in Strategies \ {strategy} /\ turn' = 0
  /\ UNCHANGED <<registry, ops, asked, posts, submitted, tracked, orphaned, drain>>

(* distribute: a task may be submitted again, whatever became of it.        *)
Distribute(t) ==
  LET ns == GetHealthy IN
  /\ submitted[t] < MaxPosts /\ ns # <<>>
  /\ \E n \in SelectNode(ns, t) :
       /\ tracked' = [tracked EXCEPT ![n] = @ \cup {t}]
       /\ posts' = posts \cup {[task |-> t, node |-> n, no |-> submitted[t]]}
  /\ submitted' = [submitted EXCEPT ![t] = @ + 1]
  /\ turn' = IF strategy = "round-robin" THEN (turn % Len(ns)) + 1 ELSE turn
  /\ UNCHANGED <<registry, strategy, ops, asked, orphaned, drain>>

(* The post answers, is rejected or times out: finally, it is untracked.    *)
Posted_KeepsFailed(p) ==
  /\ Idle /\ p \in posts /\ posts' = posts \ {p}
  /\ \/ tracked' = [tracked EXCEPT ![p.node] = @ \ {p.task}]
     \/ UNCHANGED tracked
  /\ UNCHANGED <<registry, ops, asked, turn, strategy, submitted, orphaned, drain>>

Posted(p) ==
  /\ Idle /\ p \in posts /\ posts' = posts \ {p}
  /\ tracked' = [tracked EXCEPT ![p.node] = @ \ {p.task}]
  /\ UNCHANGED <<registry, ops, asked, turn, strategy, submitted, orphaned, drain>>

-----------------------------------------------------------------------------
(* drainNode: it polls, until nothing is tracked or it has waited enough.   *)
DrainNode(n) ==
  /\ Member(n) /\ drain[n] = "none"
  /\ Calls(<<Op("status", n, "draining")>>)
  /\ drain' = [drain EXCEPT ![n] = IF tracked[n] = {} THEN "drained" ELSE "waiting"]
  /\ UNCHANGED <<registry, asked, work, orphaned>>

PollDrain(n) ==
  /\ Idle /\ drain[n] = "waiting"
  /\ drain' = [drain EXCEPT ![n] = IF tracked[n] = {} THEN "drained" ELSE "gaveUp"]
  /\ UNCHANGED <<registry, ops, asked, work, orphaned>>

ClusterNext ==
  \/ Register \/ Release \/ CheckAllNodes \/ SetStrategy
  \/ \E n \in Nodes : Deregister(n) \/ Healthy(n) \/ Unhealthy(n) \/ DrainNode(n) \/ PollDrain(n)
  \/ \E t \in Tasks : Distribute(t)
  \/ \E p \in posts : Posted(p)

Spec == Init /\ [][ClusterNext]_clusterVars

-----------------------------------------------------------------------------
TypeOK ==
  /\ IsInjective(members) /\ ToSet(members) \subseteq known /\ known \subseteq Nodes
  /\ nodeStatus \in [Nodes -> {"online", "offline", "draining"}]
  /\ load \in [Nodes -> 0..MaxLoad] /\ turn \in Nat /\ strategy \in Strategies
  /\ Len(ops) <= MaxQueue /\ asked \subseteq known
  /\ tracked \in [Nodes -> SUBSET Tasks] /\ orphaned \in [Nodes -> SUBSET Tasks]
  /\ drain \in [Nodes -> {"none", "waiting", "drained", "gaveUp"}]

(* What is tracked on a node is really in flight there, whatever was         *)
(* submitted twice, failed or outlived its node: a drain never waits for,    *)
(* and an outage never reports, a task that has gone.                       *)
TrackedIsInFlight ==
  \A n \in Nodes : tracked[n] \subseteq {p.task : p \in {q \in posts : q.node = n}}

(* A node that was deregistered does not come back through the answer of a  *)
(* health check or a drain that was under way.                              *)
GoneStaysGone ==
  [][\A n \in Nodes : ~Member(n) /\ (\A i \in DOMAIN ops : ops[i].what # "register" \/ ops[i].node # n)
                      /\ n \in known => ~Member(n)']_clusterVars

-----------------------------------------------------------------------------
(* Statements of the repository that the code does not keep.                *)

(* docs/architecture.md:629, "Node draining gracefully completes in-flight  *)
(* tasks before removal": when drainNode returns well, nothing is in flight. *)
DrainCompletes ==
  \A n \in Nodes : drain[n] = "drained" /\ nodeStatus[n] = "draining" => \A p \in posts : p.node # n

(* manager.ts:202, "Preserve the active task list so callers can retrieve   *)
(* and re-submit them": a second outage does not lose the list of the first. *)
OrphansArePreserved == [][\A n \in Nodes : orphaned[n] \subseteq orphaned'[n]]_clusterVars
=============================================================================
