------------------------------ MODULE DagPromise ------------------------------
(***************************************************************************)
(* What WorkflowEngine.executeDAG promises of a run, without its promises,     *)
(* claims, retries, events and checkpoints: nodes are worked on once what     *)
(* they depend on has completed, a failure takes everything downstream with    *)
(* it and nothing else, and the outcome is settled after all the work.        *)
(***************************************************************************)
EXTENDS FiniteSets

CONSTANTS Nodes, Graphs

VARIABLES
  graph,     \* the edges
  state,     \* of each node: waiting, working, completed, failed or lost
  busy,      \* the nodes whose invocation has not settled
  outcome    \* of the run: new, open, resolved or rejected

promiseVars == <<graph, state, busy, outcome>>

Init ==
  /\ graph \in Graphs /\ state = [n \in Nodes |-> "waiting"] /\ busy = {} /\ outcome = "new"

Prerequisites(n) == {m \in Nodes : <<m, n>> \in graph}
In(status) == {n \in Nodes : state[n] = status}

\* Every node is before those that depend on it, and every edge joins two nodes.
WellFormed ==
  /\ graph \subseteq Nodes \X Nodes
  /\ \A S \in SUBSET Nodes : S # {} => \E n \in S : Prerequisites(n) \cap S = {}

Launch(L) ==
  /\ L \subseteq In("waiting") /\ \A n \in L : Prerequisites(n) \subseteq In("completed")
  /\ state' = [n \in Nodes |-> IF n \in L THEN "working" ELSE state[n]]
  /\ busy' = busy \cup L

Open ==
  /\ outcome = "new"
  /\ IF WellFormed THEN outcome' = "open" /\ \E L \in SUBSET Nodes : Launch(L)
     ELSE outcome' = "rejected" /\ UNCHANGED <<state, busy>>
  /\ UNCHANGED graph

GoOn == outcome = "open" /\ (\E L \in SUBSET Nodes : Launch(L)) /\ UNCHANGED <<graph, outcome>>

\* A node completes, or its start is lost and its invocation with it.
Complete(n) ==
  /\ state[n] = "working" /\ state' = [state EXCEPT ![n] = "completed"]
  /\ UNCHANGED <<graph, busy, outcome>>

Lose(n) ==
  /\ state[n] = "working" /\ state' = [state EXCEPT ![n] = "lost"] /\ busy' = busy \ {n}
  /\ UNCHANGED <<graph, outcome>>

\* A node fails, completed or not, and with it the nodes D: each because of one it depends on,
\* and none that has to be there is missing.
Fail(n, D) ==
  LET dead == In("failed") \cup {n} \cup D IN
  /\ n \in busy /\ state[n] \in {"working", "completed", "failed"}
  /\ D \cap In("completed") = {}
  /\ \A d \in D : Prerequisites(d) \cap dead # {}
  /\ \A d \in Nodes : Prerequisites(d) \cap dead # {} => d \in dead \cup In("completed")
  /\ state' = [m \in Nodes |-> IF m \in dead THEN "failed" ELSE state[m]]
  /\ UNCHANGED <<graph, busy, outcome>>

Leave(n) ==
  /\ n \in busy /\ state[n] # "working" /\ busy' = busy \ {n}
  /\ UNCHANGED <<graph, state, outcome>>

Settle ==
  /\ outcome = "open" /\ busy = {}
  /\ outcome' = IF In("failed") = {} THEN "resolved" ELSE "rejected"
  /\ UNCHANGED <<graph, state, busy>>

Next ==
  \/ Open \/ GoOn \/ Settle
  \/ \E n \in Nodes : Complete(n) \/ Lose(n) \/ Leave(n) \/ \E D \in SUBSET Nodes : Fail(n, D)

Spec == Init /\ [][Next]_promiseVars
=============================================================================
