------------------------- MODULE DagExecutionProofs -------------------------
(***************************************************************************)
(* The safety invariants of DagExecution, for every set of nodes, every    *)
(* graph, any number of retries, with and without store failures.          *)
(*                                                                         *)
(* None of them is inductive alone.  IndInv adds what the closures rely on *)
(* without saying so: how pc, claimedNodes, completedNodes and failedNodes *)
(* determine each other (Bookkept), that every parked invocation is a root *)
(* or is awaited by a joining parent (Awaited), and that a node nobody has *)
(* claimed still has a dependency that will trigger it (Pending).  The two *)
(* end-of-run invariants follow without induction on the graph: were a     *)
(* node parked or forgotten, the nodes like it would each depend on        *)
(* another of them, which ~Circular excludes.                              *)
(*                                                                         *)
(* Then, of DagResume, what a checkpoint row holds through crashes and      *)
(* resumed runs, and that DagExecution implements DagPromise under the       *)
(* refinement mapping of MCDagExecution.                                    *)
(***************************************************************************)
EXTENDS MCDagExecution, DagResume, TLAPS

Unannounced == {"loading", "saving", "publishing"}
Over == {"resolved", "rejected"}

Bookkept ==
  /\ \A n \in Nodes :
       /\ pc[n] # "idle" => n \in claimed
       /\ n \in claimed /\ pc[n] = "idle" => n \in failed
       /\ n \in completed => pc[n] \in Unannounced
                                       \cup {"joining", "failing"} \cup Settled
       /\ pc[n] \in Unannounced \cup {"joining", "done"} => n \in completed
       /\ pc[n] \in {"failing", "rejected"} => n \in failed
       /\ n \in failed => n \in claimed
       /\ n \in completed => n \in claimed /\ pc[n] # "lost"
  /\ main = "new" => /\ claimed = {}
                     /\ \A n \in Nodes : pc[n] = "idle"
  /\ main = "running" => ValidEdges /\ ~Circular

Awaited ==
  \A n \in Nodes :
    pc[n] \in Parked =>
      n \in Roots \/ \E m \in Deps(n) : pc[m] = "joining" /\ n \in awaits[m]

Pending ==
  main = "running" /\ ~aborted =>
    \A n \in Nodes : pc[n] = "idle" /\ n \notin failed =>
      \E m \in Deps(n) : m \notin completed \/ pc[m] \in Unannounced

IndInv ==
  /\ TypeOK
  /\ Bookkept
  /\ StartsAfterDependencies
  /\ FailureReachesDownstream
  /\ FailureStaysDownstream
  /\ Awaited
  /\ Pending
  /\ SettlesLast
  /\ NoNodeForgotten

-----------------------------------------------------------------------------
(* What propagateFailureToDownstream returns: a set of open nodes, closed   *)
(* under the dependents that are open, and nothing that is not reached.     *)
LEMMA DownstreamClosed ==
  ASSUME NEW n \in Nodes, NEW open \in SUBSET Nodes
  PROVE  /\ Downstream(n, open) \subseteq open
         /\ ClosedUnder(Downstream(n, open), n, open)
<1> DEFINE D == Downstream(n, open)
<1>1. D \subseteq open
  BY DEF Downstream
<1>2. ASSUME NEW m \in D \cup {n}, NEW d \in Dependents(m) \cap open
      PROVE  d \in D
  <2>1. ASSUME NEW S \in SUBSET open, ClosedUnder(S, n, open)
        PROVE  d \in S
    <3>1. m \in S \cup {n}
      BY <2>1 DEF Downstream
    <3>2. QED
      BY <3>1, <2>1 DEF ClosedUnder
  <2>2. QED
    BY <2>1 DEF Downstream
<1>3. QED
  BY <1>1, <1>2 DEF ClosedUnder

LEMMA DownstreamReached ==
  ASSUME NEW n \in Nodes, NEW open \in SUBSET Nodes,
         NEW d \in Downstream(n, open)
  PROVE  Deps(d) \cap (Downstream(n, open) \cup {n}) # {}
<1> DEFINE D == Downstream(n, open)
<1>0. D \subseteq open /\ ClosedUnder(D, n, open)
  BY DownstreamClosed
<1>1. SUFFICES ASSUME Deps(d) \cap (D \cup {n}) = {}
               PROVE  FALSE
  OBVIOUS
<1>2. D \ {d} \in SUBSET open
  BY <1>0
<1>3. ClosedUnder(D \ {d}, n, open)
  <2>1. ASSUME NEW m \in (D \ {d}) \cup {n}, NEW x \in Dependents(m) \cap open
        PROVE  x \in D \ {d}
    <3>1. x \in D
      BY <1>0 DEF ClosedUnder
    <3>2. m \in Nodes
      BY <1>0
    <3>3. x # d
      BY <3>2, <1>1 DEF Deps, Dependents
    <3>4. QED
      BY <3>1, <3>3
  <2>2. QED
    BY <2>1 DEF ClosedUnder
<1>4. d \in D \ {d}
  BY <1>2, <1>3 DEF Downstream
<1>5. QED
  BY <1>4

-----------------------------------------------------------------------------
(* Propagation has always been there first: the branch of executeNode that  *)
(* fails a node because of a failed dependency never finds one unclaimed.   *)
LEMMA NothingSkipped ==
  ASSUME Bookkept, FailureReachesDownstream, NEW S \in SUBSET Nodes
  PROVE  Doomed(S) = {} /\ Skipped(S) = {}
<1>1. Doomed(S) = {}
  BY DEF Doomed, Bookkept, FailureReachesDownstream, Deps, Dependents
<1>2. QED
  BY <1>1 DEF Skipped

(* The circularity argument: a set of nodes each of which depends on        *)
(* another of them contradicts the check made before the roots start.       *)
LEMMA NoCircle ==
  ASSUME ~Circular, NEW S \in SUBSET Nodes,
         \A n \in S : Deps(n) \cap S # {}
  PROVE  S = {}
BY DEF Circular

LEMMA InitInv == Init => IndInv
<1> SUFFICES ASSUME Init PROVE IndInv
  OBVIOUS
<1> USE DagAssumption DEF Init
<1>1. TypeOK
  <2>1. ckpt \in [version : Nat, nodes : SUBSET Nodes]
    BY DEF NoCheckpoint
  <2>2. pc \in [Nodes -> {"idle"} \cup Parked \cup Settled]
    OBVIOUS
  <2>3. attempt \in [Nodes -> 0..MaxRetries] /\ loaded \in [Nodes -> Nat]
    OBVIOUS
  <2>4. awaits \in [Nodes -> SUBSET Nodes]
    OBVIOUS
  <2>5. edges \in Graphs /\ main = "new" /\ aborted = FALSE
        /\ claimed = {} /\ completed = {} /\ failed = {} /\ outputs = {}
    OBVIOUS
  <2>6. QED
    BY ONLY <2>1, <2>2, <2>3, <2>4, <2>5 DEF TypeOK
<1>2. Bookkept
  BY DEF Bookkept, Unannounced, Settled
<1>3. StartsAfterDependencies /\ FailureReachesDownstream
      /\ FailureStaysDownstream /\ Awaited /\ Pending
  BY DEF StartsAfterDependencies, FailureReachesDownstream,
         FailureStaysDownstream, Awaited, Pending, Parked
<1>4. SettlesLast /\ NoNodeForgotten
  BY DEF SettlesLast, NoNodeForgotten
<1>5. QED
  BY <1>1, <1>2, <1>3, <1>4 DEF IndInv

LEMMA TypeOKStep == TypeOK /\ [Next]_vars => TypeOK'
<1> SUFFICES ASSUME TypeOK, [Next]_vars PROVE TypeOK'
  OBVIOUS
<1> USE DagAssumption DEF TypeOK, Parked, Settled
<1>1. \A S \in SUBSET Nodes : Ready(S) \subseteq Nodes /\ Skipped(S) \subseteq Nodes
  BY DEF Ready, Skipped, Doomed, Downstream
<1>2. \A n \in Nodes : Dependents(n) \subseteq Nodes
  BY DEF Dependents
<1>3. CASE Start
  BY <1>1, <1>3 DEF Start, ExecuteNodes, Roots
<1>4. CASE Abort
  BY <1>4 DEF Abort
<1>5. CASE Finish
  BY <1>5 DEF Finish
<1>6. ASSUME NEW n \in Nodes, Answer(n)
      PROVE  TypeOK'
  <2>1. CASE Succeed(n)
    BY <2>1 DEF Succeed
  <2>2. CASE Retry(n)
    BY <2>2 DEF Retry, RetriesLeft
  <2>3. CASE Fail(n)
    BY <2>3 DEF Fail, CatchError, Downstream
  <2>4. QED
    BY <1>6, <2>1, <2>2, <2>3 DEF Answer
<1>7. ASSUME NEW n \in Nodes, Bookkeeping(n)
      PROVE  TypeOK'
  <2>1. CASE Begin(n) \/ LoseStart(n) \/ Reattempt(n) \/ Settle(n)
    BY <2>1 DEF Begin, LoseStart, Reattempt, Settle
  <2>2. CASE LoadCheckpoint(n)
    BY <2>2 DEF LoadCheckpoint
  <2>3. CASE SaveCheckpoint(n)
    BY <2>3 DEF SaveCheckpoint, Row
  <2>4. CASE TriggerDependents(n)
    BY <2>4, <1>1, <1>2 DEF TriggerDependents, ExecuteNodes
  <2>5. CASE FailCompleted(n)
    BY <2>5 DEF FailCompleted, CatchError, Downstream
  <2>6. QED
    BY <1>7, <2>1, <2>2, <2>3, <2>4, <2>5 DEF Bookkeeping
<1>8. CASE UNCHANGED vars
  BY <1>8 DEF vars
<1>9. QED
  BY <1>3, <1>4, <1>5, <1>6, <1>7, <1>8 DEF Next

(* What a call of executeNode does on the nodes of S when nothing is        *)
(* skipped: it claims and parks the ready ones.                             *)
LEMMA ExecuteNodesEffect ==
  ASSUME Bookkept, FailureReachesDownstream, NEW S \in SUBSET Nodes, NEW at,
         ExecuteNodes(S, at)
  PROVE  /\ claimed' = claimed \cup Ready(S)
         /\ failed' = failed
         /\ pc' = [n \in Nodes |-> IF n \in Ready(S) THEN "starting" ELSE at[n]]
BY NothingSkipped DEF ExecuteNodes

(* The steps that only move the claiming invocation of n from one await to  *)
(* another, neither of them the publish of NODE_COMPLETED.                  *)
QuietStep(n) == Begin(n) \/ LoseStart(n) \/ Retry(n) \/ Reattempt(n)
                \/ LoadCheckpoint(n) \/ SaveCheckpoint(n) \/ Settle(n)

ErrorStep(n) == Fail(n) \/ FailCompleted(n)

LEMMA NextCases ==
  ASSUME Next
  PROVE  \/ Start \/ Abort \/ Finish
         \/ \E n \in Nodes : \/ QuietStep(n) \/ ErrorStep(n)
                             \/ Succeed(n) \/ TriggerDependents(n)
BY DEF Next, Answer, Bookkeeping, QuietStep, ErrorStep

LEMMA QuietEffect ==
  ASSUME TypeOK, Bookkept, NEW n \in Nodes, QuietStep(n)
  PROVE  /\ UNCHANGED <<edges, main, aborted, claimed, completed, failed, awaits>>
         /\ \E to \in Parked \cup Settled :
              /\ pc' = [pc EXCEPT ![n] = to]
              /\ pc[n] \in Parked
              /\ (pc[n] \in Unannounced) => to \in Unannounced
              /\ to \in Unannounced \cup {"joining", "done"} => n \in completed
              /\ to \in {"failing", "rejected"} => n \in failed
              /\ n \in completed => to \in Unannounced
                                       \cup {"joining", "failing", "done", "rejected"}
              /\ pc[n] = "joining" => \A m \in awaits[n] : pc[m] \in Settled
              /\ to # "joining"
<1> USE DEF Parked, Settled, Unannounced
<1>1. CASE Begin(n) \/ LoseStart(n) \/ Reattempt(n)
  BY <1>1 DEF Begin, LoseStart, Reattempt, Bookkept
<1>2. CASE Retry(n)
  BY <1>2 DEF Retry, Bookkept
<1>3. CASE LoadCheckpoint(n)
  BY <1>3 DEF LoadCheckpoint, Bookkept
<1>4. CASE SaveCheckpoint(n)
  BY <1>4 DEF SaveCheckpoint, Bookkept
<1>5. CASE Settle(n)
  BY <1>5 DEF Settle, Joined, Bookkept
<1>6. QED
  BY <1>1, <1>2, <1>3, <1>4, <1>5 DEF QuietStep

LEMMA ErrorMove ==
  ASSUME TypeOK, NEW n \in Nodes, ErrorStep(n)
  PROVE  /\ UNCHANGED <<edges, main, aborted, completed, awaits>>
         /\ pc[n] \in {"attempting", "publishing"}
         /\ pc' = [pc EXCEPT ![n] = "failing"]
BY DEF ErrorStep, Fail, FailCompleted, CatchError

LEMMA ErrorEffect ==
  ASSUME TypeOK, NEW n \in Nodes, ErrorStep(n)
  PROVE  \E D \in SUBSET (Nodes \ (failed \cup {n} \cup completed)) :
           /\ failed' = failed \cup {n} \cup D
           /\ claimed' = claimed \cup D
           /\ ClosedUnder(D, n, Nodes \ (failed \cup {n} \cup completed))
           /\ \A d \in D : Deps(d) \cap (D \cup {n}) # {}
<1> DEFINE open == Nodes \ (failed \cup {n} \cup completed)
<1>1. open \in SUBSET Nodes
  OBVIOUS
<1>2. CatchError(n)
  BY DEF ErrorStep, Fail, FailCompleted
<1>3. QED
  BY <1>1, <1>2, DownstreamClosed, DownstreamReached DEF CatchError

(* The graph of a run never changes.                                        *)
LEMMA GraphFixed ==
  ASSUME edges' = edges
  PROVE  /\ \A n : Deps(n)' = Deps(n) /\ Dependents(n)' = Dependents(n)
         /\ Roots' = Roots
         /\ ValidEdges' = ValidEdges
         /\ Circular' = Circular
<1>1. \A n : Deps(n)' = Deps(n) /\ Dependents(n)' = Dependents(n)
  BY DEF Deps, Dependents
<1>2. Roots' = Roots
  BY <1>1 DEF Roots
<1>3. ValidEdges' = ValidEdges
  BY DEF ValidEdges
<1>4. Circular' = Circular
  BY <1>1 DEF Circular
<1>5. QED
  BY <1>1, <1>2, <1>3, <1>4

-----------------------------------------------------------------------------
(* The calls that start nodes, in one shape for the lemmas below.           *)
LEMMA StartEffect ==
  ASSUME IndInv, Start, ValidEdges /\ ~Circular
  PROVE  /\ claimed' = claimed \cup Ready(Roots) /\ failed' = failed
         /\ pc' = [n \in Nodes |-> IF n \in Ready(Roots) THEN "starting" ELSE pc[n]]
         /\ main' = "running"
         /\ UNCHANGED <<edges, aborted, completed, awaits>>
<1>1. Roots \in SUBSET Nodes
  BY DEF Roots
<1>2. QED
  BY <1>1, ExecuteNodesEffect DEF Start, IndInv

LEMMA TriggerEffect ==
  ASSUME IndInv, NEW n \in Nodes, TriggerDependents(n)
  PROVE  LET go == Ready(Dependents(n))
         IN  /\ claimed' = claimed \cup go /\ failed' = failed
             /\ pc' = [x \in Nodes |-> IF x \in go THEN "starting"
                                       ELSE IF x = n THEN "joining" ELSE pc[x]]
             /\ awaits' = [awaits EXCEPT ![n] = go]
             /\ pc[n] = "publishing" /\ n \notin go /\ n \in completed
             /\ UNCHANGED <<edges, main, aborted, completed>>
<1>1. Dependents(n) \in SUBSET Nodes
  BY DEF Dependents
<1>2. ExecuteNodes(Dependents(n), [pc EXCEPT ![n] = "joining"])
  BY DEF TriggerDependents
<1>3. /\ claimed' = claimed \cup Ready(Dependents(n)) /\ failed' = failed
      /\ pc' = [x \in Nodes |-> IF x \in Ready(Dependents(n)) THEN "starting"
                                ELSE [pc EXCEPT ![n] = "joining"][x]]
  BY <1>1, <1>2, ExecuteNodesEffect DEF IndInv
<1>4. pc[n] = "publishing" /\ n \in claimed /\ n \in completed
  BY DEF TriggerDependents, IndInv, Bookkept, Unannounced
<1>5. n \notin Ready(Dependents(n))
  BY <1>4 DEF Ready
<1>6. QED
  BY <1>3, <1>4, <1>5 DEF TriggerDependents, IndInv, TypeOK

LEMMA BookkeptStep == IndInv /\ [Next]_vars => Bookkept'
<1> SUFFICES ASSUME IndInv, [Next]_vars PROVE Bookkept'
  OBVIOUS
<1> USE DEF Unannounced, Parked, Settled
<1>0. TypeOK /\ Bookkept
  BY DEF IndInv
<1> edges' = edges => ValidEdges' = ValidEdges /\ Circular' = Circular
  BY GraphFixed
<1>1. CASE UNCHANGED vars
  BY <1>0, <1>1 DEF vars, Bookkept
<1>2. CASE Start /\ ValidEdges /\ ~Circular
  <2>1. \A n \in Nodes : pc'[n] # "idle" => pc'[n] = "starting" /\ n \in claimed'
    BY <1>0, <1>2, StartEffect DEF Bookkept, Start
  <2>2. \A n \in Nodes : n \notin completed /\ n \notin failed
                         /\ (n \in claimed' => pc'[n] = "starting")
    BY <1>0, <1>2, StartEffect DEF Bookkept, Start
  <2>3. main' = "running" /\ completed' = completed /\ failed' = failed
        /\ ValidEdges' /\ ~Circular'
    BY <1>2, StartEffect
  <2>4. QED
    BY <2>1, <2>2, <2>3 DEF Bookkept
<1>3. CASE Start /\ ~(ValidEdges /\ ~Circular)
  BY <1>0, <1>3 DEF Start, Bookkept
<1>4. CASE Abort \/ Finish
  BY <1>0, <1>4 DEF Abort, Finish, Bookkept
<1>5. ASSUME NEW n \in Nodes, QuietStep(n)
      PROVE  Bookkept'
  BY <1>0, <1>5, QuietEffect DEF Bookkept, TypeOK
<1>6. ASSUME NEW n \in Nodes, ErrorStep(n)
      PROVE  Bookkept'
  <2>1. PICK D \in SUBSET (Nodes \ (failed \cup {n} \cup completed)) :
               failed' = failed \cup {n} \cup D /\ claimed' = claimed \cup D
    BY <1>0, <1>6, ErrorEffect
  <2>2. QED
    BY <1>0, <1>6, <2>1, ErrorMove DEF Bookkept, TypeOK
<1>7. ASSUME NEW n \in Nodes, Succeed(n)
      PROVE  Bookkept'
  BY <1>0, <1>7 DEF Succeed, Bookkept, TypeOK
<1>8. ASSUME NEW n \in Nodes, TriggerDependents(n)
      PROVE  Bookkept'
  <2> DEFINE go == Ready(Dependents(n))
  <2>1. go \cap (completed \cup failed) = {}
    BY <1>0 DEF Ready, Bookkept, Dependents
  <2>2. /\ claimed' = claimed \cup go /\ failed' = failed
        /\ pc' = [x \in Nodes |-> IF x \in go THEN "starting"
                                  ELSE IF x = n THEN "joining" ELSE pc[x]]
        /\ pc[n] = "publishing" /\ n \notin go /\ n \in completed
        /\ UNCHANGED <<edges, main, aborted, completed>>
    BY <1>8, TriggerEffect
  <2> HIDE DEF go
  <2>3. QED
    BY <1>0, <2>1, <2>2 DEF Bookkept
<1>9. QED
  BY <1>1, <1>2, <1>3, <1>4, <1>5, <1>6, <1>7, <1>8, NextCases

(* A node starts only through Ready, and completedNodes only grows.         *)
LEMMA StartsAfterStep == IndInv /\ [Next]_vars => StartsAfterDependencies'
<1> SUFFICES ASSUME IndInv, [Next]_vars PROVE StartsAfterDependencies'
  OBVIOUS
<1> USE DEF StartsAfterDependencies, Parked, Settled, Unannounced
<1>0. TypeOK /\ Bookkept /\ StartsAfterDependencies
  BY DEF IndInv
<1> edges' = edges => \A n : Deps(n)' = Deps(n)
  BY GraphFixed
<1>1. CASE UNCHANGED vars
  BY <1>0, <1>1 DEF vars
<1>2. CASE Start /\ ValidEdges /\ ~Circular
  BY <1>0, <1>2, StartEffect DEF Ready
<1>3. CASE Start /\ ~(ValidEdges /\ ~Circular)
  BY <1>0, <1>3 DEF Start
<1>4. CASE Abort \/ Finish
  BY <1>0, <1>4 DEF Abort, Finish
<1>5. ASSUME NEW n \in Nodes, QuietStep(n)
      PROVE  StartsAfterDependencies'
  BY <1>0, <1>5, QuietEffect DEF TypeOK
<1>6. ASSUME NEW n \in Nodes, ErrorStep(n)
      PROVE  StartsAfterDependencies'
  BY <1>0, <1>6, ErrorMove DEF TypeOK
<1>7. ASSUME NEW n \in Nodes, Succeed(n)
      PROVE  StartsAfterDependencies'
  BY <1>0, <1>7 DEF Succeed, TypeOK
<1>8. ASSUME NEW n \in Nodes, TriggerDependents(n)
      PROVE  StartsAfterDependencies'
  BY <1>0, <1>8, TriggerEffect DEF Ready
<1>9. QED
  BY <1>1, <1>2, <1>3, <1>4, <1>5, <1>6, <1>7, <1>8, NextCases

(* Failure reaches every open dependent because what propagation returns is *)
(* closed, and stays downstream because it is the least such set.           *)
LEMMA FailureStep ==
  IndInv /\ [Next]_vars => FailureReachesDownstream' /\ FailureStaysDownstream'
<1> SUFFICES ASSUME IndInv, [Next]_vars
             PROVE  FailureReachesDownstream' /\ FailureStaysDownstream'
  OBVIOUS
<1> USE DEF FailureReachesDownstream, FailureStaysDownstream, Parked, Settled,
            Unannounced
<1>0. TypeOK /\ Bookkept /\ FailureReachesDownstream /\ FailureStaysDownstream
  BY DEF IndInv
<1> edges' = edges => \A n : Deps(n)' = Deps(n) /\ Dependents(n)' = Dependents(n)
  BY GraphFixed
<1>1. CASE UNCHANGED vars
  BY <1>0, <1>1 DEF vars
<1>2. CASE Start /\ ValidEdges /\ ~Circular
  BY <1>0, <1>2, StartEffect DEF TypeOK
<1>3. CASE Start /\ ~(ValidEdges /\ ~Circular)
  BY <1>0, <1>3 DEF Start
<1>4. CASE Abort \/ Finish
  BY <1>0, <1>4 DEF Abort, Finish
<1>5. ASSUME NEW n \in Nodes, QuietStep(n)
      PROVE  FailureReachesDownstream' /\ FailureStaysDownstream'
  BY <1>0, <1>5, QuietEffect DEF TypeOK
<1>6. ASSUME NEW n \in Nodes, ErrorStep(n)
      PROVE  FailureReachesDownstream' /\ FailureStaysDownstream'
  <2> DEFINE open == Nodes \ (failed \cup {n} \cup completed)
  <2>1. PICK D \in SUBSET open :
          /\ failed' = failed \cup {n} \cup D
          /\ ClosedUnder(D, n, open)
          /\ \A d \in D : Deps(d) \cap (D \cup {n}) # {}
    BY <1>0, <1>6, ErrorEffect
  <2>2. completed' = completed /\ edges' = edges
        /\ pc' = [pc EXCEPT ![n] = "failing"]
    BY <1>0, <1>6, ErrorMove
  <2>3. \A m \in D \cup {n} : Dependents(m) \subseteq failed' \cup completed'
    BY <2>1, <2>2 DEF ClosedUnder, Dependents
  <2>4. \A m \in failed : Dependents(m) \subseteq failed' \cup completed'
    BY <1>0, <2>1, <2>2
  <2>5. FailureReachesDownstream'
    BY <2>1, <2>2, <2>3, <2>4
  <2>6. \A m \in failed' : pc'[m] = "idle" => Deps(m) \cap failed' # {}
    <3>1. \A m \in D : Deps(m) \cap failed' # {}
      BY <2>1
    <3>2. \A m \in failed : pc'[m] = "idle" => Deps(m) \cap failed' # {}
      BY <1>0, <2>1, <2>2 DEF TypeOK
    <3>3. pc'[n] # "idle"
      BY <1>0, <2>2 DEF TypeOK
    <3>4. QED
      BY <2>1, <3>1, <3>2, <3>3
  <2>7. FailureStaysDownstream'
    BY <2>2, <2>6
  <2>8. QED
    BY <2>5, <2>7
<1>7. ASSUME NEW n \in Nodes, Succeed(n)
      PROVE  FailureReachesDownstream' /\ FailureStaysDownstream'
  BY <1>0, <1>7 DEF Succeed, TypeOK
<1>8. ASSUME NEW n \in Nodes, TriggerDependents(n)
      PROVE  FailureReachesDownstream' /\ FailureStaysDownstream'
  BY <1>0, <1>8, TriggerEffect DEF TypeOK
<1>9. QED
  BY <1>1, <1>2, <1>3, <1>4, <1>5, <1>6, <1>7, <1>8, NextCases

(* A parked invocation is a root's, or its joining parent waits for it.     *)
LEMMA AwaitedStep == IndInv /\ [Next]_vars => Awaited'
<1> SUFFICES ASSUME IndInv, [Next]_vars PROVE Awaited'
  OBVIOUS
<1> USE DEF Awaited, Parked, Settled, Unannounced
<1>0. TypeOK /\ Bookkept /\ Awaited
  BY DEF IndInv
<1> edges' = edges => Roots' = Roots /\ \A n : Deps(n)' = Deps(n)
  BY GraphFixed
<1>1. CASE UNCHANGED vars
  BY <1>0, <1>1 DEF vars
<1>2. CASE Start /\ ValidEdges /\ ~Circular
  BY <1>0, <1>2, StartEffect DEF Ready, Bookkept, Start
<1>3. CASE Start /\ ~(ValidEdges /\ ~Circular)
  BY <1>0, <1>3 DEF Start
<1>4. CASE Abort \/ Finish
  BY <1>0, <1>4 DEF Abort, Finish
<1>5. ASSUME NEW n \in Nodes, QuietStep(n)
      PROVE  Awaited'
  <2>1. PICK to \in Parked \cup Settled :
              /\ pc' = [pc EXCEPT ![n] = to] /\ pc[n] \in Parked
              /\ pc[n] = "joining" => \A m \in awaits[n] : pc[m] \in Settled
              /\ to # "joining"
    BY <1>0, <1>5, QuietEffect
  <2>2. edges' = edges /\ awaits' = awaits
    BY <1>0, <1>5, QuietEffect
  <2>3. ASSUME NEW x \in Nodes, pc'[x] \in Parked
        PROVE  x \in Roots \/ \E m \in Deps(x) : pc'[m] = "joining" /\ x \in awaits[m]
    <3>1. pc[x] \in Parked
      BY <2>1, <2>3 DEF TypeOK
    <3>2. CASE x \in Roots
      BY <3>2
    <3>3. CASE \E m \in Deps(x) : pc[m] = "joining" /\ x \in awaits[m]
      <4>1. PICK m \in Deps(x) : pc[m] = "joining" /\ x \in awaits[m]
        BY <3>3
      <4>2. m # n
        BY <2>1, <3>1, <4>1
      <4>3. m \in Nodes /\ pc'[m] = "joining"
        BY <1>0, <2>1, <4>1, <4>2 DEF TypeOK, Deps
      <4>4. QED
        BY <4>1, <4>3
    <3>4. QED
      BY <1>0, <3>1, <3>2, <3>3
  <2>4. QED
    BY <2>2, <2>3
<1>6. ASSUME NEW n \in Nodes, ErrorStep(n)
      PROVE  Awaited'
  <2>1. /\ pc[n] \in {"attempting", "publishing"}
        /\ pc' = [pc EXCEPT ![n] = "failing"]
        /\ edges' = edges /\ awaits' = awaits
    BY <1>0, <1>6, ErrorMove
  <2>2. \A x \in Nodes : /\ pc'[x] \in Parked => pc[x] \in Parked
                         /\ pc[x] = "joining" => pc'[x] = "joining"
    BY <1>0, <2>1 DEF TypeOK
  <2>3. QED
    BY <1>0, <2>1, <2>2 DEF Deps
<1>7. ASSUME NEW n \in Nodes, Succeed(n)
      PROVE  Awaited'
  BY <1>0, <1>7 DEF Succeed, TypeOK
<1>8. ASSUME NEW n \in Nodes, TriggerDependents(n)
      PROVE  Awaited'
  <2> DEFINE go == Ready(Dependents(n))
  <2>1. /\ pc' = [x \in Nodes |-> IF x \in go THEN "starting"
                                  ELSE IF x = n THEN "joining" ELSE pc[x]]
        /\ awaits' = [awaits EXCEPT ![n] = go]
        /\ pc[n] = "publishing" /\ n \notin go /\ edges' = edges
    BY <1>8, TriggerEffect
  <2>2. \A x \in go : n \in Deps(x) /\ pc[x] = "idle"
    BY <1>0 DEF Ready, Deps, Dependents, Bookkept
  <2>3. \A m \in Nodes : pc[m] = "joining" => pc'[m] = "joining" /\ awaits'[m] = awaits[m]
    BY <1>0, <2>1, <2>2 DEF TypeOK, Ready, Dependents, Bookkept
  <2>4. ASSUME NEW x \in Nodes, pc'[x] \in Parked
        PROVE  x \in Roots \/ \E m \in Deps(x) : pc'[m] = "joining" /\ x \in awaits'[m]
    <3>1. CASE x \in go
      BY <1>0, <2>1, <2>2, <3>1 DEF TypeOK
    <3>2. CASE x \notin go
      <4>1. pc[x] \in Parked
        BY <2>1, <2>4, <3>2
      <4>2. QED
        BY <1>0, <2>3, <4>1 DEF Deps
    <3>3. QED
      BY <3>1, <3>2
  <2>5. QED
    BY <2>1, <2>4
<1>9. QED
  BY <1>1, <1>2, <1>3, <1>4, <1>5, <1>6, <1>7, <1>8, NextCases

(* While the run goes on, a node nobody has claimed or failed has a         *)
(* dependency that has not completed or has yet to announce its completion. *)
LEMMA PendingStep == IndInv /\ [Next]_vars => Pending'
<1> SUFFICES ASSUME IndInv, [Next]_vars PROVE Pending'
  OBVIOUS
<1> USE DEF Pending, Parked, Settled, Unannounced
<1>0. TypeOK /\ Bookkept /\ Pending /\ FailureReachesDownstream
  BY DEF IndInv
<1> edges' = edges => \A n : Deps(n)' = Deps(n)
  BY GraphFixed
<1>1. CASE UNCHANGED vars
  BY <1>0, <1>1 DEF vars
<1>2. CASE Start /\ ValidEdges /\ ~Circular
  <2>1. /\ failed' = failed /\ main' = "running" /\ aborted' = aborted
        /\ pc' = [n \in Nodes |-> IF n \in Ready(Roots) THEN "starting" ELSE pc[n]]
        /\ completed' = completed /\ edges' = edges /\ claimed = {}
        /\ failed = {} /\ completed = {}
    <3>1. /\ failed' = failed /\ main' = "running" /\ aborted' = aborted
          /\ pc' = [n \in Nodes |-> IF n \in Ready(Roots) THEN "starting" ELSE pc[n]]
          /\ completed' = completed /\ edges' = edges
      BY <1>2, StartEffect
    <3>2. claimed = {} /\ failed = {} /\ completed = {}
      BY <1>0, <1>2 DEF Start, Bookkept, TypeOK
    <3>3. QED
      BY <3>1, <3>2
  <2>2. ASSUME ~aborted, NEW n \in Nodes, pc'[n] = "idle"
        PROVE  Deps(n) # {}
    BY <2>1, <2>2 DEF Ready, Roots
  <2>3. QED
    BY <2>1, <2>2
<1>3. CASE Start /\ ~(ValidEdges /\ ~Circular)
  BY <1>3 DEF Start
<1>4. CASE Abort \/ Finish
  BY <1>0, <1>4 DEF Abort, Finish
<1>5. ASSUME NEW n \in Nodes, QuietStep(n)
      PROVE  Pending'
  <2>1. PICK to \in Parked \cup Settled :
              /\ pc' = [pc EXCEPT ![n] = to] /\ pc[n] \in Parked
              /\ (pc[n] \in Unannounced) => to \in Unannounced
    BY <1>0, <1>5, QuietEffect
  <2>2. UNCHANGED <<edges, main, aborted, completed, failed>>
    BY <1>0, <1>5, QuietEffect
  <2>3. \A x \in Nodes : /\ pc'[x] = "idle" => pc[x] = "idle"
                         /\ pc[x] \in Unannounced => pc'[x] \in Unannounced
    BY <1>0, <2>1 DEF TypeOK
  <2>4. QED
    BY <1>0, <2>2, <2>3 DEF Deps
<1>6. ASSUME NEW n \in Nodes, ErrorStep(n)
      PROVE  Pending'
  <2>1. /\ pc' = [pc EXCEPT ![n] = "failing"]
        /\ pc[n] \in {"attempting", "publishing"}
        /\ UNCHANGED <<edges, main, aborted, completed>>
    BY <1>0, <1>6, ErrorMove
  <2>2. failed \subseteq failed' /\ n \in failed'
    BY <1>0, <1>6, ErrorEffect
  <2>3. FailureReachesDownstream'
    BY FailureStep, NextCases
  <2>4. ASSUME main = "running", ~aborted, NEW x \in Nodes, pc'[x] = "idle",
               x \notin failed'
        PROVE  \E m \in Deps(x) : m \notin completed \/ pc'[m] \in Unannounced
    <3>1. pc[x] = "idle" /\ x \notin failed /\ x \notin completed
      BY <1>0, <2>1, <2>2, <2>4 DEF TypeOK, Bookkept
    <3>2. PICK m \in Deps(x) : m \notin completed \/ pc[m] \in Unannounced
      BY <1>0, <2>4, <3>1
    <3>3. m # n
      BY <2>1, <2>2, <2>3, <2>4, <3>1 DEF FailureReachesDownstream, Deps, Dependents
    <3>4. QED
      BY <1>0, <2>1, <3>2, <3>3 DEF TypeOK, Deps
  <2>5. QED
    BY <2>1, <2>4
<1>7. ASSUME NEW n \in Nodes, Succeed(n)
      PROVE  Pending'
  <2>1. /\ UNCHANGED <<edges, main, aborted, failed>>
        /\ completed' = completed \cup {n}
        /\ \A x \in Nodes : /\ pc'[x] = "idle" => pc[x] = "idle"
                            /\ pc[x] \in Unannounced => pc'[x] \in Unannounced
        /\ pc'[n] \in Unannounced
    BY <1>0, <1>7 DEF Succeed, TypeOK
  <2>2. QED
    BY <1>0, <2>1 DEF Deps
<1>8. ASSUME NEW n \in Nodes, TriggerDependents(n)
      PROVE  Pending'
  <2> DEFINE go == Ready(Dependents(n))
  <2>1. /\ failed' = failed
        /\ pc' = [x \in Nodes |-> IF x \in go THEN "starting"
                                  ELSE IF x = n THEN "joining" ELSE pc[x]]
        /\ pc[n] = "publishing"
        /\ UNCHANGED <<edges, main, aborted, completed>>
    BY <1>8, TriggerEffect
  <2>2. ASSUME main = "running", ~aborted, NEW x \in Nodes, pc'[x] = "idle",
               x \notin failed
        PROVE  \E m \in Deps(x) : m \notin completed \/ pc'[m] \in Unannounced
    <3>1. pc[x] = "idle" /\ x \notin go
      BY <2>1, <2>2
    <3>2. PICK m \in Deps(x) : m \notin completed \/ pc[m] \in Unannounced
      BY <1>0, <2>2, <3>1
    <3>3. CASE m = n
      <4>1. x \in Dependents(n) \ claimed
        BY <1>0, <2>2, <3>1, <3>3 DEF Deps, Dependents, Bookkept
      <4>2. Deps(x) \cap failed = {}
        BY <1>0, <2>2, <3>1, <4>1 DEF FailureReachesDownstream, Deps, Dependents, Bookkept
      <4>3. \E y \in Deps(x) : y \notin completed
        BY <2>2, <3>1, <4>1, <4>2 DEF Ready
      <4>4. QED
        BY <4>3
    <3>4. CASE m # n
      <4>1. CASE m \notin completed
        BY <4>1
      <4>2. CASE pc[m] \in Unannounced
        <5>1. m \notin go
          BY <1>0, <4>2 DEF Ready, Bookkept, Dependents
        <5>2. pc'[m] \in Unannounced
          BY <2>1, <3>4, <4>2, <5>1 DEF Deps
        <5>3. QED
          BY <5>2
      <4>3. QED
        BY <3>2, <4>1, <4>2
    <3>5. QED
      BY <3>3, <3>4
  <2>3. QED
    BY <2>1, <2>2
<1>9. QED
  BY <1>1, <1>2, <1>3, <1>4, <1>5, <1>6, <1>7, <1>8, NextCases

(* executeDAG settles when no root is parked.  A parked node would then     *)
(* have a joining, hence parked, dependency: a circle of parked nodes.      *)
LEMMA SettlesLastStep == IndInv /\ [Next]_vars => SettlesLast'
<1> SUFFICES ASSUME IndInv, [Next]_vars PROVE SettlesLast'
  OBVIOUS
<1> USE DEF SettlesLast, Parked, Settled, Unannounced
<1>0. TypeOK /\ Bookkept /\ Awaited /\ SettlesLast
  BY DEF IndInv
<1>1. CASE UNCHANGED vars
  BY <1>0, <1>1 DEF vars
<1>2. CASE Start
  BY <1>0, <1>2 DEF Start, Bookkept, ExecuteNodes
<1>3. CASE Abort
  BY <1>0, <1>3 DEF Abort
<1>4. CASE Finish
  <2> DEFINE S == {n \in Nodes : pc[n] \in Parked}
  <2>1. ~Circular /\ \A n \in Roots : pc[n] \notin Parked
    BY <1>0, <1>4 DEF Finish, Bookkept
  <2>2. \A n \in S : Deps(n) \cap S # {}
    BY <1>0, <2>1 DEF Awaited, Deps
  <2>3. S = {}
    BY <2>1, <2>2, NoCircle
  <2>4. QED
    BY <1>4, <2>3 DEF Finish
<1>5. ASSUME NEW n \in Nodes, QuietStep(n)
      PROVE  SettlesLast'
  BY <1>0, <1>5, QuietEffect
<1>6. ASSUME NEW n \in Nodes, ErrorStep(n)
      PROVE  SettlesLast'
  BY <1>0, <1>6, ErrorMove
<1>7. ASSUME NEW n \in Nodes, Succeed(n)
      PROVE  SettlesLast'
  BY <1>0, <1>7 DEF Succeed
<1>8. ASSUME NEW n \in Nodes, TriggerDependents(n)
      PROVE  SettlesLast'
  BY <1>0, <1>8, TriggerEffect
<1>9. QED
  BY <1>1, <1>2, <1>3, <1>4, <1>5, <1>6, <1>7, <1>8, NextCases

(* A forgotten node is idle; by Pending it has a dependency that is neither *)
(* completed nor failed, and so on: a circle of forgotten nodes.            *)
LEMMA ForgottenStep == IndInv /\ [Next]_vars => NoNodeForgotten'
<1> SUFFICES ASSUME IndInv, [Next]_vars PROVE NoNodeForgotten'
  OBVIOUS
<1> USE DEF NoNodeForgotten, Parked, Settled, Unannounced
<1>0. TypeOK /\ Bookkept /\ Pending /\ FailureReachesDownstream /\ SettlesLast
      /\ NoNodeForgotten
  BY DEF IndInv
<1> edges' = edges => ValidEdges' = ValidEdges /\ Circular' = Circular
  BY GraphFixed
<1>1. CASE UNCHANGED vars
  BY <1>0, <1>1 DEF vars
<1>2. CASE Start
  BY <1>0, <1>2 DEF Start
<1>3. CASE Abort
  BY <1>3 DEF Abort
<1>4. CASE Finish
  <2>1. SUFFICES ASSUME ~aborted, \A n \in Nodes : pc[n] # "lost"
                 PROVE  completed \cup failed = Nodes
    BY <1>4 DEF Finish
  <2> DEFINE U == Nodes \ (completed \cup failed)
  <2>2. main = "running" /\ ~Circular
    BY <1>0, <1>4 DEF Finish, Bookkept
  <2>3. \A n \in Nodes : pc[n] \notin Parked
    BY <1>4, SettlesLastStep DEF Finish, SettlesLast
  <2>4. \A n \in U : pc[n] = "idle"
    BY <1>0, <2>1, <2>3 DEF TypeOK, Bookkept
  <2>5. \A n \in U : Deps(n) \cap U # {}
    <3>1. SUFFICES ASSUME NEW n \in U
                   PROVE  Deps(n) \cap U # {}
      OBVIOUS
    <3>2. PICK m \in Deps(n) : m \notin completed \/ pc[m] \in Unannounced
      BY <1>0, <2>1, <2>2, <2>4 DEF Pending
    <3>3. m \in Nodes /\ n \in Dependents(m)
      BY DEF Deps, Dependents
    <3>4. m \notin completed
      BY <2>3, <3>2, <3>3
    <3>5. m \notin failed
      BY <1>0, <3>3 DEF FailureReachesDownstream
    <3>6. QED
      BY <3>3, <3>4, <3>5
  <2>6. U = {}
    BY <2>2, <2>5, NoCircle
  <2>7. QED
    BY <1>0, <2>6 DEF TypeOK
<1>5. ASSUME NEW n \in Nodes, QuietStep(n)
      PROVE  NoNodeForgotten'
  BY <1>0, <1>5, QuietEffect DEF SettlesLast
<1>6. ASSUME NEW n \in Nodes, ErrorStep(n)
      PROVE  NoNodeForgotten'
  BY <1>0, <1>6, ErrorMove DEF SettlesLast
<1>7. ASSUME NEW n \in Nodes, Succeed(n)
      PROVE  NoNodeForgotten'
  BY <1>0, <1>7 DEF Succeed, SettlesLast
<1>8. ASSUME NEW n \in Nodes, TriggerDependents(n)
      PROVE  NoNodeForgotten'
  BY <1>0, <1>8, TriggerEffect DEF SettlesLast
<1>9. QED
  BY <1>1, <1>2, <1>3, <1>4, <1>5, <1>6, <1>7, <1>8, NextCases

-----------------------------------------------------------------------------
(* IndInv is an invariant of every run of executeDAG.                       *)
THEOREM Inductive == Spec => []IndInv
<1>1. IndInv /\ [Next]_vars => IndInv'
  BY TypeOKStep, BookkeptStep, StartsAfterStep, FailureStep, AwaitedStep,
     PendingStep, SettlesLastStep, ForgottenStep DEF IndInv
<1>2. QED
  BY InitInv, <1>1, PTL DEF Spec

(* The state variables of executeDAG keep their types.                      *)
THEOREM TypeCorrect == Spec => []TypeOK
BY Inductive, PTL DEF IndInv

(* A node never starts before all its dependencies have completed.          *)
THEOREM DependencyOrder == Spec => []StartsAfterDependencies
BY Inductive, PTL DEF IndInv

(* A failure fails exactly what is downstream of it and has not completed.  *)
THEOREM FailurePropagation ==
  Spec => []FailureReachesDownstream /\ []FailureStaysDownstream
BY Inductive, PTL DEF IndInv

(* executeDAG settles after every invocation it started, directly or not.   *)
THEOREM SettlingIsLast == Spec => []SettlesLast
BY Inductive, PTL DEF IndInv

(* No node of an acyclic graph is left neither completed nor failed.        *)
THEOREM EveryNodeDecided == Spec => []NoNodeForgotten
BY Inductive, PTL DEF IndInv

(* The claim makes the body of a node begin at most once.                   *)
THEOREM SingleLaunch == Spec => LaunchedOnce
<1> USE DEF Parked, Settled, Unannounced
<1> DEFINE Once == \A n \in Nodes : pc'[n] = "starting" /\ pc[n] # "starting"
                                      => pc[n] = "idle" /\ n \notin claimed
<1>1. IndInv /\ [Next]_vars => [Once]_vars
  <2> SUFFICES ASSUME IndInv, Next PROVE Once
    OBVIOUS
  <2>0. TypeOK /\ Bookkept
    BY DEF IndInv
  <2>1. CASE Start
    BY <2>0, <2>1 DEF Start, ExecuteNodes, Bookkept
  <2>2. CASE Abort \/ Finish
    BY <2>2 DEF Abort, Finish
  <2>3. ASSUME NEW n \in Nodes, QuietStep(n)
        PROVE  Once
    BY <2>0, <2>3 DEF TypeOK, QuietStep, Begin, LoseStart, Retry, Reattempt,
                      LoadCheckpoint, SaveCheckpoint, Settle
  <2>4. ASSUME NEW n \in Nodes, ErrorStep(n)
        PROVE  Once
    BY <2>0, <2>4, ErrorMove DEF TypeOK
  <2>5. ASSUME NEW n \in Nodes, Succeed(n)
        PROVE  Once
    BY <2>0, <2>5 DEF TypeOK, Succeed
  <2>6. ASSUME NEW n \in Nodes, TriggerDependents(n)
        PROVE  Once
    BY <2>0, <2>6, TriggerEffect DEF Ready, Bookkept
  <2>7. QED
    BY <2>1, <2>2, <2>3, <2>4, <2>5, <2>6, NextCases
<1>2. QED
  BY Inductive, <1>1, PTL DEF Spec, LaunchedOnce

-----------------------------------------------------------------------------
(* Checkpoints, through crashes and resumed runs.                           *)

\* A resumed run starts as a new one does, with the outputs of the row.
LEMMA ResumeStep == IndInv /\ [ResumeNext]_vars => IndInv'
<1> SUFFICES ASSUME IndInv, CrashAndResume PROVE IndInv'
  BY TypeOKStep, BookkeptStep, StartsAfterStep, FailureStep, AwaitedStep,
     PendingStep, SettlesLastStep, ForgottenStep DEF IndInv, ResumeNext
<1>1. /\ main' = "new" /\ aborted' = FALSE /\ outputs' = ckpt.nodes
      /\ claimed' = {} /\ completed' = {} /\ failed' = {}
      /\ pc' = [n \in Nodes |-> "idle"] /\ attempt' = [n \in Nodes |-> 0]
      /\ awaits' = [n \in Nodes |-> {}] /\ loaded' = [n \in Nodes |-> 0]
      /\ UNCHANGED <<edges, ckpt>>
  BY DEF CrashAndResume, Restored
<1>2. TypeOK'
  <2>1. edges \in Graphs /\ ckpt \in [version : Nat, nodes : SUBSET Nodes]
    BY DEF IndInv, TypeOK
  <2>2. pc' \in [Nodes -> {"idle"} \cup Parked \cup Settled]
    BY ONLY <1>1
  <2>3. attempt' \in [Nodes -> 0..MaxRetries] /\ loaded' \in [Nodes -> Nat]
    BY ONLY <1>1, DagAssumption
  <2>4. awaits' \in [Nodes -> SUBSET Nodes]
    BY ONLY <1>1
  <2>5. outputs' \subseteq Nodes
    BY <1>1, <2>1
  <2>6. QED
    BY ONLY <1>1, <2>1, <2>2, <2>3, <2>4, <2>5 DEF TypeOK
<1>3. Bookkept'
  BY <1>1 DEF Bookkept, Unannounced, Settled
<1>4. StartsAfterDependencies' /\ FailureReachesDownstream'
      /\ FailureStaysDownstream' /\ Awaited' /\ Pending'
  BY <1>1 DEF StartsAfterDependencies, FailureReachesDownstream,
              FailureStaysDownstream, Awaited, Pending, Parked
<1>5. SettlesLast' /\ NoNodeForgotten'
  BY <1>1 DEF SettlesLast, NoNodeForgotten
<1>6. QED
  BY <1>2, <1>3, <1>4, <1>5 DEF IndInv

(* A node is started once its dependencies have completed in this process,  *)
(* a run settles last and forgets no node, also when it was resumed.        *)
THEOREM ResumedRunIsARun ==
  ResumeSpec => []StartsAfterDependencies /\ []SettlesLast /\ []NoNodeForgotten
BY InitInv, ResumeStep, PTL DEF ResumeSpec, IndInv

(* What is in the row is in the outputs of the run, so that the next save,   *)
(* which writes all of them, loses nothing.                                 *)
LEMMA RowStep ==
  IndInv /\ ckpt.nodes \subseteq outputs /\ [ResumeNext]_vars
    => (ckpt.nodes \subseteq outputs)' /\ ckpt.nodes \subseteq ckpt'.nodes
<1> SUFFICES ASSUME TypeOK, ckpt.nodes \subseteq outputs, [ResumeNext]_vars
             PROVE  ckpt'.nodes \subseteq outputs' /\ ckpt.nodes \subseteq ckpt'.nodes
  BY DEF IndInv
<1>1. CASE CrashAndResume
  BY <1>1 DEF CrashAndResume, Restored
<1>2. ASSUME NEW n \in Nodes, SaveCheckpoint(n)
      PROVE  ckpt'.nodes \subseteq outputs' /\ ckpt.nodes \subseteq ckpt'.nodes
  <2>1. outputs' = outputs /\ (ckpt' = Row(n) \/ ckpt' = ckpt)
    BY <1>2 DEF SaveCheckpoint
  <2>2. QED
    BY <2>1 DEF Row
<1>3. CASE UNCHANGED ckpt /\ outputs \subseteq outputs'
  BY <1>3
<1>4. QED
  BY <1>1, <1>2, <1>3
  DEF ResumeNext, Next, Start, Abort, Finish, Answer, Succeed, Retry, Fail, Bookkeeping, Begin, LoseStart,
      Reattempt, LoadCheckpoint, TriggerDependents, FailCompleted, Settle, vars

(* saveCheckpoint and resumeFromCheckpoint: what a checkpoint holds is never  *)
(* lost again, with stores that fail, concurrent saves and crashes.         *)
THEOREM NoSaveIsUndone == ResumeSpec => CheckpointSurvives
<1>1. Init => ckpt.nodes \subseteq outputs
  BY DEF Init, NoCheckpoint
<1>2. QED
  BY <1>1, RowStep, InitInv, ResumeStep, PTL DEF ResumeSpec, CheckpointSurvives

(* With stores that work: where an invocation is after its node's output,    *)
(* and after the save.                                                      *)
Durable ==
  \A n \in Nodes :
    /\ pc[n] \in {"loading", "saving", "publishing", "joining", "done"} => n \in outputs
    /\ pc[n] \in {"publishing", "joining", "done"} => n \in ckpt.nodes

LEMMA DurableStep ==
  ASSUME Checkpointing, ~StoreFaults
  PROVE  IndInv /\ ckpt.nodes \subseteq outputs /\ Durable /\ [ResumeNext]_vars => Durable'
<1> SUFFICES ASSUME IndInv, ckpt.nodes \subseteq outputs, Durable, [ResumeNext]_vars PROVE Durable'
  OBVIOUS
<1> USE DEF Durable
<1>0. TypeOK /\ ckpt.nodes \subseteq ckpt'.nodes /\ ckpt'.nodes \subseteq outputs'
  BY RowStep DEF IndInv
<1>1. CASE CrashAndResume
  BY <1>1 DEF CrashAndResume
<1>2. CASE Start
  <2>1. \A n \in Nodes : pc'[n] \in {pc[n], "starting"}
    BY <1>0, <1>2 DEF Start, ExecuteNodes, TypeOK
  <2>2. QED
    BY <1>2, <2>1 DEF Start
<1>3. ASSUME NEW n \in Nodes, Succeed(n) PROVE Durable'
  BY <1>0, <1>3 DEF Succeed, TypeOK
<1>4. ASSUME NEW n \in Nodes, LoadCheckpoint(n) PROVE Durable'
  BY <1>0, <1>4 DEF LoadCheckpoint, TypeOK
<1>5. ASSUME NEW n \in Nodes, SaveCheckpoint(n) PROVE Durable'
  <2>1. /\ ckpt'.nodes = outputs /\ outputs' = outputs
        /\ pc[n] = "saving" /\ pc' = [pc EXCEPT ![n] = "publishing"]
    BY <1>5 DEF SaveCheckpoint, Row
  <2>2. QED
    BY <1>0, <2>1 DEF TypeOK
<1>6. ASSUME NEW n \in Nodes, TriggerDependents(n) PROVE Durable'
  <2>1. \A m \in Nodes : pc'[m] \in {"starting", pc[m]} \/ (m = n /\ pc[m] = "publishing")
    BY <1>0, <1>6 DEF TriggerDependents, ExecuteNodes, TypeOK
  <2>2. UNCHANGED <<outputs, ckpt>>
    BY <1>6 DEF TriggerDependents
  <2>3. QED
    BY <2>1, <2>2
<1>7. ASSUME NEW n \in Nodes, Begin(n) \/ Retry(n) \/ Reattempt(n) \/ Fail(n) \/ Settle(n)
      PROVE  Durable'
  BY <1>0, <1>7 DEF Begin, Retry, Reattempt, Fail, CatchError, Settle, TypeOK
<1>8. CASE UNCHANGED <<pc, outputs, ckpt>>
  BY <1>8
<1>9. QED
  BY <1>1, <1>2, <1>3, <1>4, <1>5, <1>6, <1>7, <1>8
  DEF ResumeNext, Next, Abort, Finish, Answer, Bookkeeping, LoseStart, FailCompleted, vars

(* With a checkpoint store that works, a node whose completion was announced  *)
(* is in the saved checkpoint, however the saves of a run and of the runs    *)
(* resumed from it interleave.                                              *)
THEOREM AnnouncedStaysDurable == ResumeSpec => []AnnouncedIsDurable
<1>1. CASE Checkpointing /\ ~StoreFaults
  <2>1. Init => Durable /\ ckpt.nodes \subseteq outputs
    BY DEF Init, NoCheckpoint, Durable
  <2>2. IndInv /\ ckpt.nodes \subseteq outputs /\ Durable /\ [ResumeNext]_vars => Durable'
    BY <1>1, DurableStep
  <2>3. Durable => AnnouncedIsDurable
    BY DEF Durable, AnnouncedIsDurable
  <2>4. QED
    BY <2>1, <2>2, <2>3, RowStep, InitInv, ResumeStep, PTL DEF ResumeSpec
<1>2. CASE ~(Checkpointing /\ ~StoreFaults)
  <2>1. AnnouncedIsDurable
    BY <1>2 DEF AnnouncedIsDurable
  <2>2. QED
    BY <2>1, PTL
<1>3. QED
  BY <1>1, <1>2

-----------------------------------------------------------------------------
(* DagExecution implements DagPromise.                                      *)

Busy    == {n \in Nodes : pc[n] \in Parked}
Outcome == IF main = "running" THEN "open" ELSE main

PromiseDone == UNCHANGED <<edges, NodeState, Busy, Outcome>>

(* What the mapping makes of the sets of nodes the promise speaks of.       *)
LEMMA MappedSets ==
  ASSUME IndInv
  PROVE  /\ Promise!In("failed") = failed
         /\ Promise!In("completed") = completed \ failed
         /\ Promise!In("waiting") = {n \in Nodes \ claimed : pc[n] = "idle"}
         /\ \A n \in Nodes : Promise!Prerequisites(n) = Deps(n)
<1> USE DEF IndInv, TypeOK, Bookkept, Unannounced, Parked, Settled
<1>1. Promise!In("failed") = failed
  BY DEF Promise!In, NodeState
<1>2. Promise!In("completed") = completed \ failed
  BY DEF Promise!In, NodeState
<1>3. Promise!In("waiting") = {n \in Nodes \ claimed : pc[n] = "idle"}
  BY DEF Promise!In, NodeState
<1>4. \A n \in Nodes : Promise!Prerequisites(n) = Deps(n)
  BY DEF Promise!Prerequisites, Deps
<1>5. QED
  BY <1>1, <1>2, <1>3, <1>4

LEMMA MappedWellFormed == IndInv => (Promise!WellFormed <=> ValidEdges /\ ~Circular)
BY MappedSets DEF Promise!WellFormed, ValidEdges, Circular

LEMMA MappedInit == Init => Promise!Init
BY DEF Init, Promise!Init, NodeState, Parked

(* A call that starts the nodes of L is a Launch of the promise.            *)
LEMMA MappedLaunch ==
  ASSUME IndInv, NEW S \in SUBSET Nodes,
         failed' = failed, completed' = completed,
         \A n \in Nodes : IF n \in Ready(S) THEN pc'[n] = "starting"
                          ELSE pc'[n] = pc[n] \/ (n \in completed /\ {pc[n], pc'[n]} \subseteq Parked)
  PROVE  \E L \in SUBSET Nodes : Promise!Launch(L)
<1> USE DEF IndInv, TypeOK, Bookkept, Unannounced, Parked, Settled
<1>1. Ready(S) \subseteq Promise!In("waiting")
  BY MappedSets DEF Ready
<1>2. \A n \in Ready(S) : Promise!Prerequisites(n) \subseteq Promise!In("completed")
  BY MappedSets DEF Ready
<1>3. NodeState' = [n \in Nodes |-> IF n \in Ready(S) THEN "working" ELSE NodeState[n]]
  BY DEF NodeState, Ready
<1>4. {n \in Nodes : pc[n] \in Parked}' = {n \in Nodes : pc[n] \in Parked} \cup Ready(S)
  BY DEF Ready
<1>5. Ready(S) \in SUBSET Nodes
  BY DEF Ready
<1>6. QED
  BY <1>1, <1>2, <1>3, <1>4, <1>5 DEF Promise!Launch

LEMMA MappedStart == IndInv /\ Start => Promise!Open
<1> SUFFICES ASSUME IndInv, Start PROVE Promise!Open
  OBVIOUS
<1>1. main = "new" /\ edges' = edges /\ completed' = completed
  BY DEF Start
<1>2. CASE ValidEdges /\ ~Circular
  <2>1. /\ failed' = failed /\ main' = "running"
        /\ pc' = [n \in Nodes |-> IF n \in Ready(Roots) THEN "starting" ELSE pc[n]]
    BY <1>2, StartEffect
  <2>2. Roots \in SUBSET Nodes
    BY DEF Roots
  <2>3. \E L \in SUBSET Nodes : Promise!Launch(L)
    BY <1>1, <2>1, <2>2, MappedLaunch
  <2>4. QED
    BY <1>1, <1>2, <2>1, <2>3, MappedWellFormed DEF Promise!Open
<1>3. CASE ~(ValidEdges /\ ~Circular)
  <2>1. main' = "rejected" /\ UNCHANGED <<failed, pc>>
    BY <1>3 DEF Start
  <2>2. NodeState' = NodeState
    BY <1>1, <2>1 DEF NodeState
  <2>3. QED
    BY <1>1, <1>3, <2>1, <2>2, MappedWellFormed DEF Promise!Open
<1>4. QED
  BY <1>2, <1>3

LEMMA MappedTrigger ==
  ASSUME IndInv, NEW n \in Nodes, TriggerDependents(n)
  PROVE  Promise!GoOn
<1> DEFINE go == Ready(Dependents(n))
<1>1. /\ failed' = failed
      /\ pc' = [x \in Nodes |-> IF x \in go THEN "starting" ELSE IF x = n THEN "joining" ELSE pc[x]]
      /\ pc[n] = "publishing" /\ n \in completed
      /\ UNCHANGED <<edges, main, completed>>
  BY TriggerEffect
<1>2. main = "running"
  BY <1>1 DEF IndInv, TypeOK, Bookkept, SettlesLast, Parked
<1>3. Dependents(n) \in SUBSET Nodes
  BY DEF Dependents
<1>4. \E L \in SUBSET Nodes : Promise!Launch(L)
  <2>1. \A x \in Nodes : IF x \in go THEN pc'[x] = "starting"
                         ELSE pc'[x] = pc[x] \/ (x \in completed /\ {pc[x], pc'[x]} \subseteq Parked)
    BY <1>1 DEF Parked
  <2>2. QED
    BY <1>1, <1>3, <2>1, MappedLaunch
<1>5. QED
  BY <1>1, <1>2, <1>4 DEF Promise!GoOn

(* An error of a node that may have completed is the promise's Fail, with   *)
(* what propagateFailureToDownstream reached.                               *)
LEMMA MappedError ==
  ASSUME IndInv, NEW n \in Nodes, ErrorStep(n)
  PROVE  \E D \in SUBSET Nodes : Promise!Fail(n, D)
<1> USE DEF IndInv, TypeOK, Parked, Settled
<1>1. /\ UNCHANGED <<edges, main, completed>>
      /\ pc[n] \in {"attempting", "publishing"}
      /\ pc' = [pc EXCEPT ![n] = "failing"]
  BY ErrorMove
<1>2. PICK D \in SUBSET (Nodes \ (failed \cup {n} \cup completed)) :
        /\ failed' = failed \cup {n} \cup D
        /\ ClosedUnder(D, n, Nodes \ (failed \cup {n} \cup completed))
        /\ \A d \in D : Deps(d) \cap (D \cup {n}) # {}
  BY ErrorEffect
<1> DEFINE dead == failed \cup {n} \cup D
<1>3. n \in Busy /\ NodeState[n] \in {"working", "completed", "failed"}
  BY <1>1 DEF Busy, NodeState
<1>4. \A d \in D : Deps(d) \cap dead # {}
  BY <1>2
<1>5. \A d \in Nodes : Deps(d) \cap dead # {} => d \in dead \cup (completed \ failed)
  <2>1. ASSUME NEW d \in Nodes, NEW m \in Deps(d), m \in dead
        PROVE  d \in dead \cup completed
    <3>1. m \in Nodes /\ d \in Dependents(m)
      BY DEF Deps, Dependents
    <3>2. CASE m \in failed
      BY <3>1, <3>2 DEF FailureReachesDownstream
    <3>3. CASE m \in {n} \cup D
      BY <3>1, <3>3, <1>2 DEF ClosedUnder
    <3>4. QED
      BY <2>1, <3>2, <3>3
  <2>2. QED
    BY <2>1
<1>6. NodeState' = [m \in Nodes |-> IF m \in dead THEN "failed" ELSE NodeState[m]]
  BY <1>1, <1>2 DEF NodeState
<1>7. Busy' = Busy
  BY <1>1 DEF Busy
<1>8. Promise!Fail(n, D)
  BY <1>1, <1>3, <1>4, <1>5, <1>6, <1>7, MappedSets DEF Promise!Fail, Busy
<1>9. QED
  BY <1>8

LEMMA MappedSuccess ==
  ASSUME IndInv, NEW n \in Nodes, Succeed(n)
  PROVE  PromiseDone \/ Promise!Complete(n)
<1> USE DEF IndInv, TypeOK, Bookkept, Unannounced, Parked, Settled
<1>1. /\ pc[n] = "attempting" /\ completed' = completed \cup {n}
      /\ UNCHANGED <<edges, main, failed>>
      /\ pc' = [pc EXCEPT ![n] = IF Checkpointing THEN "loading" ELSE "publishing"]
  BY DEF Succeed
<1>2. Busy' = Busy /\ Outcome' = Outcome
  BY <1>1 DEF Busy, Outcome
<1>3. CASE n \in failed
  <2>1. NodeState' = NodeState
    BY <1>1, <1>3 DEF NodeState
  <2>2. QED
    BY <1>1, <1>2, <2>1 DEF PromiseDone
<1>4. CASE n \notin failed
  <2>1. NodeState[n] = "working" /\ NodeState' = [NodeState EXCEPT ![n] = "completed"]
    BY <1>1, <1>4 DEF NodeState
  <2>2. QED
    BY <1>1, <1>2, <2>1 DEF Promise!Complete, Busy, Outcome
<1>5. QED
  BY <1>3, <1>4

LEMMA MappedQuiet ==
  ASSUME IndInv, NEW n \in Nodes, QuietStep(n)
  PROVE  PromiseDone \/ Promise!Lose(n) \/ Promise!Leave(n)
<1> USE DEF IndInv, TypeOK, Bookkept, Unannounced, Parked, Settled
<1>1. UNCHANGED <<edges, main, completed, failed>>
  BY QuietEffect
<1>2. PICK to \in Parked \cup Settled :
        /\ pc' = [pc EXCEPT ![n] = to] /\ pc[n] \in Parked
        /\ to = "done" => n \in completed
        /\ to = "rejected" => n \in failed
        /\ n \in completed => to # "lost"
  BY QuietEffect
<1>3. Outcome' = Outcome
  BY <1>1 DEF Outcome
<1>4. CASE to \in Parked
  <2>1. NodeState' = NodeState /\ Busy' = Busy
    BY <1>1, <1>2, <1>4 DEF NodeState, Busy
  <2>2. QED
    BY <1>1, <1>3, <2>1 DEF PromiseDone
<1>5. CASE to \in Settled
  <2>1. Busy' = Busy \ {n} /\ n \in Busy
    BY <1>2, <1>5 DEF Busy
  <2>2. CASE n \in failed \cup completed
    <3>1. NodeState' = NodeState /\ NodeState[n] # "working"
      BY <1>1, <1>2, <2>2 DEF NodeState
    <3>2. QED
      BY <1>1, <1>3, <2>1, <3>1 DEF Promise!Leave, Busy, Outcome
  <2>3. CASE n \notin failed \cup completed
    <3>1. to = "lost"
      BY <1>2, <1>5, <2>3
    <3>2. NodeState[n] = "working" /\ NodeState' = [NodeState EXCEPT ![n] = "lost"]
      BY <1>1, <1>2, <2>3, <3>1 DEF NodeState
    <3>3. QED
      BY <1>1, <1>3, <2>1, <3>2 DEF Promise!Lose, Busy, Outcome
  <2>4. QED
    BY <2>2, <2>3
<1>6. QED
  BY <1>4, <1>5

(* The outcome is settled after all the work: SettlesLast holds after the   *)
(* step, which moves no node.                                               *)
LEMMA MappedFinish == IndInv /\ IndInv' /\ Finish => Promise!Settle
<1> SUFFICES ASSUME IndInv, IndInv', Finish PROVE Promise!Settle
  OBVIOUS
<1>1. main = "running" /\ UNCHANGED <<edges, completed, failed, pc>>
      /\ main' = IF failed # {} THEN "rejected" ELSE "resolved"
  BY DEF Finish
<1>2. NodeState' = NodeState
  BY <1>1 DEF NodeState
<1>3. \A n \in Nodes : pc[n] \notin Parked
  BY <1>1 DEF IndInv, SettlesLast
<1>4. QED
  BY <1>1, <1>2, <1>3, MappedSets DEF Promise!Settle

LEMMA MappedStep ==
  IndInv /\ IndInv' /\ [Next]_vars => [Promise!Next]_<<edges, NodeState, Busy, Outcome>>
<1> SUFFICES ASSUME IndInv, IndInv', [Next]_vars PROVE Promise!Next \/ PromiseDone
  BY DEF PromiseDone
<1> USE DEF Promise!Next
<1>1. CASE Start
  BY <1>1, MappedStart
<1>2. CASE Abort
  BY <1>2 DEF Abort, PromiseDone, NodeState, Busy, Outcome
<1>3. CASE Finish
  BY <1>3, MappedFinish
<1>4. ASSUME NEW n \in Nodes, QuietStep(n) \/ ErrorStep(n) \/ Succeed(n) \/ TriggerDependents(n)
      PROVE  Promise!Next \/ PromiseDone
  BY <1>4, MappedQuiet, MappedError, MappedSuccess, MappedTrigger
<1>5. CASE UNCHANGED vars
  BY <1>5 DEF vars, PromiseDone, NodeState, Busy, Outcome
<1>6. QED
  BY <1>1, <1>2, <1>3, <1>4, <1>5, NextCases

(* executeDAG implements DagPromise.                                        *)
THEOREM ImplementsPromise == Spec => KeepsThePromise
<1>1. Init => Promise!Init
  BY MappedInit
<1>2. IndInv /\ IndInv' /\ [Next]_vars => [Promise!Next]_(Promise!promiseVars)
  BY MappedStep DEF Promise!promiseVars, Busy, Outcome
<1>3. Spec => []IndInv
  BY Inductive
<1>4. QED
  BY <1>1, <1>2, <1>3, PTL DEF Spec, KeepsThePromise, Promise!Spec
=============================================================================
