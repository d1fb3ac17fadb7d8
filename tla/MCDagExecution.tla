--------------------------- MODULE MCDagExecution ---------------------------
(* Small instances of DagExecution, and what it implements.                *)
EXTENDS DagExecution

CONSTANTS n1, n2, n3, n4, ghost

\* A diamond, a shared join with a long and a short branch, and two branches.
Shapes ==
  { {<<n1, n2>>, <<n1, n3>>, <<n2, n4>>, <<n3, n4>>},
    {<<n1, n2>>, <<n2, n3>>, <<n1, n4>>, <<n3, n4>>},
    {<<n1, n3>>, <<n2, n3>>, <<n2, n4>>},
    {<<n1, ghost>>, <<n1, n2>>} }

-----------------------------------------------------------------------------
(* The refinement mapping: a node that has failed is failed whatever else it  *)
(* was, and an invocation is busy until its promise is settled.             *)
NodeState ==
  [n \in Nodes |-> IF n \in failed THEN "failed"
                   ELSE IF n \in completed THEN "completed"
                   ELSE IF pc[n] = "idle" THEN "waiting"
                   ELSE IF pc[n] = "lost" THEN "lost" ELSE "working"]

Promise == INSTANCE DagPromise WITH
             graph <- edges, state <- NodeState, busy <- {n \in Nodes : pc[n] \in Parked},
             outcome <- IF main = "running" THEN "open" ELSE main

(* executeDAG keeps its promise: whatever the order in which agents, stores    *)
(* and parents answer, a run goes through the steps DagPromise allows.       *)
KeepsThePromise == Promise!Spec
=============================================================================
