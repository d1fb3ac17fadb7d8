----------------------------- MODULE MCDagResume -----------------------------
(* Small instances of DagResume.                                           *)
EXTENDS DagResume

\* Every graph over the nodes without self-loops, cyclic ones included.
AllGraphs == SUBSET {e \in Nodes \X Nodes : e[1] # e[2]}
=============================================================================
