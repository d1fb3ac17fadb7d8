------------------------------ MODULE MCRemote ------------------------------
(***************************************************************************)
(* A small instance of Remote for TLC: two nodes, one of which may go, a     *)
(* table of one task with two task ids, three calls for one slot, and two     *)
(* executions of one task id.                                               *)
(***************************************************************************)
EXTENDS Remote, TLC

OneEach    == [n \in Nodes |-> 1]
FitsAll    == [t \in Tasks |-> Nodes]
MatchesAll == [t \in Tasks |-> [n \in Nodes |-> 1]]
Backends   == <<"local", "docker", "kubernetes", "ssh">>

\* The nodes are alike: capacity, fit and labels do not tell them apart.
Symmetry == Permutations(Nodes)
=============================================================================
