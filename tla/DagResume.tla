------------------------------ MODULE DagResume ------------------------------
(***************************************************************************)
(* A DAG run whose process dies and that another process resumes from its     *)
(* checkpoint row: WorkflowEngine.resumeFromCheckpoint over DagExecution.     *)
(*                                                                         *)
(* Of a run only its checkpoint row outlives the process.  resumeFromCheckpoint *)
(* builds a new run with the row's outputs and calls executeDAG, which knows   *)
(* nothing of the nodes that had completed.                                 *)
(***************************************************************************)
EXTENDS DagExecution

CONSTANT MaxSaves   \* bound: a process that has seen more saves does not crash

ASSUME CrashAssumption == MaxSaves \in Nat

\* The outputs a resumed run starts with.
Restored_Nothing == {}
Restored == ckpt.nodes

\* The process dies between two steps of the run; the row is what was last saved, a save in
\* flight is lost.  Without a row there is nothing to resume.
CrashAndResume ==
  /\ main = "running" /\ ckpt.version \in 1..MaxSaves
  /\ main' = "new" /\ aborted' = FALSE /\ outputs' = Restored
  /\ claimed' = {} /\ completed' = {} /\ failed' = {}
  /\ pc' = [n \in Nodes |-> "idle"] /\ attempt' = [n \in Nodes |-> 0]
  /\ awaits' = [n \in Nodes |-> {}] /\ loaded' = [n \in Nodes |-> 0]
  /\ UNCHANGED <<edges, ckpt>>

ResumeNext == CrashAndResume \/ Next

ResumeSpec == Init /\ [][ResumeNext]_vars

-----------------------------------------------------------------------------
(* What a checkpoint holds is never lost again, by concurrent saves, by a      *)
(* crash or by the saves of the resumed run, which begins at its first node   *)
(* (resumeFromCheckpoint and saveCheckpoint).                               *)
CheckpointSurvives == [][ckpt.nodes \subseteq ckpt'.nodes]_vars

-----------------------------------------------------------------------------
(* engine.ts:1007 "Execute with checkpoint-aware DAG (skips completed nodes)":  *)
(* no node is executed of which the run has the output.                      *)
ResumeSkipsCompleted == \A n \in outputs : pc[n] \notin {"starting", "attempting", "backoff"}
=============================================================================
