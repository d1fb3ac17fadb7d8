---------------------------- MODULE StateMachine ----------------------------
(***************************************************************************)
(* The state-machine mode of the workflow engine (executeStateMachine and    *)
(* executeStateTaskWithRetry of packages/core/src/workflow/engine.ts).      *)
(*                                                                         *)
(* A definition gives each state its type and the states it may go to; "end" *)
(* stands for no next state, and a name without a definition is unknown.    *)
(* The run may be aborted (cancelled or timed out) at any time.              *)
(***************************************************************************)
EXTENDS Integers, FiniteSets

CONSTANTS
  Machines,   \* the definitions: type, next, retries of the states, and initial
  StepFactor  \* the steps allowed per state

VARIABLES
  sm,          \* the definition
  smAt,        \* where executeStateMachine is
  current,     \* currentState
  smSteps,     \* steps
  attempt,     \* attempt of executeStateTaskWithRetry
  outputs,     \* the states with an output in nodeOutputs
  announced,   \* the states announced as started, and how the last visit ended
  aborted,     \* abortController.signal.aborted
  forgotten    \* the run was deleted from the engine's runs

smVars == <<sm, smAt, current, smSteps, attempt, outputs, announced, aborted, forgotten>>

States   == DOMAIN sm.type
MaxSteps == StepFactor * Cardinality(States)
Settled  == {"returned", "threw"}

Init ==
  /\ sm \in Machines /\ smAt = "loop" /\ current = sm.initial /\ smSteps = 0 /\ attempt = 0
  /\ outputs = {} /\ announced = [s \in DOMAIN sm.type |-> "none"] /\ aborted = FALSE
  /\ forgotten = FALSE

Abort ==
  /\ ~aborted /\ smAt \notin Settled /\ aborted' = TRUE
  /\ UNCHANGED <<sm, smAt, current, smSteps, attempt, outputs, announced, forgotten>>

\* The retention of a cancelled run ends while its machine, in a long wait say, goes on.
RunIsDeleted ==
  /\ aborted /\ ~forgotten /\ smAt \notin Settled /\ forgotten' = TRUE
  /\ UNCHANGED <<sm, smAt, current, smSteps, attempt, outputs, announced, aborted>>

\* The head of the loop: an abort ends it without an error.
ExecuteStateMachine ==
  /\ smAt = "loop"
  /\ IF aborted THEN smAt' = "returned" /\ UNCHANGED smSteps
     ELSE /\ smSteps' = smSteps + 1
          /\ smAt' = IF smSteps + 1 > MaxSteps \/ current \notin States THEN "threw"
                     ELSE CASE sm.type[current] = "succeed" -> "returned"
                            [] sm.type[current] = "fail"    -> "threw"
                            [] OTHER                        -> "announce"
  /\ UNCHANGED <<sm, current, attempt, outputs, announced, aborted, forgotten>>

\* The event that announces the state is outside the try: its failure is not tracked.
PublishStarted ==
  /\ smAt = "announce"
  /\ \/ announced' = [announced EXCEPT ![current] = "started"] /\ smAt' = sm.type[current]
     \/ UNCHANGED announced /\ smAt' = "threw"
  /\ attempt' = 0 /\ UNCHANGED <<sm, current, smSteps, outputs, aborted, forgotten>>

HandleNodeError_Silent ==
  smAt = "error" /\ smAt' = "threw" /\ UNCHANGED <<sm, current, smSteps, attempt, outputs, announced, aborted, forgotten>>

\* The event of the failure may fail itself, and none is published for a deleted run.
HandleNodeError ==
  /\ smAt = "error" /\ smAt' = "threw"
  /\ IF forgotten THEN UNCHANGED announced
     ELSE \E end \in {"failed", "unheard"} : announced' = [announced EXCEPT ![current] = end]
  /\ UNCHANGED <<sm, current, smSteps, attempt, outputs, aborted, forgotten>>

\* After a wait or a choice, or when the task's agent answered: the state completes, which
\* is announced also when no state follows; that is an error then.
NextState ==
  /\ announced' = [announced EXCEPT ![current] = "completed"]
  /\ \E next \in sm.next[current] :
       IF next = "end" THEN smAt' = "error" /\ UNCHANGED current ELSE smAt' = "loop" /\ current' = next

\* No choice matches, or the completion cannot be announced.
WaitOrChoose ==
  /\ smAt \in {"wait", "choice"}
  /\ \/ NextState
     \/ smAt' = "error" /\ UNCHANGED <<current, announced>>
  /\ UNCHANGED <<sm, smSteps, attempt, outputs, aborted, forgotten>>

\* A cancelled run stops the agent, which fails the attempt; retries go on.  The task
\* also fails when its completion cannot be announced.
ExecuteStateTask ==
  /\ smAt = "task"
  /\ \/ NextState /\ outputs' = outputs \cup {current} /\ UNCHANGED attempt
     \/ /\ attempt < sm.retries[current] /\ attempt' = attempt + 1
        /\ UNCHANGED <<smAt, current, outputs, announced>>
     \/ /\ smAt' = "error" /\ outputs' \in {outputs, outputs \cup {current}}
        /\ UNCHANGED <<current, attempt, announced>>
  /\ UNCHANGED <<sm, smSteps, aborted, forgotten>>

StateMachineNext ==
  \/ Abort \/ RunIsDeleted \/ ExecuteStateMachine \/ PublishStarted \/ HandleNodeError \/ WaitOrChoose
  \/ ExecuteStateTask

Spec == Init /\ [][StateMachineNext]_smVars

-----------------------------------------------------------------------------
(* Whoever follows the events can tell where the machine is: at most one     *)
(* state is open, and when the machine has settled none is, whether it       *)
(* succeeded, failed, ran out of steps or attempts or was aborted, save for  *)
(* a failure whose own announcement failed, or that came when the run had    *)
(* been cancelled and deleted: nobody is told of that one.                   *)
EveryStartEnds ==
  LET open == {s \in States : announced[s] = "started"}
  IN  /\ Cardinality(open) <= 1
      /\ smAt \in Settled /\ open # {} => forgotten /\ smAt = "threw"

-----------------------------------------------------------------------------
(* What the code does not keep: a machine that was aborted on its way throws, *)
(* so that the run is not completed.                                        *)
AbortThrows == aborted /\ smAt = "returned" => current \in States /\ sm.type[current] = "succeed"
=============================================================================
