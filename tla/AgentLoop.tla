------------------------------ MODULE AgentLoop ------------------------------
(***************************************************************************)
(* The agent loop (packages/core/src/agent/loop.ts) with its planner        *)
(* (planner.ts) and reflector (reflection.ts): one run of a loop, in each of *)
(* the execution modes, over the runtime of one agent.                      *)
(*                                                                         *)
(* The model decides how a turn, a plan or a reflection comes out; a turn    *)
(* costs at most TurnCost tokens, also when it fails.  A plan is a sequence *)
(* of steps, each with the places of the steps it depends on.               *)
(***************************************************************************)
EXTENDS Integers, Sequences

CONSTANTS
  Modes,          \* the execution modes checked
  MaxIterations,  \* maxIterations
  MaxTotalTokens, \* maxTotalTokens
  TurnCost,       \* what a turn may cost
  Plans           \* the dependencies of the plans the model may return

VARIABLES
  mode,              \* config.mode
  reflects,          \* config.enableReflection
  phase,             \* where the run is
  iteration,         \* iteration
  consecutiveErrors, \* consecutiveErrors
  revisionCount,     \* revisionCount
  plan,              \* plan.steps: status and dependsOn
  cursor,            \* the step the for loop is at
  totalTokens,       \* AgentLoop.totalTokens
  spent,             \* the tokens the runtime has used
  turns,             \* the turns run
  agent              \* the runtime: running, error or stopped

config    == <<mode, reflects>>
counters  == <<iteration, consecutiveErrors, revisionCount>>
planVars  == <<plan, cursor>>
useVars   == <<totalTokens, spent, turns>>
agentLoopVars == <<config, phase, counters, planVars, useVars, agent>>

MaxConsecutiveErrors == 3
MaxRevisions == 3

Init ==
  /\ mode \in Modes /\ reflects \in BOOLEAN /\ phase = "idle"
  /\ iteration = 0 /\ consecutiveErrors = 0 /\ revisionCount = 0
  /\ plan = <<>> /\ cursor = 1 /\ totalTokens = 0 /\ spent = 0 /\ turns = 0 /\ agent = "running"

Run ==
  /\ phase = "idle"
  /\ phase' = CASE mode = "single-turn" -> "turn" [] mode = "loop" -> "iterating"
                [] mode = "plan-and-execute" -> "planning"
  /\ UNCHANGED <<config, counters, planVars, useVars, agent>>

\* Managing the context, or publishing an event, throws: the run rejects.
RunRejects ==
  /\ phase \in {"iterating", "planning", "stepping", "reflecting", "revising"} /\ phase' = "rejected"
  /\ UNCHANGED <<config, counters, planVars, useVars, agent>>

-----------------------------------------------------------------------------
(* A turn of the runtime.  It is refused unless the agent is running.       *)
Turn(cost) == spent' = spent + cost /\ turns' = turns + 1

TurnWorks == agent = "running" /\ (\E cost \in 0..TurnCost : Turn(cost)) /\ UNCHANGED agent

TurnFails ==
  IF agent = "running" THEN (\E cost \in 0..TurnCost : Turn(cost)) /\ agent' = "error"
  ELSE UNCHANGED <<spent, turns, agent>>

StopAgent ==
  /\ agent # "stopped" /\ phase \in {"iterating", "stepping"} /\ agent' = "stopped"
  /\ UNCHANGED <<config, phase, counters, planVars, useVars>>

RunSingleTurn ==
  /\ mode = "single-turn" /\ phase = "turn"
  /\ \/ TurnWorks /\ totalTokens' = spent' /\ phase' = "done"
     \/ TurnFails /\ phase' = "rejected" /\ UNCHANGED totalTokens
  /\ UNCHANGED <<config, counters, planVars>>

-----------------------------------------------------------------------------
(* The loop.  The budget is looked at only after a turn that worked.        *)
NextIteration ==
  /\ mode = "loop" /\ phase = "iterating"
  /\ IF iteration < MaxIterations THEN iteration' = iteration + 1 /\ phase' = "turn"
     ELSE phase' = "done" /\ UNCHANGED iteration
  /\ UNCHANGED <<config, consecutiveErrors, revisionCount, planVars, useVars, agent>>

\* The output ends the loop (a marker, the exit condition), or the budget does.
LoopTurnWorks ==
  /\ mode = "loop" /\ phase = "turn" /\ TurnWorks
  /\ consecutiveErrors' = 0 /\ totalTokens' = spent'
  /\ phase' \in IF spent' >= MaxTotalTokens THEN {"done"}
                ELSE {"done", IF reflects THEN "reflecting" ELSE "iterating"}
  /\ UNCHANGED <<config, iteration, revisionCount, planVars>>

LoopTurnFails_OneMore ==
  /\ mode = "loop" /\ phase = "turn"
  /\ consecutiveErrors' = consecutiveErrors + 1
  /\ agent = "running" /\ (\E cost \in 0..TurnCost : Turn(cost)) /\ agent' = "running"
  /\ phase' = IF consecutiveErrors' > MaxConsecutiveErrors THEN "done" ELSE "iterating"
  /\ UNCHANGED <<config, iteration, revisionCount, planVars, totalTokens>>

\* resetFromError makes the next turn possible, unless the agent was stopped.
LoopTurnFails ==
  /\ mode = "loop" /\ phase = "turn"
  /\ consecutiveErrors' = consecutiveErrors + 1
  /\ IF consecutiveErrors' >= MaxConsecutiveErrors THEN TurnFails /\ phase' = "done"
     ELSE /\ phase' = "iterating"
          /\ IF agent = "stopped" THEN UNCHANGED <<spent, turns, agent>>
             ELSE (\E cost \in 0..TurnCost : Turn(cost)) /\ agent' = "running"
  /\ UNCHANGED <<config, iteration, revisionCount, planVars, totalTokens>>

\* The reflector calls the model itself: its tokens are not the runtime's.  An answer
\* that is no JSON asks for neither.
Reflections == [good : BOOLEAN, shouldRetry : BOOLEAN, shouldRevise : BOOLEAN]

ReflectOnOutput ==
  /\ mode = "loop" /\ phase = "reflecting"
  /\ \E r \in Reflections : phase' = IF r.good \/ ~r.shouldRetry THEN "done" ELSE "iterating"
  /\ UNCHANGED <<config, counters, planVars, useVars, agent>>

-----------------------------------------------------------------------------
(* Plan and execute.                                                        *)
Step(deps, status) == [dependsOn |-> deps, status |-> status]

CreatePlan ==
  /\ phase = "planning" /\ phase' = "stepping" /\ cursor' = 1
  /\ \E p \in Plans : plan' = [i \in DOMAIN p |-> Step(p[i], "pending")]
  /\ UNCHANGED <<config, counters, useVars, agent>>

\* The model writes the statuses of the revised steps too.
RevisePlan ==
  /\ phase = "revising" /\ phase' = "stepping" /\ cursor' = 1 /\ revisionCount' = revisionCount + 1
  /\ \E p \in Plans : \E done \in SUBSET DOMAIN p :
       plan' = [i \in DOMAIN p |-> Step(p[i], IF i \in done THEN "completed" ELSE "pending")]
  /\ UNCHANGED <<config, iteration, consecutiveErrors, useVars, agent>>

Met(step) == \A d \in step.dependsOn : d \in DOMAIN plan /\ plan[d].status = "completed"
Mark(i, status) == plan' = [plan EXCEPT ![i].status = status]

EndOfPlan == phase' = "done" /\ UNCHANGED <<planVars, iteration>>

\* The for loop at its step: passed, skipped, the end of the plan, or a turn.
NextStep ==
  /\ mode = "plan-and-execute" /\ phase = "stepping"
  /\ IF cursor > Len(plan) THEN EndOfPlan
     ELSE IF plan[cursor].status \in {"completed", "skipped"}
     THEN cursor' = cursor + 1 /\ UNCHANGED <<phase, plan, iteration>>
     ELSE IF ~Met(plan[cursor])
     THEN Mark(cursor, "skipped") /\ cursor' = cursor + 1 /\ UNCHANGED <<phase, iteration>>
     ELSE IF iteration = MaxIterations \/ totalTokens >= MaxTotalTokens THEN EndOfPlan
     ELSE Mark(cursor, "running") /\ iteration' = iteration + 1 /\ phase' = "turn" /\ UNCHANGED cursor
  /\ UNCHANGED <<config, consecutiveErrors, revisionCount, useVars, agent>>

AfterStep ==
  IF reflects THEN phase' = "reflecting" /\ UNCHANGED cursor
  ELSE phase' = "stepping" /\ cursor' = cursor + 1

\* When an event cannot be published, a step whose turn worked counts as failed.
StepTurnWorks ==
  /\ mode = "plan-and-execute" /\ phase = "turn" /\ TurnWorks /\ totalTokens' = spent'
  /\ \E status \in {"completed", "failed"} : Mark(cursor, status)
  /\ AfterStep /\ UNCHANGED <<config, counters>>

\* Nothing resets the runtime: the turns of the later steps are refused.
StepTurnFails ==
  /\ mode = "plan-and-execute" /\ phase = "turn" /\ TurnFails /\ Mark(cursor, "failed")
  /\ AfterStep /\ UNCHANGED <<config, counters, totalTokens>>

ReflectOnStep ==
  /\ mode = "plan-and-execute" /\ phase = "reflecting"
  /\ \E r \in Reflections :
       IF r.shouldRevise /\ revisionCount < MaxRevisions THEN phase' = "revising" /\ UNCHANGED cursor
       ELSE phase' = "stepping" /\ cursor' = cursor + 1
  /\ UNCHANGED <<config, counters, plan, useVars, agent>>

AgentLoopNext ==
  \/ Run \/ RunRejects \/ StopAgent \/ RunSingleTurn
  \/ NextIteration \/ LoopTurnWorks \/ LoopTurnFails \/ ReflectOnOutput
  \/ CreatePlan \/ RevisePlan \/ NextStep \/ StepTurnWorks \/ StepTurnFails \/ ReflectOnStep

Spec == Init /\ [][AgentLoopNext]_agentLoopVars

-----------------------------------------------------------------------------
(* Although the budget is not looked at after a turn that failed, the tokens *)
(* used stay below the budget plus what three turns cost, and no more turns  *)
(* than maxIterations are run, whatever fails, is retried or is revised.     *)
OverspendIsBounded ==
  /\ spent < MaxTotalTokens + MaxConsecutiveErrors * TurnCost
  /\ turns <= MaxIterations

-----------------------------------------------------------------------------
(* What the code does not keep: the steps that do not depend on a failed one *)
(* can be run, ...                                                          *)
FailedStepsLeaveTheRest == phase = "stepping" => agent # "error"

(* ... and a plan that is completed has skipped only what its model skipped. *)
CompletedPlansAreDone ==
  mode = "plan-and-execute" /\ phase = "done" /\ (\A i \in DOMAIN plan : plan[i].status \in {"completed", "skipped"})
    => \A i \in DOMAIN plan : plan[i].status = "skipped" => ~Met(plan[i])
=============================================================================
