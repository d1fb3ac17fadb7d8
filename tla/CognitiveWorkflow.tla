-------------------------- MODULE CognitiveWorkflow --------------------------
(***************************************************************************)
(* The cognitive mode (packages/core/src/workflow/cognitive.ts): a planner,  *)
(* the generators and an evaluator, again until the score is good enough.   *)
(*                                                                         *)
(* The output of an iteration is its number; 0 is no output.  What the       *)
(* evaluator said of iteration i is the feedback -i.                        *)
(***************************************************************************)
EXTENDS Integers, Sequences, FiniteSetsExt

CONSTANTS
  MaxRounds,   \* maxIterations of the configuration
  Scores,      \* the scores the evaluator gives
  Threshold,   \* qualityThreshold
  Generators   \* how many generator agents there are

VARIABLES
  cogAt,       \* the phase: plan, generate, evaluate, done or failed
  round,       \* iteration
  generated,   \* the generators that answered in this iteration
  scores,      \* the score of each iteration
  bestOutput,  \* bestOutput
  bestScore,   \* bestScore
  openAgents,  \* the runtimes of runAgent not yet stopped
  final        \* nodeOutputs["final"]: output and score

cogVars == <<cogAt, round, generated, scores, bestOutput, bestScore, openAgents, final>>

None == [output |-> 0, score |-> 0]

Init ==
  /\ cogAt = "plan" /\ round = 1 /\ generated = 0 /\ scores = <<>> /\ bestOutput = 0 /\ bestScore = 0
  /\ openAgents = 0 /\ final = None

\* runAgent: the runtime runs one turn and is stopped, whatever comes of it.
RunAgent ==
  /\ openAgents = 0 /\ cogAt \in {"plan", "generate", "evaluate"} /\ openAgents' = 1
  /\ UNCHANGED <<cogAt, round, generated, scores, bestOutput, bestScore, final>>

Answered == openAgents = 1 /\ openAgents' = 0

\* An agent is not found or fails, or an event cannot be published: execute rejects.
AgentFails ==
  /\ cogAt \in {"plan", "generate", "evaluate"} /\ openAgents' = 0 /\ cogAt' = "failed"
  /\ UNCHANGED <<round, generated, scores, bestOutput, bestScore, final>>

Plan ==
  /\ cogAt = "plan" /\ Answered /\ cogAt' = "generate" /\ generated' = 0
  /\ UNCHANGED <<round, scores, bestOutput, bestScore, final>>

Generate ==
  /\ cogAt = "generate" /\ Answered /\ generated' = generated + 1
  /\ cogAt' = IF generated' = Generators THEN "evaluate" ELSE "generate"
  /\ UNCHANGED <<round, scores, bestOutput, bestScore, final>>

\* The answer may be no JSON, which is a score of 0.  Without a pass the feedback goes
\* to the next iteration, in the variable of the best output.
Evaluate ==
  /\ cogAt = "evaluate" /\ Answered
  /\ \E score \in Scores, passed \in BOOLEAN :
       LET good == score >= Threshold \/ passed
           best == Max({bestScore, score})
       IN  /\ scores' = Append(scores, score) /\ bestScore' = best
           /\ bestOutput' = IF ~good THEN -round ELSE IF score > bestScore THEN round ELSE bestOutput
           /\ final' = IF good THEN [output |-> round, score |-> score]
                       ELSE IF round = MaxRounds THEN [output |-> -round, score |-> best]
                       ELSE final
           /\ IF good \/ round = MaxRounds THEN cogAt' = "done" /\ UNCHANGED round
              ELSE cogAt' = "plan" /\ round' = round + 1
  /\ UNCHANGED generated

CognitiveNext == RunAgent \/ AgentFails \/ Plan \/ Generate \/ Evaluate

Spec == Init /\ [][CognitiveNext]_cogVars

-----------------------------------------------------------------------------
(* cognitive.ts:183, where the iterations are used up: "use best result".  The    *)
(* final output is that of the iteration with the final score.  The code      *)
(* does not keep it: the feedback has taken the place of the best output.    *)
FinalIsTheBest == cogAt = "done" => final.output \in 1..round /\ scores[final.output] = final.score
=============================================================================
