--------------------------- MODULE PlatformProofs ---------------------------
(***************************************************************************)
(* Proofs about the components composed in Platform, for any values of       *)
(* their constants.                                                         *)
(***************************************************************************)
EXTENDS Platform, SequenceTheorems, FiniteSetTheorems, TLAPS

-----------------------------------------------------------------------------
\* A set of natural numbers has a least one: the induction of this module.
LEMMA LeastNumber ==
  ASSUME NEW S \in SUBSET Nat, S # {}
  PROVE  \E x \in S : \A y \in S : x <= y
  <1>1. \A x, y \in Nat : <<x, y>> \in OpToRel(<, Nat) <=> x < y
    BY DEF OpToRel
  <1>2. \E x \in S : \A y \in S : ~(<<y, x>> \in OpToRel(<, Nat))
    BY NatLessThanWellFounded, WFMin
  <1>3. PICK x \in S : \A y \in S : ~(<<y, x>> \in OpToRel(<, Nat))
    BY <1>2, Zenon
  <1>4. \A y \in S : ~(y < x)
    <2> TAKE y \in S
    <2>1. x \in Nat /\ y \in Nat
      OBVIOUS
    <2> QED BY <1>1, <1>3, <2>1, Zenon
  <1>5. \A y \in S : x <= y
    <2> TAKE y \in S
    <2>1. x \in Nat /\ y \in Nat /\ ~(y < x)
      BY <1>4
    <2> QED BY <2>1
  <1> QED BY <1>5

-----------------------------------------------------------------------------
(* The heartbeat of the monitor's event stream.                             *)

\* A step of the platform is a step of the monitor, or leaves it alone.
LEMMA MonStep == [Next]_vars => [Mon!MonitorNext]_(Mon!monitorVars)
  BY DEF Next, Others, vars, monitors, Mon!monitorVars

(* The heartbeat is armed exactly while a client is connected, for any       *)
(* number of clients and event types.                                       *)
THEOREM HeartbeatIsArmed == Spec => []HeartbeatFollowsClients
  <1> USE DEF HeartbeatFollowsClients, Mon!HeartbeatFollowsClients
  <1>1. Init => HeartbeatFollowsClients
    BY DEF Init, Mon!Init
  <1>2. HeartbeatFollowsClients /\ [Next]_vars => HeartbeatFollowsClients'
    <2> SUFFICES ASSUME HeartbeatFollowsClients, Mon!MonitorNext \/ UNCHANGED Mon!monitorVars
                 PROVE  HeartbeatFollowsClients'
      BY MonStep
    <2>1. CASE UNCHANGED <<connections, heartbeat>>
      BY <2>1
    <2>2. ASSUME NEW broken, Mon!Remove(broken) PROVE HeartbeatFollowsClients'
      BY <2>2 DEF Mon!Remove
    <2>3. ASSUME NEW c, NEW types, Mon!HandleConnection(c, types) PROVE HeartbeatFollowsClients'
      BY <2>3 DEF Mon!HandleConnection
    <2>4. CASE Mon!Stop
      BY <2>4 DEF Mon!Stop
    <2> QED
      BY <2>1, <2>2, <2>3, <2>4
      DEF Mon!MonitorNext, Mon!monitorVars, Mon!Start, Mon!Health, Mon!Beat, Mon!Stopped, Mon!Call, Mon!ParseBody,
          Mon!ProviderAnswers, Mon!Disconnect, Mon!Broadcast
  <1> QED BY <1>1, <1>2, PTL DEF Spec

-----------------------------------------------------------------------------
(* The budget of the agent loop.                                            *)

LEMMA LoopStep == [Next]_vars => [Loop!AgentLoopNext]_(Loop!agentLoopVars)
  BY DEF Next, Others, vars, loop, Loop!agentLoopVars, Loop!config, Loop!counters, Loop!planVars, Loop!useVars

LoopTypes ==
  /\ mode \in LoopModes /\ spent \in Nat /\ totalTokens \in Nat /\ turns \in Nat
  /\ iteration \in 0..MaxIterations /\ consecutiveErrors \in Nat

(* Each mode has phases of its own; the turn that is run is one of the       *)
(* iterations counted.                                                      *)
PhasesOfModes ==
  /\ mode = "single-turn" => phase \in {"idle", "turn", "done", "rejected"}
  /\ mode = "loop" => phase \in {"idle", "iterating", "turn", "reflecting", "done", "rejected"}
  /\ mode = "single-turn" /\ phase \in {"idle", "turn"} => spent = 0 /\ turns = 0
  /\ mode # "single-turn" => turns <= iteration /\ (phase = "turn" => turns < iteration)

(* While the loop goes on, each failed turn in a row has used at most the    *)
(* cost of a turn beyond the tokens that were compared with the budget.     *)
UseOfLoop ==
  mode = "loop" /\ phase \notin {"done", "rejected"} =>
    /\ totalTokens < MaxTotalTokens /\ consecutiveErrors \in {0, 1, 2}
    /\ consecutiveErrors = 0 => spent <= totalTokens
    /\ consecutiveErrors = 1 => spent <= totalTokens + TurnCost
    /\ consecutiveErrors = 2 => spent <= totalTokens + TurnCost + TurnCost

(* A plan's failed turn leaves the agent unable to run another one.         *)
UseOfPlan ==
  mode = "plan-and-execute" =>
    /\ agent = "running" => spent = totalTokens
    /\ phase = "turn" => totalTokens < MaxTotalTokens

LoopInv == LoopTypes /\ PhasesOfModes /\ UseOfLoop /\ UseOfPlan /\ OverspendIsBounded

\* A turn adds to what was spent at most its cost.
LEMMA TurnEffect ==
  ASSUME LoopInv,
         \/ \E cost \in 0..TurnCost : Loop!Turn(cost)
         \/ UNCHANGED <<spent, turns>>
  PROVE  /\ spent' \in Nat /\ turns' \in Nat /\ turns' <= turns + 1
         /\ spent <= spent' /\ spent' <= spent + TurnCost
  BY LoopAssumption DEF LoopInv, LoopTypes, Loop!Turn

LEMMA LoopInvStep == LoopInv /\ [Next]_vars => LoopInv'
  <1> SUFFICES ASSUME LoopInv, Loop!AgentLoopNext \/ UNCHANGED Loop!agentLoopVars
               PROVE  LoopInv'
    BY LoopStep
  <1> USE LoopAssumption
      DEF LoopTypes, PhasesOfModes, UseOfLoop, UseOfPlan, OverspendIsBounded, Loop!OverspendIsBounded,
          Loop!MaxConsecutiveErrors, Loop!config, Loop!counters, Loop!planVars, Loop!useVars
  <1>1. CASE UNCHANGED Loop!agentLoopVars
    BY <1>1 DEF LoopInv, Loop!agentLoopVars
  <1>2. CASE Loop!Run
    BY <1>2 DEF LoopInv, Loop!Run
  <1>3. CASE Loop!RunRejects \/ Loop!StopAgent
    BY <1>3 DEF LoopInv, Loop!RunRejects, Loop!StopAgent
  <1>4. CASE Loop!RunSingleTurn
    <2>1. /\ mode = "single-turn" /\ phase = "turn" /\ spent' \in Nat /\ turns' \in Nat
          /\ spent' <= TurnCost /\ turns' <= 1
      BY <1>4, TurnEffect DEF LoopInv, Loop!RunSingleTurn, Loop!TurnWorks, Loop!TurnFails
    <2>2. /\ phase' \in {"done", "rejected"} /\ totalTokens' \in {totalTokens, spent'}
          /\ UNCHANGED <<mode, iteration, consecutiveErrors>>
      BY <1>4 DEF Loop!RunSingleTurn
    <2> QED BY <2>1, <2>2 DEF LoopInv
  <1>5. CASE Loop!NextIteration
    BY <1>5 DEF LoopInv, Loop!NextIteration
  <1>6. CASE Loop!LoopTurnWorks
    <2>1. /\ spent' \in Nat /\ turns' \in Nat /\ turns' <= turns + 1
          /\ spent <= spent' /\ spent' <= spent + TurnCost
      BY <1>6, TurnEffect DEF Loop!LoopTurnWorks, Loop!TurnWorks
    <2> QED BY <1>6, <2>1 DEF LoopInv, Loop!LoopTurnWorks
  <1>7. CASE Loop!LoopTurnFails
    <2>1. /\ spent' \in Nat /\ turns' \in Nat /\ turns' <= turns + 1
          /\ spent <= spent' /\ spent' <= spent + TurnCost
      BY <1>7, TurnEffect DEF Loop!LoopTurnFails, Loop!TurnFails
    <2> QED BY <1>7, <2>1 DEF LoopInv, Loop!LoopTurnFails
  <1>8. CASE Loop!ReflectOnOutput
    BY <1>8 DEF LoopInv, Loop!ReflectOnOutput
  <1>9. CASE Loop!CreatePlan \/ Loop!RevisePlan
    BY <1>9 DEF LoopInv, Loop!CreatePlan, Loop!RevisePlan
  <1>10. CASE Loop!NextStep
    BY <1>10 DEF LoopInv, Loop!NextStep, Loop!EndOfPlan
  <1>11. CASE Loop!StepTurnWorks \/ Loop!StepTurnFails
    <2>1. /\ spent' \in Nat /\ turns' \in Nat /\ turns' <= turns + 1
          /\ spent <= spent' /\ spent' <= spent + TurnCost
      BY <1>11, TurnEffect DEF Loop!StepTurnWorks, Loop!TurnWorks, Loop!StepTurnFails, Loop!TurnFails
    <2>2. /\ mode = "plan-and-execute" /\ phase = "turn" /\ phase' \in {"reflecting", "stepping"}
          /\ UNCHANGED <<mode, iteration, consecutiveErrors>>
      BY <1>11 DEF Loop!StepTurnWorks, Loop!StepTurnFails, Loop!AfterStep
    <2>3. \/ totalTokens' = spent' /\ agent = "running"
          \/ totalTokens' = totalTokens /\ agent' # "running"
      BY <1>11 DEF Loop!StepTurnWorks, Loop!StepTurnFails, Loop!TurnWorks, Loop!TurnFails
    <2>4. agent = "running" \/ UNCHANGED spent
      BY <1>11 DEF Loop!StepTurnWorks, Loop!StepTurnFails, Loop!TurnWorks, Loop!TurnFails
    <2> QED BY <2>1, <2>2, <2>3, <2>4 DEF LoopInv
  <1>12. CASE Loop!ReflectOnStep
    BY <1>12 DEF LoopInv, Loop!ReflectOnStep
  <1> QED
    BY <1>1, <1>2, <1>3, <1>4, <1>5, <1>6, <1>7, <1>8, <1>9, <1>10, <1>11, <1>12 DEF Loop!AgentLoopNext

(* The tokens an agent loop uses stay below its budget plus the cost of      *)
(* three turns, and its turns within its iterations, for any budget, cost    *)
(* and limit and in each mode: failed turns, which the budget check passes   *)
(* over, are too few in a row to make it more.                              *)
THEOREM BudgetHolds == Spec => []OverspendIsBounded
  <1>1. Init => LoopInv
    BY LoopAssumption
    DEF Init, Loop!Init, LoopInv, LoopTypes, PhasesOfModes, UseOfLoop, UseOfPlan, OverspendIsBounded,
        Loop!OverspendIsBounded, Loop!MaxConsecutiveErrors
  <1>2. LoopInv => OverspendIsBounded
    BY DEF LoopInv
  <1> QED BY <1>1, <1>2, LoopInvStep, PTL DEF Spec

-----------------------------------------------------------------------------
(* The contents guardrails rewrite.                                         *)

LEMMA GuardStep == [Next]_vars => [Guard!GuardrailsNext]_(Guard!guardVars)
  BY DEF Next, Others, vars, guards, Guard!guardVars

Judgement == [ok : BOOLEAN, of : Nat]

(* Of the guardrail that is evaluated, each content judged to pass is among  *)
(* the approved ones.                                                       *)
GuardInv ==
  /\ step # "done" => at \in DOMAIN guardrails
  /\ step = "rewrite" => judgements # <<>>
  /\ judgements \in Seq(Judgement) /\ candidate \in Nat /\ content \in Nat /\ made \in Nat
  /\ \A k \in DOMAIN judgements : judgements[k].ok => <<at, judgements[k].of>> \in approved
  /\ RewritesAreJudged

\* The verdict of a guardrail replaces the content by one it approved.
LEMMA JudgedEffect ==
  ASSUME GuardInv, step # "done", NEW ok \in BOOLEAN, NEW new \in Nat, Guard!Judged(ok, new),
         approved \subseteq approved', new # 0 => <<at, new>> \in approved', UNCHANGED <<guardrails, made>>
  PROVE  GuardInv'
  <1> USE DEF GuardInv, RewritesAreJudged, Guard!RewritesAreJudged, Guard!Judged
  <1>1. judgements' = <<>> /\ content' \in Nat /\ candidate' = content' /\ made' = made /\ guardrails' = guardrails
    OBVIOUS
  <1>2. step' \in {"evaluate", "done"} /\ (step' # "done" => at' \in DOMAIN guardrails)
    OBVIOUS
  <1>3. RewritesAreJudged'
    <2>1. CASE rewritten' = new /\ guardrails[at].action = "rewrite"
      BY <2>1
    <2>2. CASE rewritten' = rewritten
      BY <2>2
    <2> QED BY <2>1, <2>2
  <1>4. judgements' \in Seq(Judgement) /\ DOMAIN judgements' = {}
    BY <1>1
  <1>5. made' \in Nat
    BY <1>1
  <1> QED BY ONLY <1>1, <1>2, <1>3, <1>4, <1>5 DEF GuardInv

\* The calls of the custom judge return: what is kept was judged to pass.
LEMMA ReturnedEffect ==
  ASSUME GuardInv, step # "done", NEW vs \in Seq(Judgement), NEW judged, Guard!Returned(vs, judged), Len(vs) >= 1,
         approved \subseteq judged, \A k \in DOMAIN vs : vs[k].ok => <<at, vs[k].of>> \in judged,
         UNCHANGED <<guardrails, made>>
  PROVE  GuardInv'
  <1> DEFINE new == IF Guard!Kept(vs) = 0 THEN 0 ELSE vs[2].of
  <1>1. Guard!Judged(vs[1].ok, new) /\ approved' = judged
    BY DEF Guard!Returned
  <1>2. \A j \in Judgement : j.ok \in BOOLEAN /\ j.of \in Nat
    BY DEF Judgement
  <1>3. vs[1] \in Judgement /\ (Len(vs) >= 2 => vs[2] \in Judgement /\ 2 \in DOMAIN vs)
    OBVIOUS
  <1>4. new \in Nat /\ (new # 0 => <<at, new>> \in judged)
    BY <1>2, <1>3 DEF Guard!Kept
  <1>5. vs[1].ok \in BOOLEAN
    BY <1>2, <1>3, Zenon
  <1> HIDE DEF new
  <1> QED BY <1>1, <1>4, <1>5, JudgedEffect

LEMMA GuardInvStep == GuardInv /\ [Next]_vars => GuardInv'
  <1> SUFFICES ASSUME GuardInv, Guard!GuardrailsNext \/ UNCHANGED Guard!guardVars
               PROVE  GuardInv'
    BY GuardStep
  <1>1. CASE UNCHANGED Guard!guardVars
    BY <1>1 DEF GuardInv, RewritesAreJudged, Guard!RewritesAreJudged, Guard!guardVars
  <1>2. CASE Guard!EvaluateGuardrail
    <2>1. step # "done" /\ UNCHANGED <<guardrails, made>>
      BY <1>2 DEF Guard!EvaluateGuardrail
    <2>2. CASE Guard!CheckPatterns
      <3>1. \E found \in BOOLEAN : Guard!Judged(~found, 0) /\ approved \subseteq approved'
        BY <2>2 DEF Guard!CheckPatterns
      <3> QED BY <2>1, <3>1, JudgedEffect
    <2>3. CASE Guard!CheckSchemaValidation
      <3>1. PICK output \in Outputs, schema \in Schemas :
              /\ Guard!Judged(Guard!ValidateStructuredOutput(output, schema), 0)
              /\ approved \subseteq approved'
        BY <2>3 DEF Guard!CheckSchemaValidation
      <3>2. Guard!ValidateStructuredOutput(output, schema) \in BOOLEAN
        BY DEF Guard!ValidateStructuredOutput
      <3> QED BY <2>1, <3>1, <3>2, JudgedEffect
    <2>4. CASE Guard!Skip
      BY <2>1, <2>4, JudgedEffect DEF Guard!Skip
    <2>5. CASE Guard!AskModel
      BY <2>1, <2>5 DEF Guard!AskModel, GuardInv, RewritesAreJudged, Guard!RewritesAreJudged
    <2> QED BY <1>2, <2>2, <2>3, <2>4, <2>5 DEF Guard!EvaluateGuardrail
  <1>3. CASE Guard!JudgeAnswers
    <2>1. step = "judge" /\ UNCHANGED <<guardrails, made>>
      BY <1>3 DEF Guard!JudgeAnswers
    <2>2. PICK verdict \in {"passes", "fails", "broken"} :
            LET ok == verdict = "passes"
                vs == Append(judgements, [ok |-> ok, of |-> candidate])
                judged == IF ok THEN approved \cup {<<at, candidate>>} ELSE approved
            IN  IF verdict # "broken" /\ Guard!RewritesAgain(ok)
                THEN /\ step' = "rewrite" /\ judgements' = vs /\ approved' = judged
                     /\ UNCHANGED <<at, depth, content, candidate, rewritten, passed>>
                ELSE Guard!Returned(vs, judged)
      BY <1>3 DEF Guard!JudgeAnswers
    <2> DEFINE ok == verdict = "passes"
               last == [ok |-> ok, of |-> candidate]
               vs == Append(judgements, last)
               judged == IF ok THEN approved \cup {<<at, candidate>>} ELSE approved
    <2>3. last \in Judgement /\ (last.ok => <<at, last.of>> \in judged)
      BY DEF Judgement, GuardInv
    <2>4. approved \subseteq judged
      OBVIOUS
    <2>5. \/ /\ step' = "rewrite" /\ judgements' = vs /\ approved' = judged
             /\ UNCHANGED <<at, depth, content, candidate, rewritten, passed>>
          \/ Guard!Returned(vs, judged)
      BY <2>2
    <2> HIDE DEF last, judged
    <2>6. /\ vs \in Seq(Judgement) /\ Len(vs) >= 1
          /\ \A k \in DOMAIN vs : vs[k].ok => <<at, vs[k].of>> \in judged
      BY <2>3, <2>4 DEF GuardInv
    <2>7. CASE Guard!Returned(vs, judged)
      BY <2>1, <2>4, <2>6, <2>7, ReturnedEffect
    <2> HIDE DEF vs
    <2>8. CASE /\ step' = "rewrite" /\ judgements' = vs /\ approved' = judged
               /\ UNCHANGED <<at, depth, content, candidate, rewritten, passed>>
      BY <2>1, <2>4, <2>6, <2>8 DEF GuardInv, RewritesAreJudged, Guard!RewritesAreJudged
    <2> QED BY <2>5, <2>7, <2>8
  <1>4. CASE Guard!RewriteContent
    <2>0. step = "rewrite" /\ UNCHANGED guardrails
      BY <1>4 DEF Guard!RewriteContent
    <2>1. CASE Guard!Returned(judgements, approved) /\ UNCHANGED made
      <3>1. judgements \in Seq(Judgement) /\ Len(judgements) >= 1
        BY <2>0 DEF GuardInv
      <3>2. \A k \in DOMAIN judgements : judgements[k].ok => <<at, judgements[k].of>> \in approved
        BY DEF GuardInv
      <3> QED BY <2>0, <2>1, <3>1, <3>2, ReturnedEffect
    <2>2. CASE made' = made + 1 /\ candidate' = made + 1 /\ step' = "judge"
               /\ UNCHANGED <<at, content, judgements, rewritten, passed, approved>>
      <3>1. RewritesAreJudged'
        BY <2>0, <2>2 DEF GuardInv, RewritesAreJudged, Guard!RewritesAreJudged
      <3>2. made' \in Nat /\ candidate' \in Nat
        BY <2>2 DEF GuardInv
      <3>3. /\ step # "done" /\ step' # "rewrite" /\ at' = at /\ content' = content
            /\ judgements' = judgements /\ approved' = approved /\ guardrails' = guardrails
        BY <2>0, <2>2
      <3> QED BY <3>1, <3>2, <3>3 DEF GuardInv
    <2> QED BY <1>4, <2>1, <2>2 DEF Guard!RewriteContent
  <1> QED BY <1>1, <1>2, <1>3, <1>4 DEF Guard!GuardrailsNext

(* A rewritten content that replaced the given one was judged to pass by     *)
(* the guardrail that had it rewritten, for any list of guardrails.         *)
THEOREM RewritesPassed == Spec => []RewritesAreJudged
  <1>1. Init => GuardInv
    BY DEF Init, Guard!Init, GuardInv, RewritesAreJudged, Guard!RewritesAreJudged
  <1>2. GuardInv => RewritesAreJudged
    BY DEF GuardInv
  <1> QED BY <1>1, <1>2, GuardInvStep, PTL DEF Spec

-----------------------------------------------------------------------------
(* The handoffs of the dynamic mode.                                        *)

LEMMA DynamicStep == [Next]_vars => [Dynamic!DynamicNext]_(Dynamic!dynamicVars)
  BY DEF Next, Others, vars, dynamic, Dynamic!dynamicVars, Dynamic!runtimeVars, Dynamic!handoffVars

Verdicts == {"requested", "accepted", "rejected"}
Courses == SUBSET {"turn", "stop failed"}
HandoffResult ==
  [accepted : {TRUE, FALSE}, events : SUBSET Verdicts, target : {"none", "initializing", "running", "stopped"},
   course : Courses]

(* Where the handoff is tells which verdicts were announced and what had      *)
(* become of the target.                                                    *)
HandoffInv ==
  /\ accepted \in {TRUE, FALSE} /\ verdicts \subseteq Verdicts /\ course \in Courses
  /\ target \in {"none", "initializing", "running", "stopped"}
  /\ handoffAt \in {"request", "create", "turn", "accept"} => accepted = FALSE
  /\ handoffAt \in {"create", "turn", "accept"} => verdicts = {"requested"}
  /\ handoffAt \in {"request", "create", "turn"} => course = {}
  /\ handoffAt \in {"accept", "stop"} => course = {"turn"}
  /\ handoffAt = "stop" => verdicts = (IF accepted THEN {"requested", "accepted"} ELSE {"requested"})
  /\ handoffAt = "reject" => /\ "turn" \in course => target = "stopped"
                             /\ "accepted" \in verdicts => "stop failed" \in course

DynamicInv ==
  /\ HandoffInv /\ results \in Seq(HandoffResult)
  /\ dynAt \in {"start", "announce"} => nodeEvents = {}
  /\ HandoffsAreClosed

\* A handoff is answered with what became of it.
LEMMA AnswerEffect ==
  ASSUME DynamicInv, NEW result \in {TRUE, FALSE}, Dynamic!Answer(result),
         verdicts' \subseteq Verdicts, course' \in Courses,
         target' \in {"none", "initializing", "running", "stopped"},
         "turn" \in course' => target' = "stopped",
         (result <=> "accepted" \in verdicts' /\ "stop failed" \notin course'),
         result => verdicts' = {"requested", "accepted"} /\ "turn" \in course'
  PROVE  /\ results' \in Seq(HandoffResult)
         /\ \A k \in DOMAIN results' : Dynamic!Closed(results'[k])
  <1> DEFINE new == [accepted |-> result, events |-> verdicts', target |-> target', course |-> course']
  <1>1. new \in HandoffResult
    BY DEF HandoffResult
  <1>7. Dynamic!Closed(new)
    BY DEF Dynamic!Closed
  <1>2. results' = Append(results, new)
    BY DEF Dynamic!Answer
  <1> HIDE DEF new
  <1>3. \A k \in DOMAIN results : Dynamic!Closed(results[k])
    BY DEF DynamicInv, HandoffsAreClosed, Dynamic!HandoffsAreClosed
  <1>4. results \in Seq(HandoffResult)
    BY DEF DynamicInv
  <1>5. results' \in Seq(HandoffResult) /\ DOMAIN results' = 1..(Len(results) + 1)
        /\ results'[Len(results) + 1] = new /\ \A k \in DOMAIN results : results'[k] = results[k]
    BY ONLY <1>1, <1>2, <1>4
  <1>6. \A k \in DOMAIN results' : k \in DOMAIN results \/ k = Len(results) + 1
    BY ONLY <1>4, <1>5
  <1> QED BY ONLY <1>7, <1>3, <1>5, <1>6

LEMMA DynamicInvStep == DynamicInv /\ [Next]_vars => DynamicInv'
  <1> SUFFICES ASSUME DynamicInv, Dynamic!DynamicNext \/ UNCHANGED Dynamic!dynamicVars
               PROVE  DynamicInv'
    BY DynamicStep
  <1>1. CASE UNCHANGED Dynamic!dynamicVars
    BY <1>1 DEF DynamicInv, HandoffInv, HandoffsAreClosed, Dynamic!HandoffsAreClosed, Dynamic!dynamicVars,
                Dynamic!runtimeVars, Dynamic!handoffVars
  <1>2. CASE Dynamic!CreateOrchestrator \/ Dynamic!AnnounceNode \/ Dynamic!TurnEnds \/ Dynamic!CompleteNode
             \/ Dynamic!FailNode \/ Dynamic!Finally
    <2>1. UNCHANGED <<results, accepted, verdicts, handoffAt, course, target>>
      BY <1>2 DEF Dynamic!CreateOrchestrator, Dynamic!AnnounceNode, Dynamic!TurnEnds, Dynamic!CompleteNode,
                  Dynamic!FailNode, Dynamic!Finally, Dynamic!handoffVars, Dynamic!runtimeVars
    <2>2. /\ dynAt' \in {"start", "announce"} => nodeEvents' = {}
          /\ dynAt' \in {"resolved", "threw"} /\ nodeEvents' # {} => orchestrator' = "stopped"
      BY <1>2 DEF DynamicInv, HandoffsAreClosed, Dynamic!HandoffsAreClosed, Dynamic!CreateOrchestrator,
                  Dynamic!AnnounceNode, Dynamic!TurnEnds, Dynamic!CompleteNode, Dynamic!FailNode,
                  Dynamic!Finally, Dynamic!runtimeVars
    <2> QED BY <2>1, <2>2 DEF DynamicInv, HandoffInv, HandoffsAreClosed, Dynamic!HandoffsAreClosed
  <1>3. ASSUME UNCHANGED <<dynAt, orchestrator, nodeEvents>>, HandoffInv',
               \/ UNCHANGED results
               \/ \E result \in {TRUE, FALSE} :
                    /\ Dynamic!Answer(result)
                    /\ "turn" \in course' => target' = "stopped"
                    /\ (result <=> "accepted" \in verdicts' /\ "stop failed" \notin course')
                    /\ result => verdicts' = {"requested", "accepted"} /\ "turn" \in course'
        PROVE  DynamicInv'
    <2>1. /\ results' \in Seq(HandoffResult)
          /\ \A k \in DOMAIN results' : Dynamic!Closed(results'[k])
      <3>1. CASE UNCHANGED results
        BY <3>1 DEF DynamicInv, HandoffsAreClosed, Dynamic!HandoffsAreClosed
      <3>2. CASE ~UNCHANGED results
        <4>1. /\ verdicts' \subseteq Verdicts /\ course' \in Courses
              /\ target' \in {"none", "initializing", "running", "stopped"}
          BY <1>3 DEF HandoffInv
        <4> QED BY <1>3, <3>2, <4>1, AnswerEffect
      <3> QED BY <3>1, <3>2
    <2> QED BY <1>3, <2>1 DEF DynamicInv, HandoffsAreClosed, Dynamic!HandoffsAreClosed
  <1>i. HandoffInv
    BY DEF DynamicInv
  <1>4. CASE Dynamic!HandoffCalled
    <2>1. /\ UNCHANGED <<dynAt, orchestrator, nodeEvents>>
          /\ accepted' = FALSE /\ target' = "none" /\ course' = {}
          /\ \/ handoffAt' = "request" /\ UNCHANGED <<results, verdicts>>
             \/ verdicts' = {} /\ Dynamic!Answer(FALSE) /\ handoffAt' = "none"
      BY <1>4 DEF Dynamic!HandoffCalled
    <2>2. HandoffInv'
      BY <1>i, <2>1 DEF HandoffInv, Courses
    <2> QED BY <1>3, <2>1, <2>2
  <1>5. CASE Dynamic!HandoffRequested
    <2>1. /\ UNCHANGED <<dynAt, orchestrator, nodeEvents, target, accepted, course>> /\ handoffAt = "request"
          /\ \/ verdicts' = {"requested"} /\ handoffAt' = "create" /\ UNCHANGED results
             \/ verdicts' = {} /\ Dynamic!Answer(FALSE) /\ handoffAt' = "none"
      BY <1>5 DEF Dynamic!HandoffRequested, Dynamic!runtimeVars
    <2>2. HandoffInv' /\ course' = {}
      BY <1>i, <2>1 DEF HandoffInv, Verdicts
    <2> QED BY <1>3, <2>1, <2>2
  <1>6. CASE Dynamic!CreateTarget
    <2>1. /\ UNCHANGED <<dynAt, orchestrator, nodeEvents, accepted, verdicts, results, course>>
          /\ handoffAt = "create" /\ handoffAt' \in {"turn", "reject"} /\ target' \in {"initializing", "running"}
      BY <1>6 DEF Dynamic!CreateTarget
    <2>2. HandoffInv'
      BY <1>i, <2>1 DEF HandoffInv, Verdicts
    <2> QED BY <1>3, <2>1, <2>2
  <1>7. CASE Dynamic!TargetTurn
    <2>1. /\ UNCHANGED <<dynAt, orchestrator, nodeEvents, accepted, verdicts, results, target>>
          /\ handoffAt = "turn" /\ handoffAt' \in {"accept", "stop"} /\ course' = {"turn"}
      BY <1>7 DEF Dynamic!TargetTurn, Dynamic!runtimeVars
    <2>2. HandoffInv'
      BY <1>i, <2>1 DEF HandoffInv, Verdicts, Courses
    <2> QED BY <1>3, <2>1, <2>2
  <1>8. CASE Dynamic!AcceptHandoff
    <2>1. /\ UNCHANGED <<dynAt, orchestrator, nodeEvents, results, target, course>>
          /\ handoffAt = "accept" /\ handoffAt' = "stop"
          /\ \/ accepted' = TRUE /\ verdicts' = verdicts \cup {"accepted"}
             \/ UNCHANGED <<accepted, verdicts>>
      BY <1>8 DEF Dynamic!AcceptHandoff, Dynamic!runtimeVars
    <2>2. CASE accepted' = TRUE /\ verdicts' = verdicts \cup {"accepted"}
      <3>1. verdicts' = {"requested", "accepted"}
        BY <1>i, <2>1, <2>2 DEF HandoffInv
      <3>2. HandoffInv'
        BY <1>i, <2>1, <2>2, <3>1 DEF HandoffInv, Verdicts
      <3> QED BY <1>3, <2>1, <3>2
    <2>3. CASE UNCHANGED <<accepted, verdicts>>
      <3>1. HandoffInv'
        BY <1>i, <2>1, <2>3 DEF HandoffInv
      <3> QED BY <1>3, <2>1, <3>1
    <2> QED BY <2>1, <2>2, <2>3
  <1>9. CASE Dynamic!StopTarget
    <2>1. /\ UNCHANGED <<dynAt, orchestrator, nodeEvents, verdicts>> /\ handoffAt = "stop" /\ target' = "stopped"
          /\ \/ /\ accepted /\ handoffAt' = "none" /\ UNCHANGED <<accepted, course>> /\ Dynamic!Answer(TRUE)
             \/ ~accepted /\ handoffAt' = "reject" /\ UNCHANGED <<accepted, results, course>>
             \/ /\ handoffAt' = "reject" /\ accepted' = FALSE /\ course' = course \cup {"stop failed"}
                /\ UNCHANGED results
      BY <1>9 DEF Dynamic!StopTarget
    <2>2. HandoffInv'
      BY <1>i, <2>1 DEF HandoffInv, Courses
    <2>3. CASE accepted /\ handoffAt' = "none" /\ UNCHANGED <<accepted, course>> /\ Dynamic!Answer(TRUE)
      <3>1. verdicts' = {"requested", "accepted"} /\ course' = {"turn"}
        BY <1>i, <2>1, <2>3 DEF HandoffInv
      <3> QED BY <1>3, <2>1, <2>2, <2>3, <3>1
    <2> QED BY <1>3, <2>1, <2>2, <2>3
  <1>10. CASE Dynamic!RejectHandoff
    <2>1. /\ UNCHANGED <<dynAt, orchestrator, nodeEvents, target, accepted, course>> /\ handoffAt = "reject"
          /\ handoffAt' = "none" /\ verdicts' \in {verdicts, verdicts \cup {"rejected"}} /\ Dynamic!Answer(FALSE)
      BY <1>10 DEF Dynamic!RejectHandoff, Dynamic!runtimeVars
    <2>2. HandoffInv'
      BY <1>i, <2>1 DEF HandoffInv, Verdicts
    <2>3. /\ "turn" \in course' => target' = "stopped"
          /\ "accepted" \in verdicts' => "stop failed" \in course'
      BY <1>i, <2>1 DEF HandoffInv
    <2> QED BY <1>3, <2>1, <2>2, <2>3
  <1> QED BY <1>1, <1>2, <1>4, <1>5, <1>6, <1>7, <1>8, <1>9, <1>10 DEF Dynamic!DynamicNext

(* An orchestrator that was announced is stopped when execute settles, a      *)
(* target that was given its turn when its handoff is answered, and a handoff  *)
(* is shown as accepted exactly when it was announced so and the stop of its   *)
(* target did not fail, for any number of handoffs and whatever event, turn or *)
(* stop fails.                                                              *)
THEOREM HandoffsClose == Spec => []HandoffsAreClosed
  <1>1. Init => DynamicInv
    <2> SUFFICES ASSUME Dynamic!Init PROVE DynamicInv
      BY DEF Init
    <2>1. results \in Seq(HandoffResult) /\ DOMAIN results = {}
      BY DEF Dynamic!Init
    <2>2. accepted \in {TRUE, FALSE}
      BY Zenon DEF Dynamic!Init
    <2>3. HandoffInv
      BY <2>2 DEF Dynamic!Init, HandoffInv, Courses
    <2> QED BY <2>1, <2>3 DEF Dynamic!Init, DynamicInv, HandoffsAreClosed, Dynamic!HandoffsAreClosed
  <1>2. DynamicInv => HandoffsAreClosed
    BY DEF DynamicInv
  <1> QED BY <1>1, <1>2, DynamicInvStep, PTL DEF Spec

-----------------------------------------------------------------------------
(* The states a state machine announces.                                    *)

LEMMA MachineStep == [Next]_vars => [Sm!StateMachineNext]_(Sm!smVars)
  BY DEF Next, Others, vars, machine, Sm!smVars

(* Only the current state is announced as started, and only while it runs, or *)
(* when it failed after its run was deleted.                                *)
MachineInv ==
  /\ sm \in Machines /\ DOMAIN announced = DOMAIN sm.type
  /\ smAt \in {"announce", "task", "wait", "choice", "error"} => current \in DOMAIN sm.type
  /\ smAt = "announce" => sm.type[current] \in {"task", "wait", "choice"}
  /\ \A s \in DOMAIN sm.type :
       announced[s] = "started" =>
         s = current /\ (smAt \in {"task", "wait", "choice", "error"} \/ (smAt = "threw" /\ forgotten))

LEMMA MachineInvStep == MachineInv /\ [Next]_vars => MachineInv'
  <1> SUFFICES ASSUME MachineInv, Sm!StateMachineNext \/ UNCHANGED Sm!smVars
               PROVE  MachineInv'
    BY MachineStep
  <1>1. CASE UNCHANGED Sm!smVars \/ Sm!Abort \/ Sm!RunIsDeleted
    BY <1>1 DEF MachineInv, Sm!smVars, Sm!Abort, Sm!RunIsDeleted
  <1>2. CASE Sm!ExecuteStateMachine
    <2>1. current \in DOMAIN sm.type => sm.type[current] \in {"task", "choice", "wait", "succeed", "fail"}
      BY MachineAssumption DEF MachineInv
    <2> QED BY <1>2, <2>1 DEF MachineInv, Sm!ExecuteStateMachine, Sm!States
  <1>3. CASE Sm!PublishStarted
    BY <1>3 DEF MachineInv, Sm!PublishStarted
  <1>4. CASE Sm!HandleNodeError
    BY <1>4 DEF MachineInv, Sm!HandleNodeError
  <1>5. CASE Sm!WaitOrChoose
    BY <1>5 DEF MachineInv, Sm!WaitOrChoose, Sm!NextState
  <1>6. CASE Sm!ExecuteStateTask
    BY <1>6 DEF MachineInv, Sm!ExecuteStateTask, Sm!NextState
  <1> QED BY <1>1, <1>2, <1>3, <1>4, <1>5, <1>6 DEF Sm!StateMachineNext

(* Each state announced as started is announced as ended: at most one is     *)
(* open, and none when the machine has settled, save one that failed after    *)
(* its run was deleted, for any machines whose states are of the known types. *)
THEOREM StartsEnd == Spec => []EveryStartEnds
  <1>1. Init => MachineInv
    BY DEF Init, Sm!Init, MachineInv
  <1>2. MachineInv => EveryStartEnds
    <2> SUFFICES ASSUME MachineInv PROVE EveryStartEnds
      OBVIOUS
    <2> DEFINE open == {s \in Sm!States : announced[s] = "started"}
    <2>1. open \subseteq {current} /\ (smAt \in Sm!Settled /\ open # {} => forgotten /\ smAt = "threw")
      BY DEF MachineInv, Sm!States, Sm!Settled
    <2>2. \A S : Sm!Cardinality(S) = Cardinality(S)
      BY DEF Sm!Cardinality, Cardinality
    <2>3. open = {} \/ open = {current}
      BY <2>1
    <2>4. Cardinality({}) = 0 /\ Cardinality({current}) = 1
      BY FS_EmptySet, FS_Singleton
    <2>5. Cardinality(open) <= 1
      BY <2>3, <2>4
    <2> QED BY <2>1, <2>2, <2>5 DEF EveryStartEnds, Sm!EveryStartEnds
  <1> QED BY <1>1, <1>2, MachineInvStep, PTL DEF Spec

-----------------------------------------------------------------------------
(* The directories of the workspace manager.                                *)

LEMMA FoldersStep == [Next]_vars => [Folders!WorkspaceNext]_(Folders!workspaceVars)
  BY DEF Next, Others, vars, folders, Folders!workspaceVars

\* w was created, and the call of create is over.
WasMade(w) == config[w] # Folders!Unused /\ making[w] = "no"

(* Nothing is recorded again; and what disposeAll found and went past is     *)
(* forgotten or is being removed.                                           *)
FoldersInv ==
  /\ DOMAIN config = Workspaces /\ DOMAIN making = Workspaces /\ workspaces \subseteq Workspaces
  /\ disk \subseteq Workspaces
  /\ \A w \in Workspaces : w \in disk \/ making[w] = "made" => config[w] # Folders!Unused
  /\ disposal \in [at : {"idle", "running", "done"}, found : SUBSET Workspaces, todo : SUBSET Workspaces,
                    awaited : SUBSET Workspaces]
  /\ \A w \in workspaces \cup disposal.found : WasMade(w)
  /\ cleanupInProgress \subseteq Workspaces
  /\ (disposal.found \ disposal.todo) \cap workspaces \subseteq cleanupInProgress
  /\ disposal.at = "done" => disposal.todo = {}
  /\ DirectoriesAreAccounted

\* cleanup, up to its first await, only forgets what is to be kept.
LEMMA BeginCleanupEffect ==
  ASSUME FoldersInv, NEW w \in Workspaces, Folders!BeginCleanup(w)
  PROVE  /\ cleanupInProgress \subseteq cleanupInProgress' /\ cleanupInProgress' \subseteq cleanupInProgress \cup {w}
         /\ workspaces' \subseteq workspaces /\ workspaces \subseteq workspaces' \cup {w}
         /\ w \in workspaces' => w \in cleanupInProgress'
         /\ w \in workspaces \ workspaces' => ~config[w].cleanup
  BY DEF Folders!BeginCleanup

LEMMA FoldersInvStep == FoldersInv /\ [Next]_vars => FoldersInv'
  <1> SUFFICES ASSUME FoldersInv, Folders!WorkspaceNext \/ UNCHANGED Folders!workspaceVars
               PROVE  FoldersInv'
    BY FoldersStep
  <1> USE DEF DirectoriesAreAccounted, Folders!DirectoriesAreAccounted, WasMade
  <1>1. CASE UNCHANGED Folders!workspaceVars
    BY <1>1 DEF FoldersInv, Folders!workspaceVars
  <1>2. ASSUME NEW w \in Workspaces, NEW c \in Configs, Folders!Create(w, c)
        PROVE  FoldersInv'
    BY <1>2 DEF FoldersInv, Folders!Create
  <1>3. ASSUME NEW w \in Workspaces, Folders!MakeDirectory(w)
        PROVE  FoldersInv'
    BY <1>3 DEF FoldersInv, Folders!MakeDirectory, Folders!Unused
  <1>4. ASSUME NEW w \in Workspaces, Folders!CreateThrows(w)
        PROVE  FoldersInv'
    BY <1>4 DEF FoldersInv, Folders!CreateThrows
  <1>5. ASSUME NEW w \in Workspaces, Folders!Record(w)
        PROVE  FoldersInv'
    BY <1>5 DEF FoldersInv, Folders!Record
  <1>6. ASSUME NEW w \in Workspaces, Folders!Cleanup(w)
        PROVE  FoldersInv'
    <2>1. Folders!BeginCleanup(w) /\ UNCHANGED <<config, making, disk, leftovers, disposal>>
      BY <1>6 DEF Folders!Cleanup
    <2>2. /\ cleanupInProgress \subseteq cleanupInProgress' /\ cleanupInProgress' \subseteq cleanupInProgress \cup {w}
          /\ workspaces' \subseteq workspaces /\ workspaces \subseteq workspaces' \cup {w}
          /\ w \in workspaces \ workspaces' => ~config[w].cleanup
      BY <2>1, BeginCleanupEffect
    <2>3. DirectoriesAreAccounted'
      BY <2>1, <2>2 DEF FoldersInv
    <2>4. /\ \A v \in workspaces' \cup disposal'.found : WasMade(v)'
          /\ (disposal'.found \ disposal'.todo) \cap workspaces' \subseteq cleanupInProgress'
      BY <2>1, <2>2 DEF FoldersInv
    <2>5. workspaces' \subseteq Workspaces /\ cleanupInProgress' \subseteq Workspaces
      BY <2>2 DEF FoldersInv
    <2> QED BY <2>1, <2>3, <2>4, <2>5 DEF FoldersInv
  <1>7. ASSUME NEW w \in Workspaces, Folders!RemovalEnds(w)
        PROVE  FoldersInv'
    <2>1. /\ cleanupInProgress' = cleanupInProgress \ {w} /\ workspaces' = workspaces \ {w}
          /\ disposal' = [disposal EXCEPT !.awaited = @ \ {w}] /\ UNCHANGED <<config, making>>
          /\ \/ disk' = disk \ {w} /\ leftovers' = leftovers
             \/ disk' = disk /\ leftovers' = leftovers \cup {w}
      BY <1>7 DEF Folders!RemovalEnds, Folders!Forget
    <2> QED BY <2>1 DEF FoldersInv
  <1>8. ASSUME NEW w \in Workspaces, Folders!DisposeNext(w)
        PROVE  FoldersInv'
    <2>1. /\ Folders!BeginCleanup(w) /\ UNCHANGED <<config, making, disk, leftovers>> /\ disposal.at = "running"
          /\ disposal' = [disposal EXCEPT !.todo = @ \ {w}, !.awaited = cleanupInProgress' \ cleanupInProgress]
      BY <1>8 DEF Folders!DisposeNext
    <2>2. /\ cleanupInProgress \subseteq cleanupInProgress' /\ cleanupInProgress' \subseteq cleanupInProgress \cup {w}
          /\ workspaces' \subseteq workspaces /\ workspaces \subseteq workspaces' \cup {w}
          /\ w \in workspaces' => w \in cleanupInProgress'
          /\ w \in workspaces \ workspaces' => ~config[w].cleanup
      BY <2>1, BeginCleanupEffect
    <2>3. /\ disposal'.at = disposal.at /\ disposal'.found = disposal.found /\ disposal'.todo = disposal.todo \ {w}
          /\ disposal'.awaited = cleanupInProgress' \ cleanupInProgress
      BY <2>1 DEF FoldersInv
    <2>4. workspaces' \subseteq Workspaces /\ cleanupInProgress' \subseteq Workspaces
      BY <2>2 DEF FoldersInv
    <2>5. disposal' \in [at : {"idle", "running", "done"}, found : SUBSET Workspaces, todo : SUBSET Workspaces,
                        awaited : SUBSET Workspaces]
      BY <2>1, <2>4 DEF FoldersInv
    <2>6. /\ \A v \in workspaces' \cup disposal'.found : WasMade(v)'
          /\ (disposal'.found \ disposal'.todo) \cap workspaces' \subseteq cleanupInProgress'
      BY <2>1, <2>2, <2>3 DEF FoldersInv
    <2>7. DirectoriesAreAccounted' /\ disposal'.at # "done"
      BY <2>1, <2>2, <2>3 DEF FoldersInv
    <2> QED BY <2>1, <2>4, <2>5, <2>6, <2>7 DEF FoldersInv
  <1>9. CASE Folders!DisposeAll
    BY <1>9 DEF FoldersInv, Folders!DisposeAll
  <1>10. CASE Folders!DisposeEnds
    BY <1>10 DEF FoldersInv, Folders!DisposeEnds
  <1> QED BY <1>1, <1>2, <1>3, <1>4, <1>5, <1>6, <1>7, <1>8, <1>9, <1>10 DEF Folders!WorkspaceNext

(* No directory is lost track of unless it was to be kept or could not be    *)
(* removed, and disposeAll leaves of what it found only what is being        *)
(* removed by others, for any number of workspaces and calls.               *)
THEOREM DirectoriesAreTracked == Spec => []DirectoriesAreAccounted
  <1>1. Init => FoldersInv
    BY DEF Init, Folders!Init, FoldersInv, DirectoriesAreAccounted, Folders!DirectoriesAreAccounted
  <1>2. FoldersInv => DirectoriesAreAccounted
    BY DEF FoldersInv
  <1> QED BY <1>1, <1>2, FoldersInvStep, PTL DEF Spec

-----------------------------------------------------------------------------
(* The alerts of the monitor.                                               *)

LEMMA AlertStep == [Next]_vars => [Alerting!AlertNext]_(Alerting!alertVars)
  BY DEF Next, Others, vars, alerting, Alerting!alertVars

(* No evaluation of a rule found its condition unmet since firingStates says *)
(* so, and a rule that is not registered has no such time.                  *)
AlertInv ==
  /\ now \in Nat /\ \A r \in DOMAIN rules : rules[r] \in RuleDefinitions
  /\ firingStates \in [AlertRules -> Int] /\ lastUnmet \in [AlertRules -> Nat]
  /\ \A r \in AlertRules :
       /\ lastUnmet[r] <= now
       /\ firingStates[r] # -1 => lastUnmet[r] <= firingStates[r] /\ firingStates[r] <= now
       /\ r \notin DOMAIN rules => firingStates[r] = -1

\* An alert that an evaluation fires is sustained and the only active one.
Sustained ==
  \A a \in alerts' \ alerts : a.status = "firing" =>
    /\ a.at - lastUnmet[a.rule] >= rules[a.rule].durationMs
    /\ Alerting!Active(a.rule) = {}

LEMMA AlertInvStep == AlertInv /\ [Next]_vars => AlertInv' /\ [Sustained]_(Alerting!alertVars)
  <1> SUFFICES ASSUME AlertInv, Alerting!AlertNext
               PROVE  AlertInv' /\ Sustained
    BY AlertStep DEF AlertInv, Alerting!alertVars
  <1>1. CASE Alerting!Tick
    BY <1>1 DEF AlertInv, Sustained, Alerting!Tick
  <1>2. ASSUME NEW r \in AlertRules, NEW definition \in RuleDefinitions, Alerting!AddRule(r, definition)
        PROVE  AlertInv' /\ Sustained
    BY <1>2 DEF AlertInv, Sustained, Alerting!AddRule
  <1>5. ASSUME NEW r \in AlertRules, Alerting!RemoveRule(r)
        PROVE  AlertInv' /\ Sustained
    BY <1>5 DEF AlertInv, Sustained, Alerting!RemoveRule
  <1>3. ASSUME NEW r \in AlertRules, Alerting!Evaluate(r)
        PROVE  AlertInv' /\ Sustained
    <2>1. r \in DOMAIN rules /\ rules[r].durationMs \in Nat /\ UNCHANGED <<now, rules>>
      BY <1>3, AlertAssumption DEF AlertInv, Alerting!Evaluate
    <2>2. CASE Alerting!ConditionUnmet(r)
      BY <2>1, <2>2 DEF AlertInv, Sustained, Alerting!ConditionUnmet
    <2>3. CASE Alerting!HandleConditionMet(r) /\ UNCHANGED lastUnmet
      <3>1. AlertInv'
        BY <2>1, <2>3 DEF AlertInv, Alerting!HandleConditionMet
      <3>2. CASE UNCHANGED alerts
        BY <3>1, <3>2 DEF Sustained
      <3>3. CASE Alerting!FireAlert(r) /\ Alerting!Active(r) = {}
                 /\ ~Alerting!TooEarly(r)
        <4>1. now - lastUnmet[r] >= rules[r].durationMs
          BY <2>1, <3>3 DEF AlertInv, Alerting!TooEarly
        <4>2. \A a \in alerts' \ alerts : a.rule = r /\ a.at = now
          BY <3>3 DEF Alerting!FireAlert
        <4> QED BY <3>1, <3>3, <4>1, <4>2 DEF Sustained
      <3> QED BY <2>3, <3>2, <3>3 DEF Alerting!HandleConditionMet
    <2> QED BY <1>3, <2>2, <2>3 DEF Alerting!Evaluate
  <1>4. ASSUME NEW a \in alerts, Alerting!AcknowledgeAlert(a) \/ Alerting!ResolveAlert(a)
        PROVE  AlertInv' /\ Sustained
    <2>1. AlertInv'
      BY <1>4 DEF AlertInv, Alerting!AcknowledgeAlert, Alerting!ResolveAlert
    <2>2. PICK status \in {"acknowledged", "resolved"} :
            alerts' = (alerts \ {a}) \cup {[a EXCEPT !.status = status]} /\ a.status # status
      BY <1>4 DEF Alerting!AcknowledgeAlert, Alerting!ResolveAlert
    <2>3. [a EXCEPT !.status = status].status # "firing" \/ [a EXCEPT !.status = status] = a
      BY <2>2
    <2> QED BY <2>1, <2>2, <2>3 DEF Sustained
  <1> QED BY <1>1, <1>2, <1>3, <1>4, <1>5 DEF Alerting!AlertNext

(* An alert fires only when, for the duration of the rule in force, no       *)
(* evaluation found the condition then in force unmet, and when no other     *)
(* alert of the rule is active, for any rules and however they are           *)
(* overwritten.                                                             *)
THEOREM AlertsSustained == Spec => AlertsAreSustained
  <1>1. Init => AlertInv
    BY DEF Init, Alerting!Init, AlertInv
  <1>2. AlertsAreSustained <=> [][Sustained]_(Alerting!alertVars)
    BY DEF AlertsAreSustained, Alerting!AlertsAreSustained, Sustained
  <1> QED BY <1>1, <1>2, AlertInvStep, PTL DEF Spec

-----------------------------------------------------------------------------
(* The messages of the broker.                                              *)

LEMMA BrokerStep == [Next]_vars => [Broker!BrokerNext]_(Broker!brokerVars)
  BY DEF Next, Others, vars, broker, Broker!brokerVars, Broker!receiveVars, Broker!requestVars

\* The message the generator was woken with.
InHand == IF inHand = 0 THEN <<>> ELSE <<inHand>>
\* n messages in the order sent, from the first one heard.
Heard(first, n) == [i \in 1..n |-> first + i - 1]

(* A message is in the receiver's hand while its wait is over and it has not *)
(* gone on; a receiver that waits has an empty queue.                       *)
BrokerInv ==
  /\ sent \in Nat /\ heardFrom \in 0..sent /\ inHand \in Nat
  /\ received \in Seq(Nat) /\ queue \in Seq(Nat)
  /\ inHand # 0 <=> receiver = "resolved"
  /\ receiver \in {"new", "waiting", "resolved", "yielded", "done"}
  /\ receiver = "new" => heardFrom = 0
  /\ receiver = "waiting" => queue = <<>>
  /\ heardFrom = 0 => received = <<>> /\ queue = <<>> /\ inHand = 0
  /\ Broker!Listening /\ heardFrom # 0 =>
       (received \o InHand) \o queue = Heard(heardFrom, sent - heardFrom + 1)

\* One more message is heard.
LEMMA HeardOneMore ==
  ASSUME NEW first \in Nat, NEW n \in Nat
  PROVE  Append(Heard(first, n), first + n) = Heard(first, n + 1) /\ Heard(first, n) \in Seq(Nat \cup {-1})
  BY DEF Heard

LEMMA AppendLast ==
  ASSUME NEW s \in Seq(Nat), NEW q \in Seq(Nat), NEW x \in Nat
  PROVE  s \o Append(q, x) = Append(s \o q, x)
  OBVIOUS

LEMMA BrokerInvStep == BrokerInv /\ [Next]_vars => BrokerInv'
  <1> SUFFICES ASSUME BrokerInv, Broker!BrokerNext \/ UNCHANGED Broker!brokerVars
               PROVE  BrokerInv'
    BY BrokerStep
  <1> USE DEF Broker!Listening
  <1>1. CASE UNCHANGED <<sent, receiver, queue, inHand, received, heardFrom>>
    BY <1>1 DEF BrokerInv, InHand, Heard
  <1>2. CASE Broker!Send
    <2>0. sent' = sent + 1 /\ UNCHANGED <<received, stopped>>
      BY <1>2 DEF Broker!Send
    <2>1. CASE ~Broker!Listening
      <3>1. UNCHANGED <<queue, inHand, receiver, heardFrom>>
        BY <1>2, <2>1 DEF Broker!Send
      <3> QED BY <2>0, <2>1, <3>1 DEF BrokerInv
    <2>2. CASE Broker!Listening
      <3>0. Broker!Hear(sent + 1) /\ heardFrom' = IF heardFrom = 0 THEN sent + 1 ELSE heardFrom
        BY <1>2, <2>2 DEF Broker!Send
      <3>1. CASE receiver = "waiting"
        <4>1. inHand' = sent + 1 /\ receiver' = "resolved" /\ queue' = <<>> /\ queue = <<>> /\ InHand = <<>>
              /\ InHand' = <<sent + 1>>
          BY <3>0, <3>1 DEF Broker!Hear, BrokerInv, InHand
        <4>2. (received' \o InHand') \o queue' = Append((received \o InHand) \o queue, sent + 1)
          BY <2>0, <4>1 DEF BrokerInv
        <4>3. CASE heardFrom = 0
          <5>1. received = <<>> /\ heardFrom' = sent + 1
            BY <3>0, <4>3 DEF BrokerInv
          <5>2. (received' \o InHand') \o queue' = <<sent + 1>>
            BY <2>0, <4>1, <5>1 DEF BrokerInv
          <5>3. Heard(sent + 1, 1) = <<sent + 1>>
            BY DEF Heard, BrokerInv
          <5> QED BY <2>0, <3>0, <3>1, <4>1, <5>1, <5>2, <5>3 DEF BrokerInv
        <4>4. CASE heardFrom # 0
          <5>1. (received \o InHand) \o queue = Heard(heardFrom, sent - heardFrom + 1) /\ heardFrom' = heardFrom
            BY <2>2, <3>0, <4>4 DEF BrokerInv
          <5>2. Append(Heard(heardFrom, sent - heardFrom + 1), sent + 1) = Heard(heardFrom, sent' - heardFrom + 1)
            <6>1. sent - heardFrom + 1 \in Nat /\ heardFrom \in Nat /\ heardFrom + (sent - heardFrom + 1) = sent + 1
                  /\ sent' - heardFrom + 1 = (sent - heardFrom + 1) + 1
              BY <2>0 DEF BrokerInv
            <6> QED BY <6>1, HeardOneMore
          <5>3. (received' \o InHand') \o queue' = Heard(heardFrom', sent' - heardFrom' + 1)
            BY <4>2, <5>1, <5>2
          <5>4. /\ sent' \in Nat /\ heardFrom' \in 0..sent' /\ heardFrom' # 0 /\ inHand' \in Nat /\ inHand' # 0
                /\ received' \in Seq(Nat) /\ queue' \in Seq(Nat)
            BY <2>0, <4>1, <4>4, <5>1 DEF BrokerInv
          <5> QED BY ONLY <4>1, <5>3, <5>4 DEF BrokerInv
        <4> QED BY <4>3, <4>4
      <3>2. CASE receiver # "waiting"
        <4>1. UNCHANGED <<inHand, receiver>> /\ queue' = Append(queue, sent + 1) /\ InHand' = InHand
              /\ InHand \in Seq(Nat)
          BY <3>0, <3>2 DEF Broker!Hear, BrokerInv, InHand
        <4>2. (received' \o InHand') \o queue' = Append((received \o InHand) \o queue, sent + 1)
          <5>1. received \o InHand \in Seq(Nat) /\ queue \in Seq(Nat) /\ sent + 1 \in Nat
            BY <4>1 DEF BrokerInv
          <5>2. (received \o InHand) \o Append(queue, sent + 1) = Append((received \o InHand) \o queue, sent + 1)
            BY <5>1, AppendLast
          <5> QED BY <2>0, <4>1, <5>2
        <4>3. CASE heardFrom = 0
          <5>1. received = <<>> /\ queue = <<>> /\ inHand = 0 /\ InHand = <<>> /\ heardFrom' = sent + 1
            BY <3>0, <4>3 DEF BrokerInv, InHand
          <5>2. (received' \o InHand') \o queue' = <<sent + 1>>
            BY <2>0, <4>1, <5>1 DEF BrokerInv
          <5>3. Heard(sent + 1, 1) = <<sent + 1>>
            BY DEF Heard, BrokerInv
          <5> QED BY <2>0, <2>2, <3>0, <3>2, <4>1, <5>1, <5>2, <5>3 DEF BrokerInv
        <4>4. CASE heardFrom # 0
          <5>1. (received \o InHand) \o queue = Heard(heardFrom, sent - heardFrom + 1) /\ heardFrom' = heardFrom
            BY <2>2, <3>0, <4>4 DEF BrokerInv
          <5>2. Append(Heard(heardFrom, sent - heardFrom + 1), sent + 1) = Heard(heardFrom, sent' - heardFrom + 1)
            <6>1. sent - heardFrom + 1 \in Nat /\ heardFrom \in Nat /\ heardFrom + (sent - heardFrom + 1) = sent + 1
                  /\ sent' - heardFrom + 1 = (sent - heardFrom + 1) + 1
              BY <2>0 DEF BrokerInv
            <6> QED BY <6>1, HeardOneMore
          <5>3. (received' \o InHand') \o queue' = Heard(heardFrom', sent' - heardFrom' + 1)
            BY <4>2, <5>1, <5>2
          <5>4. /\ sent' \in Nat /\ heardFrom' \in 0..sent' /\ heardFrom' # 0 /\ inHand' \in Nat
                /\ received' \in Seq(Nat) /\ queue' \in Seq(Nat)
                /\ receiver' \in {"resolved", "yielded"} /\ (inHand' # 0 <=> receiver' = "resolved")
            BY <2>0, <2>2, <3>2, <4>1, <4>4, <5>1 DEF BrokerInv
          <5> QED BY ONLY <5>3, <5>4 DEF BrokerInv
        <4> QED BY <4>3, <4>4
      <3> QED BY <3>1, <3>2
    <2> QED BY <2>1, <2>2
  <1>3. CASE Broker!Pull
    <2>0. /\ receiver \in {"new", "yielded"} /\ inHand = 0 /\ InHand = <<>> /\ InHand' = <<>>
          /\ UNCHANGED <<sent, inHand, heardFrom>>
      BY <1>3 DEF Broker!Pull, BrokerInv, InHand
    <2>1. CASE receiver' = "done" /\ UNCHANGED <<queue, received>>
      BY <2>0, <2>1 DEF BrokerInv
    <2>2. CASE queue # <<>> /\ receiver' = "yielded" /\ received' = Append(received, Head(queue)) /\ queue' = Tail(queue)
      <3>1. (received' \o InHand') \o queue' = (received \o InHand) \o queue
        <4>1. Append(received, Head(queue)) \o Tail(queue) = received \o queue
          BY <2>2 DEF BrokerInv
        <4>2. received' \o <<>> = received' /\ received \o <<>> = received /\ received' \in Seq(Nat)
          BY <2>2 DEF BrokerInv
        <4> QED BY <2>0, <2>2, <4>1, <4>2
      <3>2. received' \in Seq(Nat) /\ queue' \in Seq(Nat) /\ heardFrom # 0
        BY <2>2 DEF BrokerInv
      <3>3. receiver # "new"
        BY <3>2 DEF BrokerInv
      <3> QED BY <2>0, <2>2, <3>1, <3>2, <3>3 DEF BrokerInv
    <2>3. CASE queue = <<>> /\ receiver' = "waiting" /\ UNCHANGED <<queue, received>>
      BY <2>0, <2>3 DEF BrokerInv
    <2> QED BY <1>3, <2>1, <2>2, <2>3 DEF Broker!Pull
  <1>4. CASE Broker!Resume
    <2>1. /\ receiver = "resolved" /\ receiver' = "yielded" /\ received' = Append(received, inHand) /\ inHand' = 0
          /\ UNCHANGED <<sent, queue, heardFrom>>
      BY <1>4 DEF Broker!Resume
    <2>2. InHand = <<inHand>> /\ InHand' = <<>> /\ inHand # 0
      BY <2>1 DEF BrokerInv, InHand
    <2>3. received \o InHand = received' \o InHand'
      BY <2>1, <2>2 DEF BrokerInv
    <2>4. received' \in Seq(Nat)
      BY <2>1 DEF BrokerInv
    <2> QED BY <2>1, <2>2, <2>3, <2>4 DEF BrokerInv
  <1>5. CASE Broker!StopReceiving \/ Broker!Leave
    <2>1. receiver' \in {"done", receiver} /\ UNCHANGED <<sent, queue, inHand, received, heardFrom>>
          /\ (receiver' # receiver => receiver # "resolved") /\ InHand' = InHand
      BY <1>5 DEF Broker!StopReceiving, Broker!Leave, InHand
    <2> QED BY <2>1 DEF BrokerInv
  <1>6. ASSUME NEW r \in Requests, Broker!Request(r) \/ Broker!RequestTimesOut(r)
        PROVE  BrokerInv'
    BY <1>1, <1>6 DEF Broker!Request, Broker!RequestTimesOut, Broker!receiveVars
  <1> QED
    BY <1>1, <1>2, <1>3, <1>4, <1>5, <1>6 DEF Broker!BrokerNext, Broker!brokerVars, Broker!receiveVars

(* From the first message heard on, the receiver is given each one once and  *)
(* in the order sent, however many are sent and whenever they come.         *)
THEOREM MessagesArrive == Spec => []NothingIsLost
  <1>1. Init => BrokerInv
    BY DEF Init, Broker!Init, BrokerInv, Broker!Listening
  <1>2. BrokerInv => NothingIsLost
    BY DEF BrokerInv, NothingIsLost, Broker!NothingIsLost, InHand, Heard
  <1> QED BY <1>1, <1>2, BrokerInvStep, PTL DEF Spec

-----------------------------------------------------------------------------
(* Catching up with the event store.                                        *)

LEMMA BusStep == [Next]_vars => [Bus!BusNext]_(Bus!busVars)
  BY DEF Next, Others, vars, bus, Bus!busVars, Bus!subscriptionVars, Bus!storeVars, Bus!readerVars

(* What is stored is not stored again.  A replay from the start has been      *)
(* given, in part, or has still to yield, some rows from the oldest on, which  *)
(* hold all it was given; one after an event has still to yield rows in their  *)
(* order.  Unless the reader left a replay from the start part way, it was     *)
(* given all the rows up to its last event.                                  *)
Before(e) == \A r \in DOMAIN rows : rows[r] = e => \A q \in 1..r : rows[q] \in seen

FirstReplay(n) ==
  /\ n \in 0..Len(rows) /\ \A q \in 1..n : rows[q] \in seen \cup Bus!Range(fetched)
  /\ \A i \in DOMAIN fetched : \E q \in 1..n : fetched[i] = rows[q]

LaterReplay(n) ==
  /\ lastSeen # 0 /\ n \in 1..Len(rows) /\ rows[n] = lastSeen /\ n + Len(fetched) <= Len(rows)
  /\ \A i \in DOMAIN fetched : fetched[i] = rows[n + i]

StoreInv ==
  /\ rows \in Seq(Bus!Events) /\ created \subseteq Bus!Events /\ fetched \in Seq(Bus!Events)
  /\ created \cap Bus!Range(rows) = {}
  /\ \A r, q \in DOMAIN rows : rows[r] = rows[q] => r = q
  /\ reading \in {"none", "start", "after"}
  /\ lastSeen # 0 => lastSeen \in Bus!Range(rows)
  /\ reading # "none" => Len(fetched) > 0
  /\ reading = "start" => \E n \in Nat : FirstReplay(n)
  /\ reading = "after" => \E n \in Nat : LaterReplay(n)
  /\ lastSeen # 0 /\ ~partWay => Before(lastSeen)

LEMMA EventsAreNumbered == 0 \notin Bus!Events
  <1>1. DOMAIN Timestamp = 1..Len(Timestamp)
    BY BusAssumption
  <1> QED BY <1>1 DEF Bus!Events

LEMMA StoreStays ==
  ASSUME StoreInv, UNCHANGED <<rows, seen, lastSeen, reading, fetched, partWay>>,
         created' \subseteq Bus!Events, created' \cap Bus!Range(rows) = {}
  PROVE  StoreInv'
  <1>1. \A n \in Nat : (FirstReplay(n) => FirstReplay(n)') /\ (LaterReplay(n) => LaterReplay(n)')
    BY DEF FirstReplay, LaterReplay, Bus!Range
  <1>2. Before(lastSeen) => Before(lastSeen)'
    BY DEF Before
  <1>3. Bus!Range(rows)' = Bus!Range(rows)
    BY DEF Bus!Range
  <1> QED BY <1>1, <1>2, <1>3 DEF StoreInv

LEMMA StoreInvStep == StoreInv /\ [Next]_vars => StoreInv'
  <1> SUFFICES ASSUME StoreInv, Bus!BusNext \/ UNCHANGED Bus!busVars
               PROVE  StoreInv'
    BY BusStep
  <1>1. CASE UNCHANGED Bus!storeVars
    <2>1. UNCHANGED <<created, rows, seen, lastSeen, reading, fetched, partWay>>
      BY <1>1 DEF Bus!storeVars, Bus!readerVars
    <2>2. created' \subseteq Bus!Events /\ created' \cap Bus!Range(rows) = {}
      BY <2>1 DEF StoreInv
    <2> QED BY <2>1, <2>2, StoreStays
  <1>0. /\ rows \in Seq(Bus!Events) /\ created \subseteq Bus!Events /\ fetched \in Seq(Bus!Events)
        /\ DOMAIN rows = 1..Len(rows) /\ Len(rows) \in Nat
        /\ DOMAIN fetched = 1..Len(fetched) /\ Len(fetched) \in Nat
    BY DEF StoreInv
  <1>2. CASE Bus!CreateEvent
    <2>1. /\ UNCHANGED <<rows, seen, lastSeen, reading, fetched, partWay>>
          /\ \E e \in Bus!Events : e \notin Bus!Range(rows) /\ created' = created \cup {e}
      BY <1>2 DEF Bus!CreateEvent, Bus!readerVars
    <2>2. created' \subseteq Bus!Events /\ created' \cap Bus!Range(rows) = {}
      BY <2>1 DEF StoreInv
    <2> QED BY <2>1, <2>2, StoreStays
  <1>3. ASSUME NEW e \in created, Bus!Publish(e)
        PROVE  StoreInv'
    <2>1. /\ rows' = Append(rows, e) /\ created' = created \ {e} /\ e \in Bus!Events
          /\ UNCHANGED <<seen, lastSeen, reading, fetched, partWay>>
      BY <1>3 DEF StoreInv, Bus!Publish, Bus!readerVars
    <2>2. /\ rows' \in Seq(Bus!Events) /\ DOMAIN rows' = 1..(Len(rows) + 1) /\ rows'[Len(rows) + 1] = e
          /\ Len(rows') = Len(rows) + 1 /\ \A r \in 1..Len(rows) : rows'[r] = rows[r]
      BY ONLY <1>0, <2>1
    <2>3. e \notin Bus!Range(rows)
      BY <1>3 DEF StoreInv
    <2>4. \A r \in DOMAIN rows' : r \in 1..Len(rows) \/ r = Len(rows) + 1
      BY ONLY <1>0, <2>2
    <2>5. created' \cap Bus!Range(rows') = {}
      BY <1>0, <2>1, <2>2, <2>4 DEF StoreInv, Bus!Range
    <2>6. \A r, q \in DOMAIN rows' : rows'[r] = rows'[q] => r = q
      BY <1>0, <2>2, <2>3, <2>4 DEF StoreInv, Bus!Range
    <2>7. lastSeen' # 0 => lastSeen' \in Bus!Range(rows')
      BY <1>0, <2>1, <2>2 DEF StoreInv, Bus!Range
    <2>8. ASSUME lastSeen' # 0, ~partWay'
          PROVE  Before(lastSeen)'
      <3> SUFFICES ASSUME NEW r \in DOMAIN rows', rows'[r] = lastSeen', NEW q \in 1..r
                   PROVE  rows'[q] \in seen'
        BY DEF Before
      <3>1. r # Len(rows) + 1
        BY <2>1, <2>2, <2>3, <2>8 DEF StoreInv
      <3>2. r \in 1..Len(rows) /\ q \in 1..Len(rows)
        BY <1>0, <2>4, <3>1
      <3> QED BY <1>0, <2>1, <2>2, <2>8, <3>2 DEF StoreInv, Before
    <2>9. ASSUME NEW n \in Nat, FirstReplay(n)
          PROVE  FirstReplay(n)'
      BY <1>0, <2>1, <2>2, <2>9 DEF FirstReplay, Bus!Range
    <2>10. ASSUME NEW n \in Nat, LaterReplay(n)
           PROVE  LaterReplay(n)'
      <3>1. /\ lastSeen # 0 /\ n \in 1..Len(rows) /\ rows[n] = lastSeen /\ n + Len(fetched) <= Len(rows)
            /\ \A i \in DOMAIN fetched : fetched[i] = rows[n + i]
        BY <2>10 DEF LaterReplay
      <3>2. \A i \in DOMAIN fetched : n + i \in 1..Len(rows)
        BY ONLY <1>0, <3>1
      <3>3. lastSeen' # 0 /\ n \in 1..Len(rows') /\ rows'[n] = lastSeen' /\ n + Len(fetched') <= Len(rows')
        BY ONLY <1>0, <2>1, <2>2, <3>1
      <3>4. \A i \in DOMAIN fetched' : fetched'[i] = rows'[n + i]
        BY ONLY <2>1, <2>2, <3>1, <3>2
      <3> QED BY <3>3, <3>4 DEF LaterReplay
    <2>11. created' \subseteq Bus!Events
      BY <2>1 DEF StoreInv
    <2>12. UNCHANGED <<reading, partWay, fetched>>
      BY <2>1
    <2> QED BY <2>2, <2>5, <2>6, <2>7, <2>8, <2>9, <2>10, <2>11, <2>12 DEF StoreInv
  <1>4. ASSUME Bus!ReplayFromStart
        PROVE  StoreInv'
    <2>1. PICK events \in Bus!GetEvents : Bus!Fetch("start", events)
      BY <1>4 DEF Bus!ReplayFromStart
    <2>2. /\ fetched' = events /\ reading' = "start" /\ events # <<>>
          /\ UNCHANGED <<created, rows, seen, lastSeen, partWay>>
      BY <2>1 DEF Bus!Fetch
    <2>3. events \in [1..Len(rows) -> Bus!Range(rows)] /\ Bus!Range(events) = Bus!Range(rows)
      BY DEF Bus!GetEvents
    <2>4. Bus!Range(rows) \subseteq Bus!Events
      BY <1>0 DEF Bus!Range
    <2>5. events \in Seq(Bus!Events) /\ Len(events) = Len(rows)
      BY ONLY <1>0, <2>3, <2>4
    <2>6. Len(events) > 0
      BY ONLY <2>2, <2>5, <1>0
    <2>7. FirstReplay(Len(rows))'
      <3>1. Len(rows') \in 0..Len(rows')
        BY <1>0, <2>2
      <3>2. \A q \in 1..Len(rows') : rows'[q] \in Bus!Range(fetched')
        BY <1>0, <2>2, <2>3 DEF Bus!Range
      <3>3. \A i \in DOMAIN fetched' : \E q \in 1..Len(rows') : fetched'[i] = rows'[q]
        BY <1>0, <2>2, <2>3 DEF Bus!Range
      <3>4. Bus!Range(fetched)' = Bus!Range(fetched')
        BY DEF Bus!Range
      <3> QED BY <3>1, <3>2, <3>3, <3>4 DEF FirstReplay
    <2>8. \E n \in Nat : FirstReplay(n)'
      BY <1>0, <2>2, <2>7
    <2>9. lastSeen' # 0 /\ ~partWay' => Before(lastSeen)'
      BY <2>2 DEF StoreInv, Before
    <2>10. fetched' \in Seq(Bus!Events) /\ Len(fetched') > 0
      BY <2>2, <2>5, <2>6
    <2> QED BY <2>2, <2>8, <2>9, <2>10 DEF StoreInv, Bus!Range
  <1>5. ASSUME Bus!ReplayFrom
        PROVE  StoreInv'
    <2> DEFINE rowid == CHOOSE r \in DOMAIN rows : rows[r] = lastSeen
               after == SubSeq(rows, rowid + 1, Len(rows))
    <2>1. /\ lastSeen # 0 /\ after # <<>> /\ fetched' = after /\ reading' = "after"
          /\ UNCHANGED <<created, rows, seen, lastSeen, partWay>>
      BY <1>5 DEF Bus!ReplayFrom, Bus!Fetch, Bus!GetEventsAfter
    <2>0. rowid \in DOMAIN rows /\ rows[rowid] = lastSeen
      BY <2>1 DEF StoreInv, Bus!Range
    <2>2. PICK row \in DOMAIN rows : rows[row] = lastSeen /\ after = SubSeq(rows, row + 1, Len(rows))
      BY <2>0
    <2> HIDE DEF after
    <2>3. row \in 1..Len(rows) /\ Len(rows) \in Nat
      BY <1>0, <2>2
    <2>4. /\ after \in Seq(Bus!Events)
          /\ Len(after) = Len(rows) - row /\ DOMAIN after = 1..(Len(rows) - row)
          /\ \A i \in 1..(Len(rows) - row) : after[i] = rows[row + i]
      BY ONLY <1>0, <2>2, <2>3
    <2>5. Len(after) > 0
      BY ONLY <2>1, <2>3, <2>4
    <2>6. LaterReplay(row)'
      <3>1. lastSeen' # 0 /\ row \in 1..Len(rows') /\ rows'[row] = lastSeen' /\ row + Len(fetched') <= Len(rows')
        BY ONLY <2>1, <2>2, <2>3, <2>4
      <3>2. \A i \in DOMAIN fetched' : fetched'[i] = rows'[row + i]
        BY ONLY <2>1, <2>4
      <3> QED BY <3>1, <3>2 DEF LaterReplay
    <2>7. \E n \in Nat : LaterReplay(n)'
      BY <2>3, <2>6
    <2>8. lastSeen' # 0 /\ ~partWay' => Before(lastSeen)'
      BY <2>1 DEF StoreInv, Before
    <2>9. fetched' \in Seq(Bus!Events) /\ Len(fetched') > 0
      BY <2>1, <2>4, <2>5
    <2> QED BY <2>1, <2>7, <2>8, <2>9 DEF StoreInv, Bus!Range
  <1>6. ASSUME Bus!YieldEvent
        PROVE  StoreInv'
    <2>1. /\ reading # "none" /\ fetched' = Tail(fetched) /\ UNCHANGED <<created, rows>>
          /\ reading' = (IF Len(fetched) = 1 THEN "none" ELSE reading)
          /\ lastSeen' = Head(fetched) /\ seen' = seen \cup {Head(fetched)}
          /\ partWay' = (IF reading = "start" THEN Len(fetched) > 1 ELSE partWay)
      BY <1>6 DEF Bus!YieldEvent
    <2>2. Len(fetched) > 0
      BY <2>1 DEF StoreInv
    <2>3. /\ Tail(fetched) \in Seq(Bus!Events) /\ Len(Tail(fetched)) = Len(fetched) - 1
          /\ DOMAIN Tail(fetched) = 1..(Len(fetched) - 1) /\ Head(fetched) = fetched[1]
          /\ \A i \in 1..(Len(fetched) - 1) : Tail(fetched)[i] = fetched[i + 1]
      BY ONLY <1>0, <2>2
    <2>s. reading' # "none" => Len(fetched') > 0
      BY ONLY <1>0, <2>1, <2>2, <2>3
    <2>4. CASE reading = "start"
      <3>1. PICK n \in Nat : FirstReplay(n)
        BY <2>4 DEF StoreInv
      <3>2. /\ n \in 0..Len(rows) /\ \A q \in 1..n : rows[q] \in seen \cup Bus!Range(fetched)
            /\ \A i \in DOMAIN fetched : \E q \in 1..n : fetched[i] = rows[q]
        BY <3>1 DEF FirstReplay
      <3>3. \A q \in 1..n : rows[q] \in seen' \cup Bus!Range(fetched')
        <4> SUFFICES ASSUME NEW q \in 1..n PROVE rows[q] \in seen' \cup Bus!Range(fetched')
          OBVIOUS
        <4>1. CASE rows[q] \in seen
          BY <2>1, <4>1
        <4>2. CASE rows[q] \in Bus!Range(fetched)
          <5>1. PICK i \in 1..Len(fetched) : rows[q] = fetched[i]
            BY <1>0, <4>2 DEF Bus!Range
          <5>2. CASE i = 1
            BY <2>1, <2>3, <5>1, <5>2
          <5>3. CASE i # 1
            <6>1. i - 1 \in 1..(Len(fetched) - 1) /\ (i - 1) + 1 = i
              BY ONLY <1>0, <5>3
            <6>2. fetched'[i - 1] = rows[q] /\ i - 1 \in DOMAIN fetched'
              BY <2>1, <2>3, <5>1, <6>1
            <6> QED BY <6>2 DEF Bus!Range
          <5> QED BY <5>2, <5>3
        <4> QED BY <3>2, <4>1, <4>2
      <3>4. \A i \in DOMAIN fetched' : \E q \in 1..n : fetched'[i] = rows[q]
        <4> SUFFICES ASSUME NEW i \in DOMAIN fetched' PROVE \E q \in 1..n : fetched'[i] = rows[q]
          OBVIOUS
        <4>1. i \in 1..(Len(fetched) - 1) /\ fetched'[i] = fetched[i + 1]
          BY <2>1, <2>3
        <4>2. i + 1 \in DOMAIN fetched
          BY ONLY <1>0, <4>1
        <4> QED BY <3>2, <4>1, <4>2
      <3>5. FirstReplay(n)'
        <4>1. Bus!Range(fetched)' = Bus!Range(fetched')
          BY DEF Bus!Range
        <4> QED BY <2>1, <3>2, <3>3, <3>4, <4>1 DEF FirstReplay
      <3>6. PICK k \in 1..n : Head(fetched) = rows[k]
        <4>1. 1 \in DOMAIN fetched
          BY ONLY <1>0, <2>2
        <4> QED BY <2>3, <3>2, <4>1
      <3>7. k \in DOMAIN rows
        BY ONLY <1>0, <3>2, <3>6
      <3>8. lastSeen' \in Bus!Range(rows')
        BY <2>1, <3>6, <3>7 DEF Bus!Range
      <3>9. ASSUME ~partWay'
            PROVE  Before(lastSeen)'
        <4>1. Len(fetched) = 1
          <5>1. ~(Len(fetched) > 1)
            BY Zenon, <2>1, <2>4, <3>9
          <5> QED BY ONLY <1>0, <2>2, <5>1
        <4>2. Bus!Range(fetched') = {}
          BY <2>1, <2>3, <4>1 DEF Bus!Range
        <4>3. \A q \in 1..n : rows[q] \in seen'
          BY <3>3, <4>2
        <4> SUFFICES ASSUME NEW r \in DOMAIN rows, rows[r] = Head(fetched), NEW q \in 1..r
                     PROVE  rows[q] \in seen'
          BY <2>1 DEF Before
        <4>4. r = k
          BY <3>6, <3>7 DEF StoreInv
        <4>5. q \in 1..n
          BY ONLY <3>1, <3>6, <4>4
        <4> QED BY <4>3, <4>5
      <3>10. \E m \in Nat : FirstReplay(m)'
        BY <3>5
      <3>11. reading' \in {"none", "start"}
        BY <2>1, <2>4
      <3> QED BY <2>1, <2>3, <2>s, <3>8, <3>9, <3>10, <3>11 DEF StoreInv
    <2>5. CASE reading = "after"
      <3>1. PICK n \in Nat : LaterReplay(n)
        BY <2>5 DEF StoreInv
      <3>2. /\ lastSeen # 0 /\ n \in 1..Len(rows) /\ rows[n] = lastSeen /\ n + Len(fetched) <= Len(rows)
            /\ \A i \in DOMAIN fetched : fetched[i] = rows[n + i]
        BY <3>1 DEF LaterReplay
      <3>3. 1 \in DOMAIN fetched /\ n + 1 \in DOMAIN rows /\ n \in DOMAIN rows /\ n + 1 \in 1..Len(rows)
        BY ONLY <1>0, <2>2, <3>2
      <3>4. lastSeen' = rows[n + 1] /\ UNCHANGED <<rows, partWay>>
        BY <2>1, <2>3, <2>5, <3>2, <3>3
      <3>5. LaterReplay(n + 1)'
        <4>1. n + 1 \in 1..Len(rows') /\ rows'[n + 1] = lastSeen' /\ n + 1 + Len(fetched') <= Len(rows')
          BY ONLY <1>0, <2>1, <2>2, <2>3, <3>2, <3>3, <3>4
        <4>3. lastSeen' # 0
          BY <1>0, <3>3, <3>4, EventsAreNumbered
        <4>2. ASSUME NEW i \in DOMAIN fetched' PROVE fetched'[i] = rows'[n + 1 + i]
          <5>1. i \in 1..(Len(fetched) - 1) /\ fetched'[i] = fetched[i + 1]
            BY <2>1, <2>3
          <5>2. i + 1 \in DOMAIN fetched /\ n + (i + 1) = n + 1 + i
            BY ONLY <1>0, <3>1, <5>1
          <5> QED BY <2>1, <3>2, <5>1, <5>2
        <4> QED BY <4>1, <4>2, <4>3 DEF LaterReplay
      <3>6. \E m \in Nat : LaterReplay(m)'
        <4>1. n + 1 \in Nat
          OBVIOUS
        <4> QED BY <3>5, <4>1
      <3>7. lastSeen' \in Bus!Range(rows')
        BY <3>3, <3>4 DEF Bus!Range
      <3>8. ASSUME ~partWay'
            PROVE  Before(lastSeen)'
        <4> SUFFICES ASSUME NEW r \in DOMAIN rows, rows[r] = rows[n + 1], NEW q \in 1..r
                     PROVE  rows[q] \in seen'
          BY <3>4 DEF Before
        <4>1. r = n + 1
          BY <3>3 DEF StoreInv
        <4>3. CASE q = n + 1
          BY <2>1, <3>4, <4>3
        <4>4. CASE q # n + 1
          <5>1. q \in 1..n
            BY ONLY <3>1, <4>1, <4>4
          <5> QED BY <2>1, <3>2, <3>3, <3>4, <3>8, <5>1 DEF StoreInv, Before
        <4> QED BY <4>3, <4>4
      <3>9. reading' \in {"none", "after"}
        BY <2>1, <2>5
      <3> QED BY <2>1, <2>3, <2>s, <3>6, <3>7, <3>8, <3>9 DEF StoreInv
    <2> QED BY <2>1, <2>4, <2>5 DEF StoreInv
  <1>7. CASE Bus!LeaveReplay
    <2>1. reading' = "none" /\ fetched' = <<>> /\ UNCHANGED <<created, rows, seen, lastSeen, partWay>>
      BY <1>7 DEF Bus!LeaveReplay
    <2>2. fetched' \in Seq(Bus!Events)
      BY <2>1
    <2>3. Before(lastSeen) => Before(lastSeen)'
      BY <2>1 DEF Before
    <2> QED BY <2>1, <2>2, <2>3 DEF StoreInv, Bus!Range
  <1>8. CASE Bus!Subscribe \/ \E i \in issued : Bus!Unsubscribe(i)
    BY <1>1, <1>8 DEF Bus!Subscribe, Bus!Unsubscribe
  <1> QED BY <1>1, <1>2, <1>3, <1>4, <1>5, <1>6, <1>7, <1>8 DEF Bus!BusNext, Bus!busVars

(* A reader that read a replay from the start to its end, went on from its     *)
(* last event as often as it liked and left where it liked, was given every   *)
(* row up to that event, for any events, timestamps and rows added meanwhile. *)
THEOREM CatchingUpIsComplete == Spec => []CatchUpMissesNothing
  <1>1. Init => StoreInv
    <2> SUFFICES ASSUME Bus!Init PROVE StoreInv
      BY DEF Init
    <2>1. rows = <<>> /\ created = {} /\ lastSeen = 0 /\ reading = "none" /\ fetched = <<>> /\ partWay = FALSE
      BY DEF Bus!Init
    <2> QED BY <2>1 DEF StoreInv, Bus!Range
  <1>2. StoreInv => CatchUpMissesNothing
    <2> SUFFICES ASSUME StoreInv, lastSeen # 0, ~partWay, NEW r \in DOMAIN rows, rows[r] = lastSeen
                 PROVE  Bus!Range(SubSeq(rows, 1, r)) \subseteq seen
      BY DEF CatchUpMissesNothing, Bus!CatchUpMissesNothing
    <2>1. r \in 1..Len(rows) /\ Len(rows) \in Nat
      BY DEF StoreInv
    <2>2. DOMAIN SubSeq(rows, 1, r) = 1..r /\ \A i \in 1..r : SubSeq(rows, 1, r)[i] = rows[i]
      BY <2>1 DEF StoreInv
    <2> QED BY <2>2 DEF StoreInv, Before, Bus!Range
  <1> QED BY <1>1, <1>2, StoreInvStep, PTL DEF Spec

-----------------------------------------------------------------------------
(* The procedures consolidations record.                                    *)

LEMMA LayersStep == [Next]_vars => [Layers!CognitiveMemoryNext]_(Layers!cogMemoryVars)
  BY DEF Next, Others, vars, layers, Layers!cogMemoryVars

LEMMA LayersCardinality == \A S : Layers!Cardinality(S) = Cardinality(S)
  BY DEF Layers!Cardinality, Cardinality

Stages          == {"idle", "next", "missing", "known"}
Progress(A, T)  == [agent: A, todo: T, at: Stages]
Procedure(G)    == [goal: G, name: {"given", "auto"}, uses: Nat, successes: Nat]

\* The patterns of a goal that consolidations recorded, and the consolidations that will record one.
Own(procedures, g)  == {n \in DOMAIN procedures : procedures[n].name = "auto" /\ procedures[n].goal = g}
Missing(progress, g) == {c \in Consolidations : progress[c].at = "missing" /\ Head(progress[c].todo).life.summary = g}

(* A consolidation that missed a pattern has looked for it while there was   *)
(* none: it and the patterns there are came of different consolidations.    *)
LayersInv ==
  /\ \E A, T : batch \in [Consolidations -> Progress(A, T)]
  /\ \E G : patterns \in Seq(Procedure(G))
  /\ \A g \in Goals : Cardinality(Own(patterns, g)) + Cardinality(Missing(batch, g)) <= Cardinality(Consolidations)

LEMMA OwnIsFinite ==
  ASSUME NEW G, NEW procedures \in Seq(Procedure(G)), NEW g
  PROVE  IsFiniteSet(Own(procedures, g)) /\ Cardinality(Own(procedures, g)) \in Nat
  <1>1. Own(procedures, g) \subseteq 1..Len(procedures) /\ Len(procedures) \in Nat
    BY DEF Own
  <1>2. IsFiniteSet(1..Len(procedures))
    BY <1>1, FS_Interval
  <1>3. IsFiniteSet(Own(procedures, g))
    BY <1>1, <1>2, FS_Subset
  <1> QED BY <1>3, FS_CardinalityType

LEMMA MissingIsFinite ==
  ASSUME NEW progress, NEW g
  PROVE  /\ Missing(progress, g) \subseteq Consolidations /\ IsFiniteSet(Missing(progress, g))
         /\ Cardinality(Missing(progress, g)) \in Nat
  <1>1. Missing(progress, g) \subseteq Consolidations
    BY DEF Missing
  <1>2. IsFiniteSet(Missing(progress, g))
    BY <1>1, MemoryAssumption, FS_Subset
  <1> QED BY <1>1, <1>2, FS_CardinalityType

\* The three ways in which patterns and those who miss one change.
LEMMA FewStill ==
  ASSUME NEW O, NEW O2, NEW M, NEW M2, IsFiniteSet(O), M \subseteq Consolidations,
         Cardinality(O) + Cardinality(M) <= Cardinality(Consolidations),
         \/ O2 = O /\ M2 \subseteq M
         \/ O2 = {} /\ M2 \subseteq Consolidations
         \/ \E x, c : O2 = O \cup {x} /\ c \in M /\ M2 = M \ {c}
  PROVE  Cardinality(O2) + Cardinality(M2) <= Cardinality(Consolidations)
  <1>0. IsFiniteSet(M) /\ Cardinality(M) \in Nat /\ Cardinality(O) \in Nat /\ Cardinality(Consolidations) \in Nat
    BY MemoryAssumption, FS_Subset, FS_CardinalityType
  <1>1. CASE O2 = O /\ M2 \subseteq M
    <2>1. Cardinality(M2) <= Cardinality(M) /\ Cardinality(M2) \in Nat
      BY <1>0, <1>1, FS_Subset, FS_CardinalityType
    <2> QED BY <1>0, <1>1, <2>1
  <1>2. CASE O2 = {} /\ M2 \subseteq Consolidations
    <2>1. Cardinality(M2) <= Cardinality(Consolidations) /\ Cardinality(M2) \in Nat
      BY <1>2, MemoryAssumption, FS_Subset, FS_CardinalityType
    <2>2. Cardinality(O2) = 0
      BY <1>2, FS_EmptySet
    <2> QED BY <1>0, <2>1, <2>2
  <1>3. ASSUME NEW x, NEW c, O2 = O \cup {x}, c \in M, M2 = M \ {c}
        PROVE  Cardinality(O2) + Cardinality(M2) <= Cardinality(Consolidations)
    <2>1. Cardinality(M2) = Cardinality(M) - 1
      BY <1>0, <1>3, FS_RemoveElement
    <2>2. Cardinality(O2) = Cardinality(O) \/ Cardinality(O2) = Cardinality(O) + 1
      BY <1>0, <1>3, FS_AddElement
    <2> QED BY <1>0, <2>1, <2>2
  <1> QED BY <1>1, <1>2, <1>3

\* The procedures after one more was recorded.
With(procedures, goal, name) == Append(procedures, [goal |-> goal, name |-> name, uses |-> 1, successes |-> 1])

LEMMA ProceduresAfterRecorded ==
  ASSUME NEW G, NEW procedures \in Seq(Procedure(G)), NEW goal, NEW name \in {"given", "auto"}
  PROVE  With(procedures, goal, name) \in Seq(Procedure(G \cup {goal}))
  <1> DEFINE row == [goal |-> goal, name |-> name, uses |-> 1, successes |-> 1]
             H == G \cup {goal}
  <1>1. row \in Procedure(H) /\ Procedure(G) \subseteq Procedure(H)
    BY DEF Procedure
  <1> HIDE DEF row, H
  <1>2. Append(procedures, row) \in Seq(Procedure(H))
    BY <1>1
  <1> QED BY <1>2 DEF row, H, With

\* A row that is appended is an own pattern of its goal if a consolidation recorded it.
LEMMA OwnAfterRecorded ==
  ASSUME NEW G, NEW procedures \in Seq(Procedure(G)), NEW goal, NEW name \in {"given", "auto"}, NEW g
  PROVE  /\ name = "auto" /\ goal = g =>
              Own(With(procedures, goal, name), g) = Own(procedures, g) \cup {Len(procedures) + 1}
         /\ ~(name = "auto" /\ goal = g) => Own(With(procedures, goal, name), g) = Own(procedures, g)
  <1> DEFINE row == [goal |-> goal, name |-> name, uses |-> 1, successes |-> 1]
             longer == With(procedures, goal, name)
  <1>1. row.name = name /\ row.goal = goal
    OBVIOUS
  <1>2. longer = Append(procedures, row)
    BY DEF With
  <1> HIDE DEF row, longer
  <1>3. /\ DOMAIN longer = 1..(Len(procedures) + 1) /\ DOMAIN procedures = 1..Len(procedures) /\ Len(procedures) \in Nat
        /\ longer[Len(procedures) + 1] = row /\ \A n \in DOMAIN procedures : longer[n] = procedures[n]
    BY <1>2
  <1>4. \A n : n \in DOMAIN longer <=> n \in DOMAIN procedures \/ n = Len(procedures) + 1
    BY <1>3
  <1>5. Len(procedures) + 1 \notin DOMAIN procedures
    BY <1>3
  <1>6. name = "auto" /\ goal = g => Own(longer, g) = Own(procedures, g) \cup {Len(procedures) + 1}
    BY <1>1, <1>3, <1>4, <1>5 DEF Own
  <1>7. ~(name = "auto" /\ goal = g) => Own(longer, g) = Own(procedures, g)
    BY <1>1, <1>3, <1>4, <1>5 DEF Own
  <1> QED BY <1>6, <1>7 DEF longer

\* What a procedure keeps when its statistics change.
Updated(p, uses, successes) == [p EXCEPT !.uses = uses, !.successes = successes]

LEMMA UpdatedProcedure ==
  ASSUME NEW G, NEW p \in Procedure(G), NEW uses \in Nat, NEW successes \in Nat
  PROVE  /\ Updated(p, uses, successes) \in Procedure(G)
         /\ Updated(p, uses, successes).name = p.name
         /\ Updated(p, uses, successes).goal = p.goal
  <1> USE DEF Updated
  <1>1. Updated(p, uses, successes) \in Procedure(G)
    BY DEF Procedure
  <1>2. Updated(p, uses, successes).name = p.name
    BY DEF Procedure
  <1>3. Updated(p, uses, successes).goal = p.goal
    BY DEF Procedure
  <1> QED BY <1>1, <1>2, <1>3

LEMMA LayersInvStep == LayersInv /\ [Next]_vars => LayersInv'
  <1> SUFFICES ASSUME LayersInv, Layers!CognitiveMemoryNext \/ UNCHANGED Layers!cogMemoryVars
               PROVE  LayersInv'
    BY LayersStep
  <1>0. PICK A, T, G : batch \in [Consolidations -> Progress(A, T)] /\ patterns \in Seq(Procedure(G))
    BY DEF LayersInv
  <1>1. CASE UNCHANGED <<batch, patterns>>
    BY <1>1 DEF LayersInv
  \* What is left to show of each action.
  <1>2. ASSUME NEW A2, NEW T2, NEW G2, batch' \in [Consolidations -> Progress(A2, T2)], patterns' \in Seq(Procedure(G2)),
               \A g \in Goals :
                 \/ Own(patterns', g) = Own(patterns, g) /\ Missing(batch', g) \subseteq Missing(batch, g)
                 \/ Own(patterns', g) = {} /\ Missing(batch', g) \subseteq Consolidations
                 \/ \E x, c : Own(patterns', g) = Own(patterns, g) \cup {x} /\ c \in Missing(batch, g)
                              /\ Missing(batch', g) = Missing(batch, g) \ {c}
        PROVE  LayersInv'
    <2>1. ASSUME NEW g \in Goals
          PROVE  Cardinality(Own(patterns', g)) + Cardinality(Missing(batch', g)) <= Cardinality(Consolidations)
      <3>1. IsFiniteSet(Own(patterns, g)) /\ Missing(batch, g) \subseteq Consolidations
        BY <1>0, OwnIsFinite, MissingIsFinite
      <3>2. Cardinality(Own(patterns, g)) + Cardinality(Missing(batch, g)) <= Cardinality(Consolidations)
        BY DEF LayersInv
      <3>3. \/ Own(patterns', g) = Own(patterns, g) /\ Missing(batch', g) \subseteq Missing(batch, g)
            \/ Own(patterns', g) = {} /\ Missing(batch', g) \subseteq Consolidations
            \/ \E x, c : Own(patterns', g) = Own(patterns, g) \cup {x} /\ c \in Missing(batch, g)
                         /\ Missing(batch', g) = Missing(batch, g) \ {c}
        BY <1>2
      <3> QED BY <3>1, <3>2, <3>3, FewStill
    <2> QED BY <1>2, <2>1 DEF LayersInv
  <1>3. ASSUME NEW goal, Layers!RecordProcedure(goal)
        PROVE  LayersInv'
    <2>1. patterns' = With(patterns, goal, "given") /\ batch' = batch
      BY <1>3 DEF Layers!RecordProcedure, Layers!Recorded, With
    <2>2. patterns' \in Seq(Procedure(G \cup {goal})) /\ \A g : Own(patterns', g) = Own(patterns, g)
      <3>1. With(patterns, goal, "given") \in Seq(Procedure(G \cup {goal}))
        BY <1>0, ProceduresAfterRecorded
      <3>2. \A g : Own(With(patterns, goal, "given"), g) = Own(patterns, g)
        BY <1>0, OwnAfterRecorded
      <3> QED BY <2>1, <3>1, <3>2
    <2> QED BY <1>0, <1>2, <2>1, <2>2
  <1>4. ASSUME NEW n \in DOMAIN patterns, NEW success \in BOOLEAN, Layers!UpdateProcedureStats(n, success)
        PROVE  LayersInv'
    <2> DEFINE successes == IF success THEN patterns[n].successes + 1 ELSE patterns[n].successes
               row == Updated(patterns[n], patterns[n].uses + 1, successes)
    <2>1. patterns' = [patterns EXCEPT ![n] = row] /\ batch' = batch
      BY <1>4 DEF Layers!UpdateProcedureStats, Updated
    <2>2. patterns[n] \in Procedure(G)
      BY <1>0
    <2>3. row \in Procedure(G) /\ row.name = patterns[n].name /\ row.goal = patterns[n].goal
      <3>1. patterns[n].uses + 1 \in Nat /\ successes \in Nat
        BY <2>2 DEF Procedure
      <3> HIDE DEF successes
      <3> QED BY <2>2, <3>1, UpdatedProcedure
    <2> HIDE DEF row
    <2>4. patterns' \in Seq(Procedure(G)) /\ DOMAIN patterns' = DOMAIN patterns
      BY <1>0, <2>1, <2>3
    <2>5. \A m \in DOMAIN patterns : patterns'[m].name = patterns[m].name /\ patterns'[m].goal = patterns[m].goal
      BY <1>0, <2>1, <2>3
    <2>6. \A g : Own(patterns', g) = Own(patterns, g)
      BY <2>4, <2>5 DEF Own
    <2> QED BY <1>0, <1>2, <2>1, <2>4, <2>6
  <1>5. ASSUME NEW c \in Consolidations,
               \/ \E a \in Layers!Agents : Layers!Consolidate(c, a)
               \/ Layers!ConsolidationDecays(c)
        PROVE  LayersInv'
    <2>1. patterns' = patterns
      BY <1>5 DEF Layers!Consolidate, Layers!ConsolidationDecays
    <2>2. PICK a, t, stage : batch' = [batch EXCEPT ![c] = [agent |-> a, todo |-> t, at |-> stage]]
                             /\ (stage = "idle" \/ stage = "next")
      <3>1. CASE Layers!ConsolidationDecays(c)
        <4>1. batch' = [batch EXCEPT ![c] = [agent |-> "none", todo |-> <<>>, at |-> "idle"]]
          BY <3>1 DEF Layers!ConsolidationDecays, Layers!Idle
        <4> QED BY <4>1, Zenon
      <3>2. ASSUME NEW a \in Layers!Agents, Layers!Consolidate(c, a)
            PROVE  \E t : batch' = [batch EXCEPT ![c] = [agent |-> a, todo |-> t, at |-> "next"]]
        BY <3>2 DEF Layers!Consolidate
      <3> QED BY <1>5, <3>1, <3>2, Zenon
    <2> DEFINE begun == [agent |-> a, todo |-> t, at |-> stage]
               B == A \cup {a}
               U == T \cup {t}
    <2>3. begun \in Progress(B, U) /\ begun.at # "missing" /\ Progress(A, T) \subseteq Progress(B, U)
      <3>1. stage \in Stages /\ stage # "missing"
        BY <2>2 DEF Stages
      <3> QED BY <3>1 DEF Progress
    <2> HIDE DEF begun, B, U
    <2>4. batch' = [batch EXCEPT ![c] = begun]
      BY <2>2 DEF begun
    <2>5. batch' \in [Consolidations -> Progress(B, U)] /\ batch'[c].at # "missing"
          /\ \A d \in Consolidations \ {c} : batch'[d] = batch[d]
      BY <1>0, <2>3, <2>4
    <2>6. \A g : Missing(batch', g) \subseteq Missing(batch, g)
      BY <2>5 DEF Missing
    <2> QED BY <1>0, <1>2, <2>1, <2>5, <2>6
  <1>6. ASSUME NEW c \in Consolidations, Layers!LookForPattern(c)
        PROVE  LayersInv'
    <2> DEFINE goal == Head(batch[c].todo).life.summary
               stage == IF Layers!FindProcedures(goal) = {} THEN "missing" ELSE "known"
               looked == [batch[c] EXCEPT !.at = stage]
    <2>1. batch[c].at = "next" /\ batch' = [batch EXCEPT ![c] = looked] /\ patterns' = patterns
      BY <1>6 DEF Layers!LookForPattern
    <2>2. batch[c] \in Progress(A, T) /\ stage \in Stages
      BY <1>0 DEF Stages
    <2> HIDE DEF stage
    <2>3. looked \in Progress(A, T) /\ looked.at = stage /\ looked.todo = batch[c].todo
      BY <2>2 DEF Progress
    <2> HIDE DEF looked
    <2>4. batch' \in [Consolidations -> Progress(A, T)] /\ batch'[c] = looked
          /\ \A d \in Consolidations \ {c} : batch'[d] = batch[d]
      BY <1>0, <2>1, <2>3
    <2>5. Head(batch'[c].todo).life.summary = goal
      BY <2>3, <2>4
    <2> HIDE DEF goal
    <2>6. ASSUME NEW g \in Goals
          PROVE  \/ Own(patterns', g) = Own(patterns, g) /\ Missing(batch', g) \subseteq Missing(batch, g)
                 \/ Own(patterns', g) = {} /\ Missing(batch', g) \subseteq Consolidations
      <3>1. CASE goal = g /\ stage = "missing"
        <4>1. Layers!FindProcedures(g) = {}
          BY <3>1 DEF stage
        <4>2. \A n \in DOMAIN patterns : patterns[n].goal # g
          BY <4>1, MemoryAssumption DEF Layers!FindProcedures
        <4>3. Own(patterns', g) = {}
          BY <2>1, <4>2 DEF Own
        <4> QED BY <4>3 DEF Missing
      <3>2. CASE ~(goal = g /\ stage = "missing")
        <4>1. c \notin Missing(batch', g)
          BY <2>3, <2>4, <2>5, <3>2 DEF Missing
        <4>2. Missing(batch', g) \subseteq Missing(batch, g)
          BY <2>4, <4>1 DEF Missing
        <4> QED BY <2>1, <4>2
      <3> QED BY <3>1, <3>2
    <2> QED BY <1>0, <1>2, <2>1, <2>4, <2>6
  <1>7. ASSUME NEW c \in Consolidations, Layers!RecordPattern(c)
        PROVE  LayersInv'
    <2> DEFINE goal == Head(batch[c].todo).life.summary
               rest == Tail(batch[c].todo)
               went == [batch[c] EXCEPT !.at = "next", !.todo = rest]
               U == T \cup {rest}
    <2>1. batch' = [batch EXCEPT ![c] = went]
      BY <1>7 DEF Layers!RecordPattern
    <2>2. batch[c] \in Progress(A, U) /\ Progress(A, T) \subseteq Progress(A, U)
      <3>1. Progress(A, T) \subseteq Progress(A, U)
        BY DEF Progress
      <3> QED BY <1>0, <3>1
    <2>3. rest \in U /\ "next" \in Stages
      BY DEF Stages
    <2> HIDE DEF rest, U
    <2>4. went \in Progress(A, U) /\ went.at = "next"
      BY <2>2, <2>3 DEF Progress
    <2> HIDE DEF went
    <2>5. batch' \in [Consolidations -> Progress(A, U)] /\ batch'[c].at = "next"
          /\ \A d \in Consolidations \ {c} : batch'[d] = batch[d]
      BY <1>0, <2>1, <2>2, <2>4
    <2>6. \A g : Missing(batch', g) = Missing(batch, g) \ {c}
      BY <2>5 DEF Missing
    <2>7. CASE patterns' = patterns
      BY <1>0, <1>2, <2>5, <2>6, <2>7
    <2>8. CASE batch[c].at = "missing"
               /\ patterns' = With(patterns, goal, "auto")
      <3>1. c \in Missing(batch, goal)
        BY <2>8 DEF Missing
      <3> HIDE DEF goal
      <3>2. patterns' \in Seq(Procedure(G \cup {goal}))
        BY <1>0, <2>8, ProceduresAfterRecorded
      <3>4. \A g : Own(patterns', g) = IF goal = g THEN Own(patterns, g) \cup {Len(patterns) + 1} ELSE Own(patterns, g)
        BY <1>0, <2>8, OwnAfterRecorded
      <3>3. ASSUME NEW g \in Goals
            PROVE  \/ Own(patterns', g) = Own(patterns, g) /\ Missing(batch', g) \subseteq Missing(batch, g)
                   \/ \E x, d : Own(patterns', g) = Own(patterns, g) \cup {x} /\ d \in Missing(batch, g)
                                /\ Missing(batch', g) = Missing(batch, g) \ {d}
        BY <2>6, <3>1, <3>4
      <3> QED BY <1>2, <2>5, <3>2, <3>3
    <2> QED BY <1>7, <2>7, <2>8 DEF Layers!RecordPattern, Layers!Recorded, With
  <1>8. ASSUME \/ \E e \in Episodes : Layers!RecordEpisode(e)
               \/ \E a \in Layers!Agents, g \in Goals \cup {""} : Layers!ProactiveRecall(g, a)
               \/ \E f \in Facts, n \in 1..2 : Layers!StoreFact(f, n) \/ Layers!StorePreference(f, n)
               \/ Layers!Decay(Layers!Agents) \/ \E a \in Layers!Agents : Layers!Decay({a})
        PROVE  LayersInv'
    <2>1. UNCHANGED <<batch, patterns>>
      BY <1>8 DEF Layers!RecordEpisode, Layers!ProactiveRecall, Layers!RecallEpisodes, Layers!StoreFact,
                  Layers!StorePreference, Layers!Decay
    <2> QED BY <1>1, <2>1
  <1> QED BY <1>1, <1>3, <1>4, <1>5, <1>6, <1>7, <1>8 DEF Layers!CognitiveMemoryNext, Layers!cogMemoryVars

(* However often episodes are consolidated, a goal has no more patterns that *)
(* a consolidation recorded than there are consolidations to overlap.       *)
THEOREM PatternsFew == Spec => []PatternsAreFew
  <1>1. Init => LayersInv
    <2> SUFFICES ASSUME Init
                 PROVE  LayersInv
      OBVIOUS
    <2>1. batch = [c \in Consolidations |-> [agent |-> "none", todo |-> <<>>, at |-> "idle"]] /\ patterns = <<>>
      BY DEF Init, Layers!Init, Layers!Idle
    <2>2. batch \in [Consolidations -> Progress({"none"}, {<<>>})] /\ \A c \in Consolidations : batch[c].at = "idle"
      BY <2>1 DEF Progress, Stages
    <2>3. \A g : Own(patterns, g) = {} /\ Missing(batch, g) = {}
      BY <2>1, <2>2 DEF Own, Missing
    <2>4. Cardinality({}) = 0 /\ Cardinality(Consolidations) \in Nat
      BY MemoryAssumption, FS_EmptySet, FS_CardinalityType
    <2>5. patterns \in Seq(Procedure({}))
      BY <2>1
    <2>6. \A g : Cardinality(Own(patterns, g)) + Cardinality(Missing(batch, g)) <= Cardinality(Consolidations)
      BY <2>3, <2>4
    <2> QED BY <2>2, <2>5, <2>6 DEF LayersInv
  <1>2. LayersInv => PatternsAreFew
    <2> SUFFICES ASSUME LayersInv, NEW g \in Goals
                 PROVE  Cardinality(Own(patterns, g)) <= Cardinality(Consolidations)
      BY LayersCardinality DEF PatternsAreFew, Layers!PatternsAreFew, Own
    <2>1. Cardinality(Own(patterns, g)) + Cardinality(Missing(batch, g)) <= Cardinality(Consolidations)
      BY DEF LayersInv
    <2>2. Cardinality(Own(patterns, g)) \in Nat /\ Cardinality(Missing(batch, g)) \in Nat
          /\ Cardinality(Consolidations) \in Nat
      BY OwnIsFinite, MissingIsFinite, MemoryAssumption, FS_CardinalityType DEF LayersInv
    <2> QED BY <2>1, <2>2
  <1> QED BY <1>1, <1>2, LayersInvStep, PTL DEF Spec

-----------------------------------------------------------------------------
(* The rate limit of the gateway.                                           *)

LEMMA GateStep == [Next]_vars => [Gate!GatewayNext]_(Gate!gatewayVars)
  BY DEF Next, Others, vars, gateway, Gate!gatewayVars

LEMMA GateCardinality == \A S : Gate!Cardinality(S) = Cardinality(S)
  BY DEF Gate!Cardinality, Cardinality

Taken == [sender: Senders, path: Registered \cup {"health", "elsewhere"}, at: Nat, status: Nat,
          fired: SUBSET TriggerRules]

\* Of the requests let through at the times of a row, those in the window that ends at t.
LetThrough(row, t) == {i \in DOMAIN row : t - Window < row[i] /\ row[i] <= t}

\* How many requests of sender s its present window has let through.
InWindow(s) == IF rateLimit[s].count <= RateLimitMax THEN rateLimit[s].count ELSE RateLimitMax

(* The last requests of a sender that were let through are those its window  *)
(* counts, and they came since it began.                                    *)
GateInv ==
  /\ clock \in Nat /\ inbox \in Seq(Taken)
  /\ rateLimit \in [Senders -> [count: Nat, resetAt: Nat]] /\ admitted \in [Senders -> Seq(Nat)]
  /\ \A s \in Senders :
       /\ \A i \in DOMAIN admitted[s] : admitted[s][i] <= clock
       /\ rateLimit[s].resetAt <= clock + Window
       /\ InWindow(s) <= Len(admitted[s])
       /\ \A i \in (Len(admitted[s]) - InWindow(s) + 1)..Len(admitted[s]) : rateLimit[s].resetAt - Window <= admitted[s][i]
  /\ \A k \in DOMAIN inbox : inbox[k].status = 429 =>
       RateLimitMax <= Cardinality(LetThrough(admitted[inbox[k].sender], inbox[k].at))

LEMMA LetThroughFinite ==
  ASSUME NEW row \in Seq(Nat), NEW t \in Nat
  PROVE  IsFiniteSet(LetThrough(row, t)) /\ Cardinality(LetThrough(row, t)) \in Nat
  <1>1. LetThrough(row, t) \subseteq 1..Len(row) /\ Len(row) \in Nat
    BY DEF LetThrough
  <1>2. IsFiniteSet(1..Len(row))
    BY <1>1, FS_Interval
  <1>3. IsFiniteSet(LetThrough(row, t))
    BY <1>1, <1>2, FS_Subset
  <1> QED BY <1>3, FS_CardinalityType

\* Requests let through later leave no fewer of those that were.
LEMMA LetThroughGrows ==
  ASSUME NEW row \in Seq(Nat), NEW x \in Nat, NEW t \in Nat
  PROVE  Cardinality(LetThrough(row, t)) <= Cardinality(LetThrough(Append(row, x), t))
  <1> DEFINE longer == Append(row, x)
  <1>1. longer \in Seq(Nat) /\ \A i \in DOMAIN row : i \in DOMAIN longer /\ longer[i] = row[i]
    OBVIOUS
  <1> HIDE DEF longer
  <1>2. LetThrough(row, t) \subseteq LetThrough(longer, t)
    BY <1>1 DEF LetThrough
  <1>3. IsFiniteSet(LetThrough(longer, t))
    BY <1>1, LetThroughFinite
  <1>4. Cardinality(LetThrough(row, t)) <= Cardinality(LetThrough(longer, t))
    BY <1>2, <1>3, FS_Subset
  <1> QED BY <1>4 DEF longer

\* A sender the limit refuses has had as many requests let through as it allows.
LEMMA RefusedIsDue ==
  ASSUME GateInv, NEW s \in Senders, Gate!IsRateLimited(s)
  PROVE  RateLimitMax <= Cardinality(LetThrough(admitted[s], clock))
  <1> USE GatewayAssumption
  <1>0. admitted[s] \in Seq(Nat) /\ clock \in Nat /\ rateLimit[s].count \in Nat /\ rateLimit[s].resetAt \in Nat
    BY DEF GateInv
  <1>2. IsFiniteSet(LetThrough(admitted[s], clock))
    BY <1>0, LetThroughFinite
  <1>3. CASE RateLimitMax = 0
    BY <1>2, <1>3, FS_CardinalityType
  <1>4. CASE RateLimitMax # 0
    <2>1. Gate!Counted(s).count > RateLimitMax
      BY DEF Gate!IsRateLimited
    <2>2. rateLimit[s].count # 0 /\ clock < rateLimit[s].resetAt /\ Gate!Counted(s) = [rateLimit[s] EXCEPT !.count = @ + 1]
      BY <1>0, <1>4, <2>1 DEF Gate!Counted
    <2>3. rateLimit[s] \in [count: Nat, resetAt: Nat]
      BY DEF GateInv
    <2>4. Gate!Counted(s).count = rateLimit[s].count + 1
      BY <2>2, <2>3
    <2>5. InWindow(s) = RateLimitMax
      BY <1>0, <2>1, <2>4 DEF InWindow
    <2> DEFINE first == Len(admitted[s]) - RateLimitMax + 1
               latest == first..Len(admitted[s])
    <2>6. Len(admitted[s]) \in Nat /\ RateLimitMax <= Len(admitted[s])
          /\ \A i \in latest : rateLimit[s].resetAt - Window <= admitted[s][i]
      BY <1>0, <2>5 DEF GateInv
    <2>7. latest \subseteq LetThrough(admitted[s], clock)
      <3> SUFFICES ASSUME NEW i \in latest
                   PROVE  i \in LetThrough(admitted[s], clock)
        OBVIOUS
      <3>1. i \in DOMAIN admitted[s] /\ admitted[s][i] \in Nat
        BY <1>0, <2>6
      <3>2. admitted[s][i] <= clock
        BY <3>1 DEF GateInv
      <3>3. rateLimit[s].resetAt - Window <= admitted[s][i]
        BY <2>6
      <3> QED BY SMTT(30), <1>0, <2>2, <3>1, <3>2, <3>3 DEF LetThrough
    <2>8. Cardinality(latest) = RateLimitMax
      <3>1. first \in Int /\ Len(admitted[s]) \in Int /\ first <= Len(admitted[s])
            /\ Len(admitted[s]) - first + 1 = RateLimitMax
        BY <1>4, <2>6
      <3>2. ~(first > Len(admitted[s]))
        BY <3>1
      <3> HIDE DEF first
      <3>3. Cardinality(first..Len(admitted[s])) = Len(admitted[s]) - first + 1
        BY <3>1, <3>2, FS_Interval
      <3> QED BY <3>1, <3>3
    <2>9. Cardinality(latest) <= Cardinality(LetThrough(admitted[s], clock))
      BY <1>2, <2>7, FS_Subset
    <2> QED BY <2>8, <2>9
  <1> QED BY <1>3, <1>4

\* An answered request; it keeps who made it and when it came.
Answered(r, status, matched) == [r EXCEPT !.status = status, !.fired = matched]

LEMMA AnsweredRequest ==
  ASSUME NEW r \in Taken, NEW status \in Nat, NEW matched \in SUBSET TriggerRules
  PROVE  /\ Answered(r, status, matched) \in Taken
         /\ Answered(r, status, matched).status = status
         /\ Answered(r, status, matched).sender = r.sender
         /\ Answered(r, status, matched).at = r.at
  <1> USE DEF Answered
  <1> DEFINE answered == Answered(r, status, matched)
  <1>1. answered \in Taken
    BY DEF Taken
  <1>2. answered.status = status
    BY DEF Taken
  <1>3. answered.sender = r.sender
    BY DEF Taken
  <1>4. answered.at = r.at
    BY DEF Taken
  <1> QED BY <1>1, <1>2, <1>3, <1>4

LEMMA GateInvStep == GateInv /\ [Next]_vars => GateInv'
  <1> SUFFICES ASSUME GateInv, Gate!GatewayNext \/ UNCHANGED Gate!gatewayVars
               PROVE  GateInv'
    BY GateStep
  <1> USE GatewayAssumption
  <1>1. CASE UNCHANGED <<clock, rateLimit, inbox, admitted>>
    BY <1>1 DEF GateInv, LetThrough, InWindow
  <1>2. CASE Gate!Tick
    <2>1. clock' = clock + 1 /\ UNCHANGED <<rateLimit, inbox, admitted>>
      BY <1>2 DEF Gate!Tick
    <2>2. ASSUME NEW s \in Senders
          PROVE  /\ \A i \in DOMAIN admitted[s] : admitted[s][i] <= clock'
                 /\ rateLimit[s].resetAt <= clock' + Window
      <3>1. admitted[s] \in Seq(Nat) /\ clock \in Nat /\ rateLimit[s].resetAt \in Nat
        BY DEF GateInv
      <3> QED BY <2>1, <3>1 DEF GateInv
    <2>3. clock' \in Nat
      BY <2>1 DEF GateInv
    <2> QED BY <2>1, <2>2, <2>3 DEF GateInv, LetThrough, InWindow
  <1>3. ASSUME NEW s \in Senders, NEW path \in Registered \cup {"health", "elsewhere"}, Gate!Request(s, path)
        PROVE  GateInv'
    <2>0. PICK post \in BOOLEAN :
            inbox' = Append(inbox, [sender |-> s, path |-> path, at |-> clock, status |-> Gate!Respond(s, path, post),
                                    fired |-> {}])
      BY <1>3 DEF Gate!Request
    <2>1. /\ rateLimit' = [rateLimit EXCEPT ![s] = Gate!Counted(s)] /\ clock' = clock
          /\ admitted' = IF Gate!IsRateLimited(s) THEN admitted ELSE [admitted EXCEPT ![s] = Append(@, clock)]
      BY <1>3 DEF Gate!Request
    <2> DEFINE asked == [sender |-> s, path |-> path, at |-> clock, status |-> Gate!Respond(s, path, post), fired |-> {}]
    <2>2. /\ clock \in Nat /\ rateLimit[s] \in [count: Nat, resetAt: Nat] /\ admitted[s] \in Seq(Nat)
          /\ rateLimit[s].resetAt <= clock + Window
      BY DEF GateInv
    <2>3. /\ Gate!Respond(s, path, post) \in Nat
          /\ Gate!Respond(s, path, post) = 429 => Gate!IsRateLimited(s)
      BY DEF Gate!Respond
    <2>4. asked \in Taken /\ asked.sender = s /\ asked.at = clock /\ (asked.status = 429 => Gate!IsRateLimited(s))
      BY <2>2, <2>3 DEF Taken
    <2> HIDE DEF asked
    <2>5. inbox' = Append(inbox, asked)
      BY <2>0 DEF asked
    <2>6. inbox' \in Seq(Taken)
      BY <2>4, <2>5 DEF GateInv
    <2>7. Gate!Counted(s) \in [count: Nat, resetAt: Nat] /\ Gate!Counted(s).resetAt <= clock + Window
      BY SMTT(30), <2>2 DEF Gate!Counted
    <2>8. rateLimit' \in [Senders -> [count: Nat, resetAt: Nat]] /\ rateLimit'[s] = Gate!Counted(s)
          /\ \A o \in Senders \ {s} : rateLimit'[o] = rateLimit[o]
      BY <2>1, <2>7 DEF GateInv
    <2>9. /\ admitted' \in [Senders -> Seq(Nat)] /\ \A o \in Senders \ {s} : admitted'[o] = admitted[o]
          /\ admitted'[s] = IF Gate!IsRateLimited(s) THEN admitted[s] ELSE Append(admitted[s], clock)
      BY <2>1, <2>2 DEF GateInv
    <2>10. \A i \in DOMAIN admitted'[s] : admitted'[s][i] <= clock
      BY SMTT(30), <2>2, <2>9 DEF GateInv
    <2>11. /\ InWindow(s)' <= Len(admitted'[s])
           /\ \A i \in (Len(admitted'[s]) - InWindow(s)' + 1)..Len(admitted'[s]) :
                rateLimit'[s].resetAt - Window <= admitted'[s][i]
      <3>1. /\ InWindow(s) <= Len(admitted[s]) /\ Len(admitted[s]) \in Nat
            /\ \A i \in (Len(admitted[s]) - InWindow(s) + 1)..Len(admitted[s]) :
                 rateLimit[s].resetAt - Window <= admitted[s][i]
        BY <2>2 DEF GateInv
      <3>2. InWindow(s)' = IF Gate!Counted(s).count <= RateLimitMax THEN Gate!Counted(s).count ELSE RateLimitMax
        BY <2>8 DEF InWindow
      <3>3. CASE Gate!IsRateLimited(s)
        <4>1. admitted'[s] = admitted[s] /\ InWindow(s)' = RateLimitMax /\ Gate!Counted(s).count > RateLimitMax
          BY <2>7, <2>9, <3>2, <3>3 DEF Gate!IsRateLimited
        <4>2. CASE RateLimitMax = 0
          BY <3>1, <4>1, <4>2
        <4>3. CASE RateLimitMax # 0
          <5>1. Gate!Counted(s) = [rateLimit[s] EXCEPT !.count = @ + 1]
            BY <2>2, <4>1, <4>3 DEF Gate!Counted
          <5>2. Gate!Counted(s).count = rateLimit[s].count + 1 /\ Gate!Counted(s).resetAt = rateLimit[s].resetAt
            BY <2>2, <5>1
          <5>3. InWindow(s) = RateLimitMax
            BY <2>2, <4>1, <5>2 DEF InWindow
          <5> QED BY <2>8, <3>1, <4>1, <5>2, <5>3
        <4> QED BY <4>2, <4>3
      <3>4. CASE ~Gate!IsRateLimited(s)
        <4>1. admitted'[s] = Append(admitted[s], clock) /\ InWindow(s)' = Gate!Counted(s).count
              /\ Gate!Counted(s).count <= RateLimitMax
          BY <2>7, <2>9, <3>2, <3>4 DEF Gate!IsRateLimited
        <4>2. Len(admitted'[s]) = Len(admitted[s]) + 1 /\ admitted'[s][Len(admitted[s]) + 1] = clock
              /\ \A i \in 1..Len(admitted[s]) : admitted'[s][i] = admitted[s][i]
          BY <2>2, <4>1
        <4>3. CASE Gate!Counted(s) = [count |-> 1, resetAt |-> clock + Window]
          <5>1. InWindow(s)' = 1 /\ rateLimit'[s].resetAt = clock + Window
            BY <2>8, <4>1, <4>3
          <5>2. (Len(admitted'[s]) - InWindow(s)' + 1)..Len(admitted'[s]) = {Len(admitted[s]) + 1}
            BY <3>1, <4>2, <5>1
          <5> QED BY <2>2, <3>1, <4>2, <5>1, <5>2
        <4>4. CASE Gate!Counted(s) = [rateLimit[s] EXCEPT !.count = @ + 1]
          <5>1. Gate!Counted(s).count = rateLimit[s].count + 1 /\ Gate!Counted(s).resetAt = rateLimit[s].resetAt
            BY <2>2, <4>4
          <5>2. InWindow(s) = rateLimit[s].count /\ InWindow(s)' = InWindow(s) + 1 /\ InWindow(s) \in Nat
            BY <2>2, <4>1, <5>1 DEF InWindow
          <5>3. ASSUME NEW i \in (Len(admitted'[s]) - InWindow(s)' + 1)..Len(admitted'[s])
                PROVE  rateLimit'[s].resetAt - Window <= admitted'[s][i]
            <6>1. i \in (Len(admitted[s]) - InWindow(s) + 1)..Len(admitted[s]) \/ i = Len(admitted[s]) + 1
              BY SMTT(30), <3>1, <4>2, <5>2
            <6>2. CASE i = Len(admitted[s]) + 1
              BY <2>2, <2>8, <4>2, <5>1, <6>2
            <6>3. CASE i \in (Len(admitted[s]) - InWindow(s) + 1)..Len(admitted[s])
              <7>1. rateLimit[s].resetAt - Window <= admitted[s][i] /\ rateLimit'[s].resetAt = rateLimit[s].resetAt
                BY <2>8, <3>1, <5>1, <6>3
              <7>2. i \in 1..Len(admitted[s])
                BY <3>1, <5>2, <6>3
              <7> QED BY <4>2, <7>1, <7>2
            <6> QED BY <6>1, <6>2, <6>3
          <5> QED BY <3>1, <4>2, <5>2, <5>3
        <4> QED BY <4>3, <4>4 DEF Gate!Counted
      <3> QED BY <3>3, <3>4
    <2>12. ASSUME NEW o \in Senders
           PROVE  /\ \A i \in DOMAIN admitted'[o] : admitted'[o][i] <= clock'
                  /\ rateLimit'[o].resetAt <= clock' + Window
                  /\ InWindow(o)' <= Len(admitted'[o])
                  /\ \A i \in (Len(admitted'[o]) - InWindow(o)' + 1)..Len(admitted'[o]) :
                       rateLimit'[o].resetAt - Window <= admitted'[o][i]
      <3>1. CASE o = s
        BY <2>1, <2>7, <2>8, <2>10, <2>11, <3>1
      <3>2. CASE o # s
        <4>1. rateLimit'[o] = rateLimit[o] /\ admitted'[o] = admitted[o] /\ InWindow(o)' = InWindow(o)
          BY <2>8, <2>9, <3>2 DEF InWindow
        <4> QED BY <2>1, <4>1 DEF GateInv
      <3> QED BY <3>1, <3>2
    <2>13. \A o \in Senders : admitted'[o] = admitted[o] \/ \E x \in Nat : admitted'[o] = Append(admitted[o], x)
      BY <2>2, <2>9
    <2>14. ASSUME NEW k \in DOMAIN inbox', inbox'[k].status = 429
           PROVE  RateLimitMax <= Cardinality(LetThrough(admitted[inbox[k].sender], inbox[k].at))'
      <3>1. CASE k \in DOMAIN inbox
        <4>1. inbox'[k] = inbox[k] /\ inbox[k] \in Taken
          BY <2>5, <3>1 DEF GateInv
        <4>2. inbox[k].sender \in Senders /\ inbox[k].at \in Nat
          BY <4>1 DEF Taken
        <4>3. RateLimitMax <= Cardinality(LetThrough(admitted[inbox[k].sender], inbox[k].at))
          BY <2>14, <3>1, <4>1 DEF GateInv
        <4> DEFINE a == inbox[k].sender
                   t == inbox[k].at
        <4>4. a \in Senders /\ t \in Nat /\ admitted[a] \in Seq(Nat) /\ RateLimitMax <= Cardinality(LetThrough(admitted[a], t))
          BY <4>2, <4>3 DEF GateInv
        <4>5. admitted'[a] = admitted[a] \/ \E x \in Nat : admitted'[a] = Append(admitted[a], x)
          BY <2>13, <4>4
        <4>6. inbox'[k].sender = a /\ inbox'[k].at = t
          BY <4>1
        <4> HIDE DEF a, t
        <4>8. Cardinality(LetThrough(admitted[a], t)) \in Nat
          BY <4>4, LetThroughFinite
        <4>9. ASSUME NEW x \in Nat, admitted'[a] = Append(admitted[a], x)
              PROVE  RateLimitMax <= Cardinality(LetThrough(admitted'[a], t))
          <5>1. Cardinality(LetThrough(admitted[a], t)) <= Cardinality(LetThrough(Append(admitted[a], x), t))
            BY <4>4, LetThroughGrows
          <5>2. Append(admitted[a], x) \in Seq(Nat)
            BY <4>4
          <5>4. Cardinality(LetThrough(Append(admitted[a], x), t)) \in Nat
            BY <4>4, <5>2, LetThroughFinite
          <5> QED BY <4>4, <4>8, <4>9, <5>1, <5>4, GatewayAssumption
        <4>10. RateLimitMax <= Cardinality(LetThrough(admitted'[a], t))
          BY <4>4, <4>5, <4>9
        <4> QED BY <4>6, <4>10
      <3>2. CASE k \notin DOMAIN inbox
        <4>1. inbox'[k] = asked
          BY <2>5, <2>14, <3>2 DEF GateInv
        <4>2. Gate!IsRateLimited(s) /\ inbox'[k].sender = s /\ inbox'[k].at = clock
          BY <2>4, <2>14, <4>1
        <4>3. admitted'[s] = admitted[s]
          BY <2>9, <4>2
        <4>4. RateLimitMax <= Cardinality(LetThrough(admitted[s], clock))
          BY <4>2, RefusedIsDue
        <4> QED BY <4>2, <4>3, <4>4
      <3> QED BY <3>1, <3>2
    <2> QED BY <2>1, <2>2, <2>6, <2>8, <2>9, <2>12, <2>14 DEF GateInv
  <1>4. ASSUME NEW k \in 1..MaxRequests, Gate!HandleBody(k)
        PROVE  GateInv'
    <2>1. k \in DOMAIN inbox /\ UNCHANGED <<clock, rateLimit, admitted>>
      BY <1>4 DEF Gate!HandleBody
    <2>2. PICK body \in Bodies, signature \in Gate!Signatures, field \in Fields :
            LET answer == Gate!Answer(inbox[k].path, body, signature, field)
            IN  inbox' = [inbox EXCEPT ![k].status = answer.status, ![k].fired = answer.fired]
      BY <1>4 DEF Gate!HandleBody
    <2> DEFINE answer == Gate!Answer(inbox[k].path, body, signature, field)
               answered == Answered(inbox[k], answer.status, answer.fired)
    <2>3. answer.status \in {200, 400, 401, 500} /\ answer.fired \subseteq TriggerRules
      <3>1. Gate!Match(inbox[k].path, field) \subseteq TriggerRules
        BY DEF Gate!Match
      <3> QED BY <3>1 DEF Gate!Answer
    <2>4. inbox' = [inbox EXCEPT ![k] = answered]
      BY <2>2 DEF Answered
    <2> HIDE DEF answer
    <2>5. inbox[k] \in Taken
      BY <2>1 DEF GateInv
    <2>6. answered \in Taken /\ answered.status # 429 /\ answered.sender = inbox[k].sender /\ answered.at = inbox[k].at
      <3>1. answer.status \in Nat /\ answer.status # 429 /\ answer.fired \in SUBSET TriggerRules
        BY <2>3
      <3> QED BY <2>5, <3>1, AnsweredRequest
    <2> HIDE DEF answered
    <2>7. inbox' \in Seq(Taken) /\ DOMAIN inbox' = DOMAIN inbox
      <3>1. answered \in Taken /\ inbox \in Seq(Taken) /\ k \in DOMAIN inbox
        BY <2>1, <2>6 DEF GateInv
      <3> QED BY <2>4, <3>1
    <2>8. \A j \in DOMAIN inbox' : (j = k /\ inbox'[j].status # 429) \/ inbox'[j] = inbox[j]
      BY <2>4, <2>6, <2>7 DEF GateInv
    <2>9. \A s \in Senders : InWindow(s)' = InWindow(s)
      BY <2>1 DEF InWindow
    <2> QED BY <2>1, <2>7, <2>8, <2>9 DEF GateInv
  <1>5. ASSUME NEW platform \in Registered, Gate!SendNotification(platform)
        PROVE  GateInv'
    BY <1>1, <1>5 DEF Gate!SendNotification
  <1>6. CASE Gate!Stop
    BY <1>1, <1>6 DEF Gate!Stop
  <1> QED BY <1>1, <1>2, <1>3, <1>4, <1>5, <1>6 DEF Gate!GatewayNext, Gate!gatewayVars

(* A sender that is refused has had as many requests let through within one  *)
(* window as the limit allows, whatever the limit and the window are.       *)
THEOREM RefusalsDue == Spec => []RefusalsAreDue
  <1>1. Init => GateInv
    BY GatewayAssumption DEF Init, Gate!Init, GateInv, InWindow
  <1>2. GateInv => RefusalsAreDue
    BY GateCardinality, GatewayAssumption DEF GateInv, LetThrough, RefusalsAreDue, Gate!RefusalsAreDue
  <1> QED BY <1>1, <1>2, GateInvStep, PTL DEF Spec
-----------------------------------------------------------------------------
(* The minutes a cron job fires in.                                         *)

LEMMA JobStep == [Next]_vars => [Job!CronTimeNext]_(Job!cronVars)
  BY DEF Next, Others, vars, cronJob, Job!cronVars

LEMMA LeastMinute ==
  ASSUME NEW S \in SUBSET Nat, S # {}
  PROVE  Job!Min(S) \in S /\ \A n \in S : Job!Min(S) <= n
  BY LeastNumber DEF Job!Min

\* A tick is in its minute, and a minute is over before a later one begins.
LEMMA MinuteOfTick ==
  ASSUME NEW t \in Nat
  PROVE  Job!MinuteOf(t) \in Nat /\ Job!MinuteOf(t) * MinuteTicks <= t /\ t < Job!MinuteOf(t) * MinuteTicks + MinuteTicks
  BY CronAssumption DEF Job!MinuteOf

LEMMA LaterMinute ==
  ASSUME NEW m \in Nat, NEW n \in Nat, m < n
  PROVE  m * MinuteTicks + MinuteTicks <= n * MinuteTicks
  <1>1. PICK k \in Nat : n = m + 1 + k
    <2>1. n - m - 1 \in Nat /\ n = m + 1 + (n - m - 1)
      OBVIOUS
    <2> QED BY <2>1
  <1>2. n * MinuteTicks = m * MinuteTicks + MinuteTicks + k * MinuteTicks
    BY <1>1, CronAssumption
  <1>3. k * MinuteTicks \in Nat /\ m * MinuteTicks \in Nat
    BY CronAssumption
  <1> QED BY <1>2, <1>3, CronAssumption

LEMMA MinuteIs ==
  ASSUME NEW m \in Nat, NEW t \in Nat, m * MinuteTicks <= t, t < m * MinuteTicks + MinuteTicks
  PROVE  Job!MinuteOf(t) = m
  <1> DEFINE q == Job!MinuteOf(t)
  <1>1. q \in Nat /\ q * MinuteTicks <= t /\ t < q * MinuteTicks + MinuteTicks
    BY MinuteOfTick
  <1>2. q * MinuteTicks \in Nat /\ m * MinuteTicks \in Nat
    BY <1>1, CronAssumption
  <1> HIDE DEF q
  <1>3. ~(q < m)
    <2> SUFFICES ASSUME q < m
                 PROVE  FALSE
      OBVIOUS
    <2>1. q * MinuteTicks + MinuteTicks <= m * MinuteTicks
      BY <1>1, LaterMinute
    <2> QED BY <1>1, <1>2, <2>1, CronAssumption
  <1>4. ~(m < q)
    <2> SUFFICES ASSUME m < q
                 PROVE  FALSE
      OBVIOUS
    <2>1. m * MinuteTicks + MinuteTicks <= q * MinuteTicks
      BY <1>1, LaterMinute
    <2> QED BY <1>1, <1>2, <2>1, CronAssumption
  <1>5. q = m
    BY <1>1, <1>3, <1>4
  <1> QED BY <1>5 DEF q

\* The last minute the job fired in, or that it was started in.
LastRun == IF fired = <<>> THEN since ELSE fired[Len(fired)]

\* The job has fired in every minute it names up to the last.
FiredSoFar ==
  /\ \A i \in DOMAIN fired : Job!Matches(cron, fired[i]) /\ (i > 1 => fired[i - 1] < fired[i])
  /\ \A m \in Nat : since < m /\ m <= LastRun /\ Job!Matches(cron, m) => \E i \in DOMAIN fired : fired[i] = m

\* The timer is set for the first minute the expression names after a given one.
SetFor(m, last) ==
  /\ timer = m * MinuteTicks /\ last < m /\ Job!Matches(cron, m)
  /\ \A n \in Nat : last < n /\ n < m => ~Job!Matches(cron, n)

(* The timer is set for the next minute the expression names after the last  *)
(* run, and it is not more than its lateness behind.                        *)
CronInv ==
  /\ cronNow \in Nat /\ since \in Nat /\ fired \in Seq(Nat) /\ (timer = -1 \/ timer \in Nat)
  /\ LastRun * MinuteTicks <= cronNow
  /\ timer # -1 /\ ~overflowed =>
       /\ FiredSoFar
       /\ \E m \in Nat : SetFor(m, LastRun)
       /\ cronNow <= timer + MaxLate

\* Setting the timer at a time in the minute of the last run.
LEMMA ScheduledNext ==
  ASSUME cronNow \in Nat, Job!ScheduleNext, cronNow' = cronNow, cron' = cron, overflowed \in BOOLEAN
  PROVE  /\ timer' = -1 \/ timer' \in Nat
         /\ timer' # -1 /\ ~overflowed' =>
              /\ ~overflowed /\ cronNow' <= timer' + MaxLate
              /\ \E m \in Nat : SetFor(m, Job!MinuteOf(cronNow))'
  <1> USE CronAssumption
  <1> DEFINE found == Job!RunTimes(cron, cronNow)
             next == Job!Min(found)
             last == Job!MinuteOf(cronNow)
             delay == next * MinuteTicks - cronNow
  <1>1. last \in Nat /\ cronNow < last * MinuteTicks + MinuteTicks
    BY MinuteOfTick
  <1>2. /\ found = {} => timer' = -1
        /\ found # {} => timer' = cronNow + (IF delay > MaxDelay THEN 1 ELSE delay) /\ overflowed' = (overflowed \/ delay > MaxDelay)
    BY DEF Job!ScheduleNext, Job!None
  <1>3. found = {m \in (last + 1)..(last + 1 + Horizon - 1) : Job!Matches(cron, m)}
    BY DEF Job!RunTimes, Job!FirstCandidate
  <1> HIDE DEF found, last
  <1>4. CASE found = {}
    BY <1>2, <1>4
  <1>5. CASE found # {}
    <2>1. found \subseteq Nat
      BY <1>1, <1>3
    <2>2. next \in found /\ \A n \in found : next <= n
      BY <1>5, <2>1, LeastMinute
    <2> HIDE DEF next
    <2>3. next \in Nat /\ last < next /\ next <= last + Horizon /\ Job!Matches(cron, next)
      BY <1>1, <1>3, <2>2
    <2>4. \A n \in Nat : last < n /\ n < next => ~Job!Matches(cron, n)
      BY <1>1, <1>3, <2>2, <2>3
    <2>5. last * MinuteTicks + MinuteTicks <= next * MinuteTicks
      BY <1>1, <2>3, LaterMinute
    <2>6. next * MinuteTicks \in Nat /\ last * MinuteTicks \in Nat
      BY <1>1, <2>3
    <2>7. delay \in Nat /\ cronNow + delay = next * MinuteTicks
      BY <1>1, <2>5, <2>6
    <2> HIDE DEF delay
    <2>8. timer' \in Nat
      BY <1>2, <1>5, <2>7
    <2>9. ASSUME ~overflowed'
          PROVE  ~overflowed /\ timer' = next * MinuteTicks
      <3>1. overflowed' = (overflowed \/ delay > MaxDelay)
        BY <1>2, <1>5
      <3>2. ~overflowed /\ ~(delay > MaxDelay)
        BY <2>9, <3>1
      <3> QED BY <1>2, <1>5, <2>7, <3>2
    <2>10. ASSUME ~overflowed'
           PROVE  \E m \in Nat : SetFor(m, last)'
      <3>1. last' = last /\ cron' = cron
        BY DEF last
      <3>2. PICK m \in Nat : m = next
        BY <2>3
      <3>3. timer' = m * MinuteTicks
        BY <2>9, <2>10, <3>2
      <3>4. last < m /\ Job!Matches(cron, m) /\ \A n \in Nat : last < n /\ n < m => ~Job!Matches(cron, n)
        BY <2>3, <2>4, <3>2
      <3>5. SetFor(m, last)'
        BY <3>1, <3>3, <3>4 DEF SetFor
      <3> QED BY <3>5
    <2>11. ASSUME ~overflowed'
           PROVE  cronNow' <= timer' + MaxLate
      <3>1. timer' = next * MinuteTicks
        BY <2>9, <2>11
      <3> QED BY <2>6, <2>7, <3>1
    <2>12. (\E m \in Nat : SetFor(m, last)') => \E m \in Nat : SetFor(m, Job!MinuteOf(cronNow))'
      BY DEF last
    <2>13. timer' # -1 /\ ~overflowed' =>
             /\ ~overflowed /\ cronNow' <= timer' + MaxLate
             /\ \E m \in Nat : SetFor(m, Job!MinuteOf(cronNow))'
      BY <2>9, <2>10, <2>11, <2>12
    <2> QED BY <2>8, <2>13
  <1> QED BY <1>4, <1>5

LEMMA CronInvStep == CronInv /\ overflowed \in BOOLEAN /\ [Next]_vars => (CronInv /\ overflowed \in BOOLEAN)'
  <1> SUFFICES ASSUME CronInv, overflowed \in BOOLEAN, Job!CronTimeNext \/ UNCHANGED Job!cronVars
               PROVE  CronInv' /\ overflowed' \in BOOLEAN
    BY JobStep
  <1> USE CronAssumption
  <1>0. cronNow \in Nat /\ since \in Nat /\ fired \in Seq(Nat)
    BY DEF CronInv
  <1>1. CASE UNCHANGED Job!cronVars
    BY <1>1 DEF Job!cronVars, CronInv, LastRun, FiredSoFar, SetFor
  <1>2. CASE Job!Start
    <2>1. /\ since' = Job!MinuteOf(cronNow) /\ fired' = <<>> /\ Job!ScheduleNext
          /\ cron' = cron /\ cronNow' = cronNow
      BY <1>2 DEF Job!Start
    <2>2. since' \in Nat /\ since' * MinuteTicks <= cronNow /\ LastRun' = since'
      BY <1>0, <2>1, MinuteOfTick DEF LastRun
    <2>3. FiredSoFar'
      BY <2>1, <2>2 DEF FiredSoFar
    <2>4. /\ timer' = -1 \/ timer' \in Nat
          /\ timer' # -1 /\ ~overflowed' =>
               cronNow' <= timer' + MaxLate /\ \E m \in Nat : SetFor(m, Job!MinuteOf(cronNow))'
      BY <1>0, <2>1, ScheduledNext
    <2>5. overflowed' \in BOOLEAN
      BY <2>1 DEF Job!ScheduleNext
    <2>6. timer' # -1 /\ ~overflowed' => \E m \in Nat : SetFor(m, LastRun)'
      BY <2>1, <2>2, <2>4 DEF SetFor
    <2>7. fired' \in Seq(Nat)
      BY <2>1
    <2> QED BY <1>0, <2>1, <2>2, <2>3, <2>4, <2>5, <2>6, <2>7 DEF CronInv
  <1>3. CASE Job!Stop
    <2>1. timer' = -1 /\ UNCHANGED <<cron, cronNow, since, fired, overflowed>>
      BY <1>3 DEF Job!Stop, Job!None
    <2>2. LastRun' = LastRun
      BY <2>1 DEF LastRun
    <2> QED BY <2>1, <2>2 DEF CronInv
  <1>4. CASE Job!Fire
    <2>1. /\ timer # -1 /\ cronNow >= timer /\ fired' = Append(fired, Job!MinuteOf(cronNow)) /\ Job!ScheduleNext
          /\ UNCHANGED <<cron, cronNow, since>>
      BY <1>4 DEF Job!Fire, Job!None
    <2> DEFINE minute == Job!MinuteOf(cronNow)
    <2>2. minute \in Nat /\ minute * MinuteTicks <= cronNow
      BY <1>0, MinuteOfTick
    <2>3. /\ timer' = -1 \/ timer' \in Nat
          /\ timer' # -1 /\ ~overflowed' =>
               /\ ~overflowed /\ cronNow' <= timer' + MaxLate
               /\ \E m \in Nat : SetFor(m, minute)'
      BY <1>0, <2>1, ScheduledNext
    <2>4. overflowed' \in BOOLEAN
      BY <2>1 DEF Job!ScheduleNext
    <2>5. minute' = minute
      BY <2>1
    <2> HIDE DEF minute
    <2>6. /\ fired' = Append(fired, minute) /\ fired' \in Seq(Nat) /\ Len(fired) \in Nat
          /\ DOMAIN fired' = 1..(Len(fired) + 1) /\ DOMAIN fired = 1..Len(fired)
          /\ fired'[Len(fired) + 1] = minute /\ \A i \in DOMAIN fired : fired'[i] = fired[i]
          /\ Len(fired') = Len(fired) + 1 /\ fired' # <<>>
      BY SMTT(30), <1>0, <2>1, <2>2 DEF minute
    <2>7. LastRun' = minute
      BY <2>6 DEF LastRun
    <2>8. ASSUME timer' # -1, ~overflowed'
          PROVE  FiredSoFar'
      <3>1. FiredSoFar /\ cronNow <= timer + MaxLate
        BY <2>1, <2>3, <2>8 DEF CronInv
      <3>2. PICK m \in Nat : SetFor(m, LastRun)
        BY <2>1, <2>3, <2>8 DEF CronInv
      <3>3. m = minute
        <4>1. timer = m * MinuteTicks /\ m * MinuteTicks \in Nat
          BY <3>2 DEF SetFor
        <4>2. m * MinuteTicks <= cronNow /\ cronNow < m * MinuteTicks + MinuteTicks
          BY <1>0, <2>1, <3>1, <4>1
        <4> QED BY <1>0, <4>2, MinuteIs DEF minute
      <3>4. Job!Matches(cron, minute) /\ LastRun < minute
            /\ \A n \in Nat : LastRun < n /\ n < minute => ~Job!Matches(cron, n)
        BY <3>2, <3>3 DEF SetFor
      <3>5. LastRun \in Nat /\ (fired # <<>> => LastRun = fired[Len(fired)])
        BY <1>0 DEF LastRun
      <3>6. ASSUME NEW i \in DOMAIN fired'
            PROVE  Job!Matches(cron, fired'[i]) /\ (i > 1 => fired'[i - 1] < fired'[i])
        <4>1. CASE i \in DOMAIN fired
          <5>1. i > 1 => i - 1 \in DOMAIN fired
            BY SMTT(30), <2>6, <4>1
          <5> QED BY <2>6, <3>1, <4>1, <5>1 DEF FiredSoFar
        <4>2. CASE i = Len(fired) + 1
          <5>1. i > 1 => Len(fired) \in DOMAIN fired /\ fired # <<>> /\ i - 1 = Len(fired)
            BY <1>0, <2>6, <4>2
          <5> QED BY <2>6, <3>4, <3>5, <4>2, <5>1
        <4> QED BY <2>6, <4>1, <4>2
      <3>7. ASSUME NEW n \in Nat, since < n, n <= minute, Job!Matches(cron, n)
            PROVE  \E i \in DOMAIN fired' : fired'[i] = n
        <4>1. CASE n <= LastRun
          <5>1. PICK i \in DOMAIN fired : fired[i] = n
            BY <3>1, <3>7, <4>1 DEF FiredSoFar
          <5>2. i \in DOMAIN fired' /\ fired'[i] = n
            BY <2>6, <5>1
          <5> QED BY <5>2
        <4>2. CASE ~(n <= LastRun)
          <5>1. n = minute
            BY <2>2, <3>4, <3>5, <3>7, <4>2
          <5>2. Len(fired) + 1 \in DOMAIN fired'
            BY <2>6
          <5> QED BY <2>6, <5>1, <5>2
        <4> QED BY <4>1, <4>2
      <3> QED BY <2>1, <2>7, <3>6, <3>7 DEF FiredSoFar
    <2>9. timer' # -1 /\ ~overflowed' => \E m \in Nat : SetFor(m, LastRun)'
      BY <2>3, <2>5, <2>7 DEF SetFor
    <2> QED BY <1>0, <2>1, <2>2, <2>3, <2>4, <2>6, <2>7, <2>8, <2>9 DEF CronInv
  <1>5. CASE Job!Tick
    <2>1. /\ cronNow' = cronNow + 1 /\ (timer # -1 => cronNow < timer + MaxLate)
          /\ UNCHANGED <<cron, timer, since, fired, overflowed>>
      BY <1>5 DEF Job!Tick, Job!None
    <2>2. LastRun' = LastRun /\ (FiredSoFar => FiredSoFar') /\ \A m \in Nat : SetFor(m, LastRun) => SetFor(m, LastRun)'
      BY <2>1 DEF LastRun, FiredSoFar, SetFor
    <2>3. LastRun \in Nat
      BY <1>0 DEF LastRun
    <2>4. LastRun * MinuteTicks <= cronNow + 1
      <3>1. LastRun * MinuteTicks \in Nat /\ LastRun * MinuteTicks <= cronNow
        BY <2>3 DEF CronInv
      <3> QED BY <1>0, <3>1
    <2>5. timer # -1 => cronNow' <= timer + MaxLate
      BY <1>0, <2>1 DEF CronInv
    <2> QED BY <1>0, <2>1, <2>2, <2>4, <2>5 DEF CronInv
  <1> QED BY <1>1, <1>2, <1>3, <1>4, <1>5 DEF Job!CronTimeNext

(* With timers less than a minute late and no delay over the limit, a job     *)
(* fires once in every minute its expression names, for every calendar.      *)
THEOREM DueMinutesFire == Spec => []DueMinutesFireOnce
  <1>1. Init => CronInv /\ overflowed \in BOOLEAN
    <2> SUFFICES ASSUME Init
                 PROVE  CronInv /\ overflowed \in BOOLEAN
      OBVIOUS
    <2>1. cronNow = 0 /\ since = 0 /\ fired = <<>> /\ timer = -1 /\ overflowed = FALSE
      BY DEF Init, Job!Init, Job!None
    <2>2. LastRun = 0 /\ LastRun * MinuteTicks = 0
      BY <2>1, CronAssumption DEF LastRun
    <2>3. cronNow \in Nat /\ since \in Nat /\ fired \in Seq(Nat)
      BY <2>1
    <2>5. LastRun * MinuteTicks <= cronNow
      BY <2>1, <2>2
    <2>6. overflowed \in BOOLEAN
      BY <2>1, Zenon
    <2>4. CronInv
      BY <2>1, <2>3, <2>5 DEF CronInv
    <2> QED BY <2>4, <2>6
  <1>2. CronInv => DueMinutesFireOnce
    <2> SUFFICES ASSUME CronInv, timer # -1, ~overflowed
                 PROVE  /\ \A i \in DOMAIN fired : Job!Matches(cron, fired[i]) /\ (i > 1 => fired[i - 1] < fired[i])
                        /\ \A m \in (since + 1)..Job!MinuteOf(cronNow) :
                             Job!Matches(cron, m) => m \in Job!Range(fired) \/ timer = m * MinuteTicks
      BY DEF DueMinutesFireOnce, Job!DueMinutesFireOnce, Job!None
    <2> USE CronAssumption
    <2>0. cronNow \in Nat /\ since \in Nat /\ fired \in Seq(Nat) /\ LastRun \in Nat
      BY DEF CronInv, LastRun
    <2>1. FiredSoFar /\ cronNow <= timer + MaxLate
      BY DEF CronInv
    <2>2. PICK q \in Nat : SetFor(q, LastRun)
      BY DEF CronInv
    <2>3. Job!MinuteOf(cronNow) \in Nat /\ Job!MinuteOf(cronNow) * MinuteTicks <= cronNow
      BY <2>0, MinuteOfTick
    <2>4. Job!MinuteOf(cronNow) <= q
      <3> SUFFICES ASSUME q < Job!MinuteOf(cronNow)
                   PROVE  FALSE
        BY <2>3
      <3>1. q * MinuteTicks + MinuteTicks <= Job!MinuteOf(cronNow) * MinuteTicks
        BY <2>3, LaterMinute
      <3>2. timer = q * MinuteTicks /\ q * MinuteTicks \in Nat /\ Job!MinuteOf(cronNow) * MinuteTicks \in Nat
        BY <2>2, <2>3 DEF SetFor
      <3> QED BY <2>0, <2>1, <2>3, <3>1, <3>2
    <2>5. ASSUME NEW m \in (since + 1)..Job!MinuteOf(cronNow), Job!Matches(cron, m)
          PROVE  m \in Job!Range(fired) \/ timer = m * MinuteTicks
      <3>0. m \in Nat /\ since < m /\ m <= q
        BY <2>0, <2>3, <2>4
      <3>1. CASE m <= LastRun
        <4>1. PICK i \in DOMAIN fired : fired[i] = m
          BY <2>1, <2>5, <3>0, <3>1 DEF FiredSoFar
        <4> QED BY <4>1 DEF Job!Range
      <3>2. CASE ~(m <= LastRun)
        <4>1. m = q
          BY <2>0, <2>2, <2>5, <3>0, <3>2 DEF SetFor
        <4> QED BY <2>2, <4>1 DEF SetFor
      <3> QED BY <3>1, <3>2
    <2> QED BY <2>1, <2>5 DEF FiredSoFar
  <1> QED BY <1>1, <1>2, CronInvStep, PTL DEF Spec
-----------------------------------------------------------------------------
(* The blackboard.                                                          *)

LEMMA BoardStep == [Next]_vars => [Board!BoardNext]_(Board!boardVars)
  BY DEF Next, Others, vars, board, Board!boardVars

\* A post under way.
Frames == [entry: Nat, array: Nat, at: Nat, calling: BOOLEAN, from: SUBSET Subscribers, disturbed: BOOLEAN]

\* Board!MatchesFilter, of the entry itself.
Fits(draft, s) ==
  LET filter == Filter[s] IN
  /\ \A field \in DOMAIN filter \ {"since", "tags"} : draft[field] = filter[field]
  /\ "since" \in DOMAIN filter => draft.timestamp >= filter.since
  /\ "tags" \in DOMAIN filter => filter.tags = {} \/ filter.tags \cap draft.tags # {}

\* No element twice, and all of them in S.
Distinct(array, S) ==
  /\ \A i, j \in DOMAIN array : array[i] = array[j] => i = j
  /\ \A i \in DOMAIN array : array[i] \in S

\* The subscribers the loop has yet to come to.
Pending(array, place) == {array[i] : i \in {k \in DOMAIN array : k >= place}}

LEMMA PendingAtStart ==
  ASSUME NEW S, NEW array \in Seq(S)
  PROVE  Pending(array, 1) = Board!ToSet(array)
  BY DEF Pending, Board!ToSet

LEMMA PendingAtEnd ==
  ASSUME NEW S, NEW array \in Seq(S), NEW place \in Nat, place > Len(array)
  PROVE  Pending(array, place) = {}
  BY DEF Pending

LEMMA PendingOneLess ==
  ASSUME NEW S, NEW array \in Seq(S), Distinct(array, S), NEW place \in 1..Len(array)
  PROVE  /\ array[place] \in Pending(array, place)
         /\ array[place] \notin Pending(array, place + 1)
         /\ \A s : s \in Pending(array, place) <=> s = array[place] \/ s \in Pending(array, place + 1)
  <1>1. \A k \in DOMAIN array : k >= place <=> k = place \/ k >= place + 1 OBVIOUS
  <1>2. place \in DOMAIN array /\ place >= place /\ ~(place >= place + 1) OBVIOUS
  <1> QED BY <1>1, <1>2 DEF Pending, Distinct

LEMMA PendingOneMore ==
  ASSUME NEW S, NEW array \in Seq(S), NEW place \in Nat, NEW e
  PROVE  /\ Pending(array, place) \subseteq Pending(Board!Pushed(array, e), place)
         /\ Pending(Board!Pushed(array, e), place) \subseteq Pending(array, place) \cup {e}
  <1> DEFINE more == Append(array, e)
  <1>1. DOMAIN more = 1..Len(array)+1 /\ DOMAIN array = 1..Len(array) OBVIOUS
  <1>2. \A k \in 1..Len(array) : more[k] = array[k] OBVIOUS
  <1>3. more[Len(array)+1] = e OBVIOUS
  <1>4. \A k \in 1..Len(array)+1 : k \in 1..Len(array) \/ k = Len(array)+1 OBVIOUS
  <1> HIDE DEF more
  <1>5. Pending(array, place) \subseteq Pending(more, place) BY <1>1, <1>2 DEF Pending
  <1>6. Pending(more, place) \subseteq Pending(array, place) \cup {e} BY <1>1, <1>2, <1>3, <1>4 DEF Pending
  <1> QED BY <1>5, <1>6 DEF more, Board!Pushed

\* A subscription pushed for the first time keeps the array free of repeats.
LEMMA PushedDistinct ==
  ASSUME NEW S, NEW T, NEW array \in Seq(T), Distinct(array, S), NEW e \in T, e \notin S
  PROVE  /\ Board!Pushed(array, e) \in Seq(T)
         /\ Distinct(Board!Pushed(array, e), S \cup {e})
  BY DEF Distinct, Board!Pushed

LEMMA LeastOfBoard ==
  ASSUME NEW S \in SUBSET Nat, S # {}
  PROVE  Board!Min(S) \in S
  BY LeastNumber DEF Board!Min

\* Taking a subscription out moves the later ones one place down.
LEMMA OneRemoved ==
  ASSUME NEW S, NEW s \in Seq(S), NEW e \in Board!ToSet(s)
  PROVE  /\ Board!RemoveFirst(s, e) \in Seq(S)
         /\ Len(Board!RemoveFirst(s, e)) = Len(s) - 1
         /\ \E i \in 1..Len(s) :
              \A j \in 1..Len(s)-1 : Board!RemoveFirst(s, e)[j] = IF j < i THEN s[j] ELSE s[j+1]
  <1> DEFINE I == {i \in 1..Len(s) : s[i] = e}
             i == Board!SelectInSeq(s, LAMBDA v : v = e)
             front == SubSeq(s, 1, i - 1)
             back == SubSeq(s, i + 1, Len(s))
  <1>1. I \in SUBSET Nat /\ I # {} /\ I \subseteq 1..Len(s) /\ Len(s) \in Nat BY DEF Board!ToSet
  <1>2. i = Board!Min(I) BY <1>1 DEF Board!SelectInSeq
  <1>3. i \in 1..Len(s) /\ s[i] = e BY <1>1, <1>2, LeastOfBoard, Zenon
  <1>4. Board!RemoveFirst(s, e) = front \o back BY <1>3 DEF Board!RemoveFirst, Board!RemoveAt
  <1> HIDE DEF i, I
  <1>5. /\ front \in Seq(S) /\ Len(front) = i - 1 /\ \A j \in 1..i-1 : front[j] = s[j]
        /\ back \in Seq(S) /\ Len(back) = Len(s) - i
        /\ \A j \in 1..Len(s)-i : back[j] = s[i + j]
    <2>1. front \in Seq(S) /\ Len(front) = (IF 1 <= i - 1 THEN i - 1 - 1 + 1 ELSE 0)
          /\ \A j \in 1..(i - 1 - 1 + 1) : front[j] = s[1 + j - 1]
      <3>1. \A j \in 1..(i-1) : s[j] \in S BY <1>1, <1>3
      <3> QED BY <1>1, <1>3, <3>1, SubSeqProperties
    <2>2. back \in Seq(S) /\ Len(back) = (IF i + 1 <= Len(s) THEN Len(s) - (i + 1) + 1 ELSE 0)
          /\ \A j \in 1..(Len(s) - (i + 1) + 1) : back[j] = s[(i + 1) + j - 1]
      <3>1. \A j \in (i+1)..Len(s) : s[j] \in S BY <1>1, <1>3
      <3> QED BY <1>1, <1>3, <3>1, SubSeqProperties
    <2> HIDE DEF front, back
    <2>3. front \in Seq(S) /\ Len(front) = i - 1 /\ \A j \in 1..i-1 : front[j] = s[j] BY <1>1, <1>3, <2>1
    <2>4. back \in Seq(S) /\ Len(back) = Len(s) - i BY <1>1, <1>3, <2>2
    <2>5. ASSUME NEW j \in 1..Len(s)-i PROVE back[j] = s[i + j]
      <3>1. j \in 1..(Len(s) - (i + 1) + 1) /\ (i + 1) + j - 1 = i + j BY <1>1, <1>3
      <3> QED BY <3>1, <2>2
    <2> QED BY <2>3, <2>4, <2>5
  <1> HIDE DEF front, back
  <1>6. /\ front \o back \in Seq(S)
        /\ Len(front \o back) = Len(front) + Len(back)
        /\ \A j \in 1..Len(front) + Len(back) :
             (front \o back)[j] = IF j <= Len(front) THEN front[j] ELSE back[j - Len(front)]
    BY <1>5, ConcatProperties
  <1>7. \A j \in 1..Len(s)-1 : (front \o back)[j] = IF j < i THEN s[j] ELSE s[j+1]
    <2> TAKE j \in 1..Len(s)-1
    <2>1. CASE j < i BY <1>1, <1>3, <1>5, <1>6, <2>1
    <2>2. CASE ~(j < i)
      <3>1. j - (i - 1) \in 1..Len(s)-i /\ i + (j - (i - 1)) = j + 1 BY <1>1, <1>3, <2>2
      <3>2. (front \o back)[j] = back[j - (i - 1)] BY <1>1, <1>3, <1>5, <1>6, <2>2
      <3> QED BY <3>1, <3>2, <1>5, <2>2
    <2> QED BY <2>1, <2>2
  <1>8. Len(front \o back) = Len(s) - 1 BY <1>1, <1>3, <1>5, <1>6
  <1> QED BY <1>3, <1>4, <1>6, <1>7, <1>8

LEMMA PendingRemoved ==
  ASSUME NEW S, NEW T, NEW array \in Seq(T), Distinct(array, S), NEW e \in Board!ToSet(array)
  PROVE  /\ Board!RemoveFirst(array, e) \in Seq(T)
         /\ Distinct(Board!RemoveFirst(array, e), S)
         /\ \A place \in Nat : Pending(Board!RemoveFirst(array, e), place) \subseteq Pending(array, place)
  <1> DEFINE rest == Board!RemoveFirst(array, e)
  <1>1. rest \in Seq(T) /\ Len(rest) = Len(array) - 1 BY OneRemoved
  <1>2. PICK i \in 1..Len(array) : \A j \in 1..Len(array)-1 : rest[j] = IF j < i THEN array[j] ELSE array[j+1]
    BY OneRemoved
  <1> HIDE DEF rest
  <1>3. DOMAIN rest = 1..Len(array)-1 /\ DOMAIN array = 1..Len(array) /\ Len(array) \in Nat BY <1>1
  <1>4. Distinct(rest, S)
    <2>1. ASSUME NEW j \in 1..Len(array)-1, NEW k \in 1..Len(array)-1, rest[j] = rest[k] PROVE j = k
      BY <1>2, <1>3, <2>1 DEF Distinct
    <2>2. ASSUME NEW j \in 1..Len(array)-1 PROVE rest[j] \in S
      BY <1>2, <1>3 DEF Distinct
    <2> QED BY <2>1, <2>2, <1>3 DEF Distinct
  <1>5. ASSUME NEW place \in Nat, NEW j \in 1..Len(array)-1, j >= place
        PROVE  \E k \in DOMAIN array : k >= place /\ rest[j] = array[k]
    <2>1. CASE j < i BY <1>2, <1>3, <1>5, <2>1
    <2>2. CASE ~(j < i)
      <3>1. j + 1 \in DOMAIN array /\ j + 1 >= place /\ rest[j] = array[j+1] BY <1>2, <1>3, <1>5, <2>2
      <3> QED BY <3>1
    <2> QED BY <2>1, <2>2
  <1>6. ASSUME NEW place \in Nat PROVE Pending(rest, place) \subseteq Pending(array, place)
    BY <1>3, <1>5 DEF Pending
  <1> QED BY <1>1, <1>4, <1>6 DEF rest

\* What the loop owes: nobody it has yet to come to has heard its entry, and
\* unless it was disturbed everybody it began with has, or is yet to come.
Unheard(f, array, told) == \A s \in Pending(array, f.at) : <<s, f.entry>> \notin told
Owed(f, array, told, draft) ==
  ~f.disturbed => \A s \in f.from : Fits(draft, s) => <<s, f.entry>> \in told \/ s \in Pending(array, f.at)

Told(log) == {log[h] : h \in DOMAIN log}

BoardTypes ==
  /\ entries \in Seq(Drafts) /\ joined \subseteq Subscribers
  /\ arrays \in Seq(Seq(Subscribers)) /\ arrays # <<>>
  /\ frames \in Seq(Frames)
  /\ heard \in Seq(Subscribers \X Nat)

ArraysHold == \A a \in DOMAIN arrays : Distinct(arrays[a], joined)

FramesHold ==
  /\ \A f \in DOMAIN frames : /\ frames[f].entry \in DOMAIN entries
                              /\ frames[f].array \in DOMAIN arrays
                              /\ frames[f].at >= 1
  /\ \A f, g \in DOMAIN frames : frames[f].entry = frames[g].entry => f = g

HeardHolds ==
  /\ Board!IsInjective(heard)
  /\ \A h \in DOMAIN heard : heard[h][1] \in joined /\ heard[h][2] \in DOMAIN entries

LoopsHold ==
  \A f \in DOMAIN frames :
    /\ Unheard(frames[f], arrays[frames[f].array], Told(heard))
    /\ Owed(frames[f], arrays[frames[f].array], Told(heard), entries[frames[f].entry])

BoardInv == BoardTypes /\ ArraysHold /\ FramesHold /\ HeardHolds /\ LoopsHold

LEMMA TopOfFrames ==
  ASSUME BoardTypes, frames # <<>>
  PROVE  /\ Board!Top = frames[Len(frames)] /\ Len(frames) \in DOMAIN frames /\ Board!Top \in Frames
         /\ DOMAIN frames = 1..Len(frames) /\ Len(frames) \in Nat \ {0}
  BY DEF BoardTypes, Board!Top, Board!Last

LEMMA FrameCalling ==
  ASSUME NEW p \in Frames, NEW place \in Nat, NEW b \in BOOLEAN
  PROVE  [p EXCEPT !.at = place, !.calling = b] \in Frames
  BY DEF Frames

\* The innermost post: the loop one further, and the handler called or not.
LEMMA WalkedFrames ==
  ASSUME BoardTypes, frames # <<>>,
         \/ frames' = [frames EXCEPT ![Len(frames)].at = @ + 1, ![Len(frames)].calling = TRUE]
         \/ frames' = [frames EXCEPT ![Len(frames)].at = @ + 1]
  PROVE  /\ frames' \in Seq(Frames) /\ DOMAIN frames' = DOMAIN frames
         /\ frames'[Len(frames)].at = frames[Len(frames)].at + 1
         /\ \A f \in DOMAIN frames : f # Len(frames) => frames'[f].at = frames[f].at
         /\ \A f \in DOMAIN frames : /\ frames'[f].entry = frames[f].entry
                                     /\ frames'[f].array = frames[f].array
                                     /\ frames'[f].from = frames[f].from
                                     /\ frames'[f].disturbed = frames[f].disturbed
  <1>1. Len(frames) \in DOMAIN frames /\ frames \in Seq(Frames) BY TopOfFrames DEF BoardTypes
  <1>2. \A f \in DOMAIN frames : frames[f] \in Frames BY <1>1
  <1> DEFINE n == Len(frames)
             p == frames[n]
  <1>3. CASE frames' = [frames EXCEPT ![Len(frames)].at = @ + 1, ![Len(frames)].calling = TRUE]
    <2> DEFINE q == [p EXCEPT !.at = @ + 1, !.calling = TRUE]
    <2>1. frames' = [frames EXCEPT ![n] = q] BY <1>1, <1>3
    <2>2. p \in Frames BY <1>1, <1>2
    <2>3. q \in Frames
      <3>1. p.at + 1 \in Nat /\ TRUE \in BOOLEAN BY <2>2 DEF Frames
      <3> QED BY <2>2, <3>1, FrameCalling
    <2>4. q.at = p.at + 1 /\ q.entry = p.entry /\ q.array = p.array /\ q.from = p.from /\ q.disturbed = p.disturbed
      BY <2>2 DEF Frames
    <2> HIDE DEF q
    <2>5. frames' \in Seq(Frames) /\ DOMAIN frames' = DOMAIN frames BY <1>1, <2>1, <2>3
    <2>6. \A f \in DOMAIN frames : frames'[f] = IF f = n THEN q ELSE frames[f] BY <1>1, <2>1
    <2> QED BY <1>1, <2>4, <2>5, <2>6
  <1>4. CASE frames' = [frames EXCEPT ![Len(frames)].at = @ + 1]
    <2> DEFINE q == [p EXCEPT !.at = @ + 1]
    <2>1. frames' = [frames EXCEPT ![n] = q] BY <1>1, <1>4
    <2>2. p \in Frames BY <1>1, <1>2
    <2>3. q \in Frames BY SMTT(30), <2>2 DEF Frames
    <2>4. q.at = p.at + 1 /\ q.entry = p.entry /\ q.array = p.array /\ q.from = p.from /\ q.disturbed = p.disturbed
      BY <2>2 DEF Frames
    <2> HIDE DEF q
    <2>5. frames' \in Seq(Frames) /\ DOMAIN frames' = DOMAIN frames BY <1>1, <2>1, <2>3
    <2>6. \A f \in DOMAIN frames : frames'[f] = IF f = n THEN q ELSE frames[f] BY <1>1, <2>1
    <2> QED BY <1>1, <2>4, <2>5, <2>6
  <1> QED BY <1>3, <1>4

LEMMA ReturnedFrames ==
  ASSUME BoardTypes, frames # <<>>, frames' = [frames EXCEPT ![Len(frames)].calling = FALSE]
  PROVE  /\ frames' \in Seq(Frames) /\ DOMAIN frames' = DOMAIN frames
         /\ \A f \in DOMAIN frames : /\ frames'[f].entry = frames[f].entry
                                     /\ frames'[f].array = frames[f].array
                                     /\ frames'[f].at = frames[f].at
                                     /\ frames'[f].from = frames[f].from
                                     /\ frames'[f].disturbed = frames[f].disturbed
  <1>1. Len(frames) \in DOMAIN frames /\ frames \in Seq(Frames) BY TopOfFrames DEF BoardTypes
  <1>2. \A f \in DOMAIN frames : frames[f] \in Frames BY <1>1
  <1> DEFINE n == Len(frames)
             p == frames[n]
             q == [p EXCEPT !.calling = FALSE]
  <1>3. frames' = [frames EXCEPT ![n] = q] BY <1>1
  <1>4. p \in Frames BY <1>1, <1>2
  <1>5. q \in Frames BY <1>4 DEF Frames
  <1>6. q.at = p.at /\ q.entry = p.entry /\ q.array = p.array /\ q.from = p.from /\ q.disturbed = p.disturbed
    BY <1>4 DEF Frames
  <1> HIDE DEF q
  <1>7. frames' \in Seq(Frames) /\ DOMAIN frames' = DOMAIN frames BY ONLY <1>1, <1>3, <1>5
  <1>8. \A f \in DOMAIN frames : frames'[f] = IF f = n THEN q ELSE frames[f] BY <1>1, <1>3
  <1> QED BY <1>1, <1>6, <1>7, <1>8

LEMMA DisturbedFrames ==
  ASSUME BoardTypes, NEW array,
         frames' = [f \in DOMAIN frames |->
                      IF frames[f].array = array THEN [frames[f] EXCEPT !.disturbed = TRUE] ELSE frames[f]]
  PROVE  /\ frames' \in Seq(Frames) /\ DOMAIN frames' = DOMAIN frames
         /\ \A f \in DOMAIN frames : frames'[f].disturbed = (frames[f].array = array \/ frames[f].disturbed)
         /\ \A f \in DOMAIN frames : /\ frames'[f].entry = frames[f].entry
                                     /\ frames'[f].array = frames[f].array
                                     /\ frames'[f].at = frames[f].at
                                     /\ frames'[f].from = frames[f].from
  <1>1. frames \in Seq(Frames) /\ \A f \in DOMAIN frames : frames[f] \in Frames BY DEF BoardTypes
  <1>2. \A f \in DOMAIN frames : frames'[f] \in Frames BY <1>1 DEF Frames
  <1>3. frames' \in Seq(Frames) /\ DOMAIN frames' = DOMAIN frames BY <1>1, <1>2
  <1> QED BY <1>1, <1>2, <1>3 DEF Frames

\* A post that has called nobody yet.
Begun(entry, array, from) ==
  [entry |-> entry, array |-> array, at |-> 1, calling |-> FALSE, from |-> from, disturbed |-> FALSE]

LEMMA PostedFrames ==
  ASSUME BoardTypes, NEW entry \in Nat, NEW array \in Nat, NEW from \in SUBSET Subscribers,
         frames' = Append(frames, Begun(entry, array, from))
  PROVE  /\ frames' \in Seq(Frames) /\ DOMAIN frames' = 1..Len(frames)+1
         /\ DOMAIN frames = 1..Len(frames) /\ Len(frames) \in Nat
         /\ \A f \in DOMAIN frames : frames'[f] = frames[f]
         /\ frames'[Len(frames)+1].entry = entry /\ frames'[Len(frames)+1].array = array
         /\ frames'[Len(frames)+1].at = 1 /\ frames'[Len(frames)+1].from = from
  <1> DEFINE new == Begun(entry, array, from)
  <1>1. new \in Frames /\ new.entry = entry /\ new.array = array /\ new.at = 1 /\ new.from = from
    BY DEF Frames, Begun
  <1>2. frames' = Append(frames, new) OBVIOUS
  <1> HIDE DEF new
  <1> QED BY <1>1, <1>2 DEF BoardTypes

LEMMA EndedFrames ==
  ASSUME BoardTypes, frames # <<>>, frames' = Board!Front(frames)
  PROVE  /\ frames' \in Seq(Frames) /\ DOMAIN frames' \subseteq DOMAIN frames
         /\ \A f \in DOMAIN frames' : frames'[f] = frames[f]
  <1>1. frames \in Seq(Frames) /\ Len(frames) \in Nat \ {0} /\ DOMAIN frames = 1..Len(frames) BY TopOfFrames DEF BoardTypes
  <1>2. frames' = SubSeq(frames, 1, Len(frames) - 1) BY DEF Board!Front
  <1>3. frames' \in Seq(Frames) /\ Len(frames') = Len(frames) - 1 BY <1>1, <1>2
  <1>4. \A f \in 1..Len(frames)-1 : frames'[f] = frames[f] BY <1>1, <1>2
  <1> QED BY <1>1, <1>3, <1>4


LEMMA BoardInvStep == BoardInv /\ [Next]_vars => BoardInv'
  <1> SUFFICES ASSUME BoardInv, Board!BoardNext \/ UNCHANGED Board!boardVars
               PROVE  BoardInv'
    BY BoardStep
  <1>a. BoardTypes /\ ArraysHold /\ FramesHold /\ HeardHolds /\ LoopsHold BY DEF BoardInv
  <1>b. /\ Len(arrays) \in DOMAIN arrays /\ DOMAIN arrays = 1..Len(arrays) /\ Len(arrays) \in Nat \ {0}
        /\ \A a \in DOMAIN arrays : arrays[a] \in Seq(Subscribers)
    BY <1>a DEF BoardTypes
  <1>c. \A f \in DOMAIN frames :
          /\ frames[f] \in Frames /\ frames[f].array \in DOMAIN arrays /\ frames[f].at \in Nat /\ frames[f].at >= 1
          /\ frames[f].entry \in DOMAIN entries /\ frames[f].from \in SUBSET Subscribers
          /\ arrays[frames[f].array] \in Seq(Subscribers)
    <2> TAKE f \in DOMAIN frames
    <2>1. frames[f] \in Frames BY <1>a DEF BoardTypes
    <2>2. frames[f].at \in Nat /\ frames[f].from \in SUBSET Subscribers BY <2>1 DEF Frames
    <2>3. frames[f].array \in DOMAIN arrays /\ frames[f].at >= 1 /\ frames[f].entry \in DOMAIN entries
      BY <1>a DEF FramesHold
    <2> QED BY <1>b, <2>1, <2>2, <2>3
  <1>1. ASSUME NEW draft \in Drafts, Board!Post(draft) PROVE BoardInv'
    <2> DEFINE n == Len(entries) + 1
               from == Board!ToSet(arrays[Len(arrays)])
    <2>1. /\ entries' = Append(entries, draft) /\ UNCHANGED <<arrays, joined, heard>>
          /\ entries \in Seq(Drafts)
      BY <1>1, <1>a DEF Board!Post, BoardTypes
    <2>2. /\ entries' \in Seq(Drafts) /\ Len(entries') = n /\ DOMAIN entries' = 1..n /\ DOMAIN entries = 1..n-1
          /\ n \in Nat /\ n \notin DOMAIN entries
          /\ \A e \in DOMAIN entries : entries'[e] = entries[e]
      BY <2>1
    <2>3. frames' = Append(frames, Begun(n, Len(arrays), from))
      BY <1>1, <2>2 DEF Board!Post, Board!Present, Begun
    <2>4. from \in SUBSET Subscribers BY <1>b DEF Board!ToSet
    <2> HIDE DEF from
    <2>5. /\ frames' \in Seq(Frames) /\ DOMAIN frames' = 1..Len(frames)+1
          /\ DOMAIN frames = 1..Len(frames) /\ Len(frames) \in Nat
          /\ \A f \in DOMAIN frames : frames'[f] = frames[f]
          /\ frames'[Len(frames)+1].entry = n /\ frames'[Len(frames)+1].array = Len(arrays)
          /\ frames'[Len(frames)+1].at = 1 /\ frames'[Len(frames)+1].from = from
      <3>1. n \in Nat /\ Len(arrays) \in Nat BY <1>b, <2>2
      <3> HIDE DEF n
      <3> QED BY <1>a, <2>3, <2>4, <3>1, PostedFrames
    <2> HIDE DEF n
    <2>6. \A f \in DOMAIN frames' : f \in DOMAIN frames \/ f = Len(frames) + 1 BY <2>5
    <2>7. BoardTypes' BY <1>a, <2>1, <2>2, <2>5 DEF BoardTypes
    <2>8. ArraysHold' BY <1>a, <2>1 DEF ArraysHold
    <2>9. FramesHold'
      <3>1. \A f \in DOMAIN frames' : /\ frames'[f].entry \in DOMAIN entries'
                                      /\ frames'[f].array \in DOMAIN arrays'
                                      /\ frames'[f].at >= 1
        BY SMTT(30), <1>b, <1>c, <2>1, <2>2, <2>5, <2>6
      <3>2. \A f, g \in DOMAIN frames' : frames'[f].entry = frames'[g].entry => f = g
        BY <1>a, <1>c, <2>2, <2>5, <2>6 DEF FramesHold
      <3> QED BY <3>1, <3>2 DEF FramesHold
    <2>10. HeardHolds' BY <1>a, <2>1, <2>2 DEF HeardHolds
    <2>11. LoopsHold'
      <3>1. ASSUME NEW f \in DOMAIN frames
            PROVE  /\ Unheard(frames'[f], arrays'[frames'[f].array], Told(heard'))
                   /\ Owed(frames'[f], arrays'[frames'[f].array], Told(heard'), entries'[frames'[f].entry])
        BY <1>a, <1>c, <2>1, <2>2, <2>5 DEF LoopsHold
      <3> DEFINE f == Len(frames) + 1
      <3>2. Pending(arrays[Len(arrays)], 1) = from BY <1>b, PendingAtStart DEF from
      <3>3. \A s : <<s, n>> \notin Told(heard) BY <1>a, <2>2 DEF HeardHolds, Told
      <3>4. Unheard(frames'[f], arrays'[frames'[f].array], Told(heard')) BY <2>1, <2>5, <3>3 DEF Unheard
      <3>5. Owed(frames'[f], arrays'[frames'[f].array], Told(heard'), entries'[frames'[f].entry])
        BY <2>1, <2>5, <3>2 DEF Owed
      <3> QED BY <2>6, <3>1, <3>4, <3>5 DEF LoopsHold
    <2> QED BY <2>7, <2>8, <2>9, <2>10, <2>11 DEF BoardInv
  <1>2. ASSUME NEW s \in Subscribers, Board!Subscribe(s) PROVE BoardInv'
    <2> DEFINE here == Len(arrays)
               more == Board!Pushed(arrays[here], s)
    <2>1. /\ s \notin joined /\ joined' = joined \cup {s} /\ UNCHANGED <<entries, frames, heard>>
          /\ arrays' = [arrays EXCEPT ![here] = more]
      BY <1>2 DEF Board!Subscribe, Board!Present
    <2>2. more \in Seq(Subscribers) /\ Distinct(more, joined')
      BY <1>a, <1>b, <2>1, PushedDistinct DEF ArraysHold
    <2>3. \A place \in Nat : /\ Pending(arrays[here], place) \subseteq Pending(more, place)
                             /\ Pending(more, place) \subseteq Pending(arrays[here], place) \cup {s}
      BY <1>b, PendingOneMore
    <2> HIDE DEF more
    <2>4. /\ arrays' \in Seq(Seq(Subscribers)) /\ arrays' # <<>> /\ DOMAIN arrays' = DOMAIN arrays
          /\ \A a \in DOMAIN arrays : arrays'[a] = IF a = here THEN more ELSE arrays[a]
      BY <1>a, <1>b, <2>1, <2>2 DEF BoardTypes
    <2>5. BoardTypes' BY <1>a, <2>1, <2>4 DEF BoardTypes
    <2>6. ArraysHold' BY <1>a, <2>1, <2>2, <2>4 DEF ArraysHold, Distinct
    <2>7. FramesHold' BY <1>a, <2>1, <2>4 DEF FramesHold
    <2>8. HeardHolds' BY <1>a, <2>1 DEF HeardHolds
    <2>9. ASSUME NEW f \in DOMAIN frames
          PROVE  /\ Unheard(frames[f], arrays'[frames[f].array], Told(heard))
                 /\ Owed(frames[f], arrays'[frames[f].array], Told(heard), entries[frames[f].entry])
      <3>1. /\ Unheard(frames[f], arrays[frames[f].array], Told(heard))
            /\ Owed(frames[f], arrays[frames[f].array], Told(heard), entries[frames[f].entry])
        BY <1>a DEF LoopsHold
      <3>2. \A e : <<s, e>> \notin Told(heard) BY <1>a, <2>1 DEF HeardHolds, Told
      <3>3. /\ Pending(arrays[frames[f].array], frames[f].at) \subseteq Pending(arrays'[frames[f].array], frames[f].at)
            /\ Pending(arrays'[frames[f].array], frames[f].at)
                 \subseteq Pending(arrays[frames[f].array], frames[f].at) \cup {s}
        BY <1>c, <2>3, <2>4
      <3> QED BY <3>1, <3>2, <3>3 DEF Unheard, Owed
    <2>10. LoopsHold' BY <2>1, <2>9 DEF LoopsHold
    <2> QED BY <2>5, <2>6, <2>7, <2>8, <2>10 DEF BoardInv
  <1>3. ASSUME NEW s \in Subscribers, Board!Unsubscribe(s) PROVE BoardInv'
    <2> DEFINE here == Len(arrays)
               rest == Board!RemoveFirst(arrays[here], s)
    <2>1. /\ UNCHANGED <<entries, joined, heard>>
          /\ arrays' = [arrays EXCEPT ![here] = rest] /\ s \in Board!ToSet(arrays[here])
          /\ frames' = [f \in DOMAIN frames |->
                          IF frames[f].array = here THEN [frames[f] EXCEPT !.disturbed = TRUE] ELSE frames[f]]
      BY <1>3 DEF Board!Unsubscribe, Board!Present
    <2>2. /\ rest \in Seq(Subscribers) /\ Distinct(rest, joined)
          /\ \A place \in Nat : Pending(rest, place) \subseteq Pending(arrays[here], place)
      BY <1>a, <1>b, <2>1, PendingRemoved DEF ArraysHold
    <2> HIDE DEF rest
    <2>3. /\ arrays' \in Seq(Seq(Subscribers)) /\ arrays' # <<>> /\ DOMAIN arrays' = DOMAIN arrays
          /\ \A a \in DOMAIN arrays : arrays'[a] = IF a = here THEN rest ELSE arrays[a]
      BY <1>a, <1>b, <2>1, <2>2 DEF BoardTypes
    <2>4. /\ frames' \in Seq(Frames) /\ DOMAIN frames' = DOMAIN frames
          /\ \A f \in DOMAIN frames : frames'[f].disturbed = (frames[f].array = here \/ frames[f].disturbed)
          /\ \A f \in DOMAIN frames : /\ frames'[f].entry = frames[f].entry
                                      /\ frames'[f].array = frames[f].array
                                      /\ frames'[f].at = frames[f].at
                                      /\ frames'[f].from = frames[f].from
      BY <1>a, <2>1, DisturbedFrames
    <2>5. BoardTypes' BY <1>a, <2>1, <2>3, <2>4 DEF BoardTypes
    <2>6. ArraysHold' BY <1>a, <2>1, <2>2, <2>3 DEF ArraysHold
    <2>7. FramesHold' BY <1>a, <2>1, <2>3, <2>4 DEF FramesHold
    <2>8. HeardHolds' BY <1>a, <2>1 DEF HeardHolds
    <2>9. ASSUME NEW f \in DOMAIN frames
          PROVE  /\ Unheard(frames'[f], arrays'[frames[f].array], Told(heard))
                 /\ Owed(frames'[f], arrays'[frames[f].array], Told(heard), entries[frames[f].entry])
      <3>1. /\ Unheard(frames[f], arrays[frames[f].array], Told(heard))
            /\ Owed(frames[f], arrays[frames[f].array], Told(heard), entries[frames[f].entry])
        BY <1>a DEF LoopsHold
      <3>2. Pending(arrays'[frames[f].array], frames[f].at) \subseteq Pending(arrays[frames[f].array], frames[f].at)
        BY <1>c, <2>2, <2>3
      <3>3. CASE frames[f].array = here BY <2>4, <3>1, <3>2, <3>3 DEF Unheard, Owed
      <3>4. CASE frames[f].array # here
        <4>1. arrays'[frames[f].array] = arrays[frames[f].array] BY <1>c, <2>3, <3>4
        <4>2. ~frames'[f].disturbed => ~frames[f].disturbed BY <2>4
        <4> QED BY <2>4, <3>1, <4>1, <4>2 DEF Unheard, Owed
      <3> QED BY <3>3, <3>4
    <2>10. LoopsHold' BY <2>1, <2>4, <2>9 DEF LoopsHold
    <2> QED BY <2>5, <2>6, <2>7, <2>8, <2>10 DEF BoardInv
  <1>4. CASE Board!Clear
    <2>1. arrays' = Append(arrays, <<>>) /\ UNCHANGED <<entries, joined, frames, heard>> BY <1>4 DEF Board!Clear
    <2>2. /\ arrays' \in Seq(Seq(Subscribers)) /\ arrays' # <<>> /\ DOMAIN arrays' = 1..Len(arrays)+1
          /\ arrays'[Len(arrays)+1] = <<>>
          /\ \A a \in DOMAIN arrays : arrays'[a] = arrays[a]
      BY SMTT(30), <1>a, <1>b, <2>1 DEF BoardTypes
    <2>3. BoardTypes' BY <1>a, <2>1, <2>2 DEF BoardTypes
    <2>4. ArraysHold'
      <3>1. Distinct(<<>>, joined) BY DEF Distinct
      <3>2. \A a \in DOMAIN arrays' : a \in DOMAIN arrays \/ a = Len(arrays)+1 BY <1>b, <2>2
      <3> QED BY <1>a, <2>1, <2>2, <3>1, <3>2 DEF ArraysHold
    <2>5. FramesHold' BY <1>a, <1>b, <2>1, <2>2 DEF FramesHold
    <2>6. HeardHolds' BY <1>a, <2>1 DEF HeardHolds
    <2>7. LoopsHold' BY <1>a, <1>c, <2>1, <2>2 DEF LoopsHold
    <2> QED BY <2>3, <2>4, <2>5, <2>6, <2>7 DEF BoardInv
  <1>5. CASE Board!Notify
    <2> DEFINE top == Len(frames)
               p == frames[top]
               array == arrays[p.array]
               s == array[p.at]
    <2>1. /\ frames # <<>> /\ top \in DOMAIN frames /\ Board!Top = p /\ p.at \in 1..Len(array)
          /\ UNCHANGED <<entries, arrays, joined>>
      BY SMTT(30), <1>5, <1>a, <1>c, TopOfFrames DEF Board!Notify, Board!Audience
    <2>2. \/ /\ Fits(entries[p.entry], s)
             /\ heard' = Append(heard, <<s, p.entry>>)
             /\ frames' = [frames EXCEPT ![Len(frames)].at = @ + 1, ![Len(frames)].calling = TRUE]
          \/ /\ ~Fits(entries[p.entry], s)
             /\ heard' = heard
             /\ frames' = [frames EXCEPT ![Len(frames)].at = @ + 1]
      BY <1>5, <2>1 DEF Board!Notify, Board!Audience, Board!MatchesFilter, Fits
    <2>3. /\ frames' \in Seq(Frames) /\ DOMAIN frames' = DOMAIN frames
          /\ frames'[top].at = p.at + 1
          /\ \A f \in DOMAIN frames : f # top => frames'[f].at = frames[f].at
          /\ \A f \in DOMAIN frames : /\ frames'[f].entry = frames[f].entry
                                      /\ frames'[f].array = frames[f].array
                                      /\ frames'[f].from = frames[f].from
                                      /\ frames'[f].disturbed = frames[f].disturbed
      BY <1>a, <2>1, <2>2, WalkedFrames
    <2>4. /\ array \in Seq(Subscribers) /\ Distinct(array, joined) /\ p.at \in Nat /\ p.entry \in DOMAIN entries
          /\ s \in Subscribers /\ s \in joined
      BY <1>a, <1>c, <2>1 DEF ArraysHold, Distinct
    <2>5. /\ s \in Pending(array, p.at) /\ s \notin Pending(array, p.at + 1)
          /\ \A q : q \in Pending(array, p.at) <=> q = s \/ q \in Pending(array, p.at + 1)
      <3>1. p.at \in 1..Len(array) /\ array \in Seq(Subscribers) /\ Distinct(array, joined) BY <2>1, <2>4
      <3> HIDE DEF p, array
      <3>2. array \in Seq(joined) BY <3>1 DEF Distinct
      <3> QED BY <3>1, <3>2, PendingOneLess
    <2>6. \A f \in DOMAIN frames : f # top => frames[f].entry # p.entry BY <1>a, <2>1 DEF FramesHold
    <2>7. <<s, p.entry>> \notin Told(heard) BY <1>a, <2>1, <2>5 DEF LoopsHold, Unheard
    <2>8. p.entry \in Nat BY <1>c, <2>1 DEF Frames
    <2> HIDE DEF p, s, array, top
    <2>9. ArraysHold' BY <1>a, <2>1 DEF ArraysHold
    <2>10. FramesHold'
      <3>1. \A f \in DOMAIN frames : frames'[f].at >= 1 BY <1>c, <2>1, <2>3 DEF p
      <3> QED BY <1>a, <2>1, <2>3, <3>1 DEF FramesHold
    <2>11. CASE Fits(entries[p.entry], s) /\ heard' = Append(heard, <<s, p.entry>>)
      <3>1. /\ heard \in Seq(Subscribers \X Nat) /\ Len(heard) \in Nat /\ DOMAIN heard = 1..Len(heard)
            /\ heard' \in Seq(Subscribers \X Nat) /\ DOMAIN heard' = 1..Len(heard)+1
            /\ heard'[Len(heard)+1] = <<s, p.entry>>
            /\ \A h \in DOMAIN heard : heard'[h] = heard[h]
        BY <1>a, <2>4, <2>8, <2>11 DEF BoardTypes
      <3>2. \A h \in DOMAIN heard' : h \in DOMAIN heard \/ h = Len(heard)+1 BY <3>1
      <3>3. Told(heard') = Told(heard) \cup {<<s, p.entry>>}
        <4> DEFINE told == <<s, p.entry>>
        <4>1. heard'[Len(heard)+1] = told BY <3>1
        <4> HIDE DEF told
        <4>2. Told(heard') \subseteq Told(heard) \cup {told} BY <3>1, <3>2, <4>1 DEF Told
        <4>3. Told(heard) \cup {told} \subseteq Told(heard') BY <3>1, <4>1 DEF Told
        <4> QED BY <4>2, <4>3 DEF told
      <3>4. \A h \in DOMAIN heard : heard[h] # <<s, p.entry>> BY <2>7 DEF Told
      <3>5. BoardTypes' BY <1>a, <2>1, <2>3, <3>1 DEF BoardTypes
      <3>6. HeardHolds'
        <4>1. Board!IsInjective(heard)' BY <1>a, <3>1, <3>2, <3>4 DEF HeardHolds, Board!IsInjective
        <4>2. \A h \in DOMAIN heard' : heard'[h][1] \in joined' /\ heard'[h][2] \in DOMAIN entries'
          <5>1. ASSUME NEW h \in DOMAIN heard PROVE heard'[h][1] \in joined' /\ heard'[h][2] \in DOMAIN entries'
            BY <1>a, <2>1, <3>1 DEF HeardHolds
          <5>2. heard'[Len(heard)+1][1] = s /\ heard'[Len(heard)+1][2] = p.entry BY <3>1
          <5> QED BY <2>1, <2>4, <3>2, <5>1, <5>2
        <4> QED BY <4>1, <4>2 DEF HeardHolds
      <3>7. ASSUME NEW f \in DOMAIN frames, f # top
            PROVE  /\ Unheard(frames'[f], arrays[frames[f].array], Told(heard'))
                   /\ Owed(frames'[f], arrays[frames[f].array], Told(heard'), entries[frames[f].entry])
        <4>1. /\ Unheard(frames[f], arrays[frames[f].array], Told(heard))
              /\ Owed(frames[f], arrays[frames[f].array], Told(heard), entries[frames[f].entry])
          BY <1>a DEF LoopsHold
        <4> QED BY <2>3, <2>6, <3>3, <3>7, <4>1 DEF Unheard, Owed
      <3>8. /\ Unheard(frames'[top], array, Told(heard'))
            /\ Owed(frames'[top], array, Told(heard'), entries[p.entry])
        <4>1. Unheard(p, array, Told(heard)) /\ Owed(p, array, Told(heard), entries[p.entry])
          BY <1>a, <2>1 DEF LoopsHold, p, array, top
        <4>2. /\ frames'[top].at = p.at + 1 /\ frames'[top].entry = p.entry
              /\ frames'[top].from = p.from /\ frames'[top].disturbed = p.disturbed
          BY <2>1, <2>3 DEF p
        <4> QED BY <2>5, <3>3, <4>1, <4>2 DEF Unheard, Owed
      <3>9. LoopsHold' BY <2>1, <2>3, <3>7, <3>8 DEF LoopsHold, p, array
      <3> QED BY <2>9, <2>10, <3>5, <3>6, <3>9 DEF BoardInv
    <2>12. CASE ~Fits(entries[p.entry], s) /\ heard' = heard
      <3>1. BoardTypes' BY <1>a, <2>1, <2>3, <2>12 DEF BoardTypes
      <3>2. HeardHolds' BY <1>a, <2>1, <2>12 DEF HeardHolds
      <3>3. ASSUME NEW f \in DOMAIN frames, f # top
            PROVE  /\ Unheard(frames'[f], arrays[frames[f].array], Told(heard))
                   /\ Owed(frames'[f], arrays[frames[f].array], Told(heard), entries[frames[f].entry])
        <4>1. /\ Unheard(frames[f], arrays[frames[f].array], Told(heard))
              /\ Owed(frames[f], arrays[frames[f].array], Told(heard), entries[frames[f].entry])
          BY <1>a DEF LoopsHold
        <4> QED BY <2>3, <3>3, <4>1 DEF Unheard, Owed
      <3>4. /\ Unheard(frames'[top], array, Told(heard))
            /\ Owed(frames'[top], array, Told(heard), entries[p.entry])
        <4>1. Unheard(p, array, Told(heard)) /\ Owed(p, array, Told(heard), entries[p.entry])
          BY <1>a, <2>1 DEF LoopsHold, p, array, top
        <4>2. /\ frames'[top].at = p.at + 1 /\ frames'[top].entry = p.entry
              /\ frames'[top].from = p.from /\ frames'[top].disturbed = p.disturbed
          BY <2>1, <2>3 DEF p
        <4> QED BY <2>5, <2>12, <4>1, <4>2 DEF Unheard, Owed
      <3>5. LoopsHold' BY <2>1, <2>3, <2>12, <3>3, <3>4 DEF LoopsHold, p, array
      <3> QED BY <2>9, <2>10, <3>1, <3>2, <3>5 DEF BoardInv
    <2> QED BY <2>2, <2>11, <2>12
  <1>6. CASE Board!HandlerReturns
    <2>1. /\ frames # <<>> /\ frames' = [frames EXCEPT ![Len(frames)].calling = FALSE]
          /\ UNCHANGED <<entries, arrays, joined, heard>>
      BY <1>6 DEF Board!HandlerReturns
    <2>2. /\ frames' \in Seq(Frames) /\ DOMAIN frames' = DOMAIN frames
          /\ \A f \in DOMAIN frames : /\ frames'[f].entry = frames[f].entry
                                      /\ frames'[f].array = frames[f].array
                                      /\ frames'[f].at = frames[f].at
                                      /\ frames'[f].from = frames[f].from
                                      /\ frames'[f].disturbed = frames[f].disturbed
      BY <1>a, <2>1, ReturnedFrames
    <2>3. BoardTypes' BY <1>a, <2>1, <2>2 DEF BoardTypes
    <2>4. ArraysHold' /\ HeardHolds' BY <1>a, <2>1 DEF ArraysHold, HeardHolds
    <2>5. FramesHold' BY <1>a, <2>1, <2>2 DEF FramesHold
    <2>6. LoopsHold' BY <1>a, <2>1, <2>2 DEF LoopsHold, Unheard, Owed
    <2> QED BY <2>3, <2>4, <2>5, <2>6 DEF BoardInv
  <1>7. CASE Board!Publish
    <2>1. frames # <<>> /\ frames' = Board!Front(frames) /\ UNCHANGED <<entries, arrays, joined, heard>>
      BY <1>7 DEF Board!Publish
    <2>2. /\ frames' \in Seq(Frames) /\ DOMAIN frames' \subseteq DOMAIN frames
          /\ \A f \in DOMAIN frames' : frames'[f] = frames[f]
      BY <1>a, <2>1, EndedFrames
    <2>3. BoardTypes' BY <1>a, <2>1, <2>2 DEF BoardTypes
    <2>4. ArraysHold' /\ HeardHolds' BY <1>a, <2>1 DEF ArraysHold, HeardHolds
    <2>5. FramesHold' BY <1>a, <2>1, <2>2 DEF FramesHold
    <2>6. LoopsHold' BY <1>a, <2>1, <2>2 DEF LoopsHold
    <2> QED BY <2>3, <2>4, <2>5, <2>6 DEF BoardInv
  <1>8. CASE UNCHANGED Board!boardVars
    BY <1>a, <1>8 DEF Board!boardVars, BoardInv, BoardTypes, ArraysHold, FramesHold, HeardHolds, LoopsHold
  <1> QED BY <1>1, <1>2, <1>3, <1>4, <1>5, <1>6, <1>7, <1>8 DEF Board!BoardNext

(* Whatever posts, subscriptions and clears the handlers make inside the     *)
(* loops, nobody hears an entry twice, and an undisturbed post has told      *)
(* everybody who was there and asked: for every set of subscriptions, every  *)
(* filter and any number of entries.                                        *)
THEOREM EveryoneHears == Spec => []EveryoneHearsOnce
  <1>1. Init => BoardInv
    <2> SUFFICES ASSUME Board!Init PROVE BoardInv
      BY DEF Init
    <2>1. BoardTypes BY DEF Board!Init, BoardTypes
    <2>2. ArraysHold
      <3>1. DOMAIN arrays = {1} /\ arrays[1] = <<>> BY DEF Board!Init
      <3> QED BY <3>1 DEF ArraysHold, Distinct
    <2>3. FramesHold /\ HeardHolds /\ LoopsHold
      BY DEF Board!Init, FramesHold, HeardHolds, LoopsHold, Board!IsInjective
    <2> QED BY <2>1, <2>2, <2>3 DEF BoardInv
  <1>2. BoardInv => EveryoneHearsOnce
    <2> SUFFICES ASSUME BoardInv PROVE EveryoneHearsOnce
      OBVIOUS
    <2>1. Board!IsInjective(heard) BY DEF BoardInv, HeardHolds
    <2>2. ASSUME frames # <<>>, Board!Top.at > Len(Board!Audience), ~Board!Top.disturbed,
                 NEW s \in Board!Top.from, Board!MatchesFilter(Board!Top.entry, s)
          PROVE  <<s, Board!Top.entry>> \in Board!ToSet(heard)
      <3> DEFINE p == frames[Len(frames)]
      <3>1. Board!Top = p /\ Len(frames) \in DOMAIN frames /\ p \in Frames BY <2>2, TopOfFrames DEF BoardInv
      <3>2. arrays[p.array] \in Seq(Subscribers) /\ p.at \in Nat
        BY <3>1 DEF BoardInv, BoardTypes, FramesHold, Frames
      <3>3. Owed(p, arrays[p.array], Told(heard), entries[p.entry]) BY <3>1 DEF BoardInv, LoopsHold
      <3>4. Pending(arrays[p.array], p.at) = {} BY <2>2, <3>1, <3>2, PendingAtEnd DEF Board!Audience
      <3>5. Fits(entries[p.entry], s) BY <2>2, <3>1 DEF Board!MatchesFilter, Fits
      <3>6. <<s, p.entry>> \in Told(heard) BY <2>2, <3>1, <3>3, <3>4, <3>5 DEF Owed
      <3>7. Told(heard) = Board!ToSet(heard) BY DEF Told, Board!ToSet, BoardInv, BoardTypes
      <3> QED BY <3>1, <3>6, <3>7
    <2> QED BY <2>1, <2>2 DEF EveryoneHearsOnce, Board!EveryoneHearsOnce
  <1> QED BY <1>1, <1>2, BoardInvStep, PTL DEF Spec

-----------------------------------------------------------------------------
(* The summarized history of the memory.                                    *)

LEMMA MemoryStep == [Next]_vars => [Memory!MemoryNext]_(Memory!memoryVars)
  BY DEF Next, Others, vars, memory, Memory!memoryVars

\* A row of the table.
MemoryRow == [id : (Instances \X Nat) \cup {Memory!SummaryMarker}, covers : SUBSET Nat]

\* Where an instance is in the management of its context.
ManagingPlace == {"idle", "summarizing", "writing", "restoring"}

\* What the code keeps of an instance at any time: its rows, the rows it has
\* still to write, the history its management began with, and where that is.
Kept(here, ahead, began, place) ==
  /\ here \in Seq(MemoryRow) /\ ahead \in Seq(MemoryRow) /\ began \in Seq(MemoryRow)
  /\ place \in ManagingPlace
  /\ place \in {"idle", "summarizing"} => ahead = <<>>
  /\ place = "summarizing" => Len(began) > RecentTurns

\* The rows written and those to write tell the n turns, and so does the
\* history that is restored if they cannot be written.
Whole(here, ahead, began, place, n) ==
  /\ Memory!Tells(here \o ahead, n)
  /\ place # "idle" => Memory!Tells(began, n)

MemoryInv ==
  /\ historyRows \in [Instances -> Seq(MemoryRow)] /\ toWrite \in [Instances -> Seq(MemoryRow)]
  /\ original \in [Instances -> Seq(MemoryRow)] /\ managing \in [Instances -> ManagingPlace]
  /\ said \in [Instances -> Nat]
  /\ \A i \in Instances : Kept(historyRows[i], toWrite[i], original[i], managing[i])
  /\ \A i \in Instances \ lost : Whole(historyRows[i], toWrite[i], original[i], managing[i], said[i])

\* The turns that some row covers are the first n.
LEMMA TellsPoints ==
  ASSUME NEW rowsTold, NEW n
  PROVE  Memory!Tells(rowsTold, n) <=>
           /\ \A x : x \in 1..n <=> \E k \in DOMAIN rowsTold : x \in rowsTold[k].covers
           /\ \A k, l \in DOMAIN rowsTold :
                k < l => \A x \in rowsTold[k].covers, y \in rowsTold[l].covers : x < y
  <1> DEFINE told == UNION {rowsTold[k].covers : k \in DOMAIN rowsTold}
  <1>1. \A x : x \in told <=> \E k \in DOMAIN rowsTold : x \in rowsTold[k].covers
    OBVIOUS
  <1>2. told = 1..n <=> \A x : x \in 1..n <=> x \in told
    OBVIOUS
  <1> QED BY <1>1, <1>2 DEF Memory!Tells

\* A new turn is told after all the others.
LEMMA TurnTold ==
  ASSUME NEW before \in Seq(MemoryRow), NEW n \in Nat, Memory!Tells(before, n),
         NEW row \in MemoryRow, row.covers = {n + 1}
  PROVE  Memory!Tells(Append(before, row), n + 1)
  <1> DEFINE after == Append(before, row)
  <1>1. /\ DOMAIN before = 1..Len(before) /\ Len(before) \in Nat /\ DOMAIN after = 1..(Len(before) + 1)
        /\ after[Len(before) + 1] = row /\ \A k \in 1..Len(before) : after[k] = before[k]
    OBVIOUS
  <1> HIDE DEF after
  <1>2. \A x : x \in 1..n <=> \E k \in DOMAIN before : x \in before[k].covers
    BY TellsPoints
  <1>3. \A k, l \in DOMAIN before : k < l => \A x \in before[k].covers, y \in before[l].covers : x < y
    BY TellsPoints
  <1>4. ASSUME NEW x PROVE x \in 1..(n + 1) <=> \E k \in DOMAIN after : x \in after[k].covers
    <2>1. x \in 1..(n + 1) <=> x \in 1..n \/ x = n + 1
      OBVIOUS
    <2>2. (\E k \in DOMAIN after : x \in after[k].covers)
            <=> (\E k \in DOMAIN before : x \in before[k].covers) \/ x \in row.covers
      BY <1>1
    <2> QED BY <1>2, <2>1, <2>2
  <1>5. ASSUME NEW k \in DOMAIN after, NEW l \in DOMAIN after, k < l,
               NEW x \in after[k].covers, NEW y \in after[l].covers
        PROVE  x < y
    <2>1. k \in DOMAIN before /\ x \in before[k].covers
      BY <1>1, <1>5
    <2>2. CASE l \in DOMAIN before
      <3>1. after[l] = before[l]
        BY <1>1, <2>2
      <3> QED BY <1>3, <1>5, <2>1, <2>2, <3>1
    <2>3. CASE l \notin DOMAIN before
      <3>1. after[l] = row
        BY <1>1, <2>3
      <3>2. y = n + 1 /\ x \in 1..n
        BY <1>2, <2>1, <3>1
      <3> QED BY <3>2
    <2> QED BY <2>2, <2>3
  <1>6. \A k, l \in DOMAIN after : k < l => \A x \in after[k].covers, y \in after[l].covers : x < y
    BY <1>5
  <1>7. Memory!Tells(after, n + 1)
    BY <1>4, <1>6, TellsPoints
  <1> QED BY <1>7 DEF after

\* A summary of the first turns tells what they told.
LEMMA SummaryTold ==
  ASSUME NEW before \in Seq(MemoryRow), NEW n \in Nat, Memory!Tells(before, n),
         NEW split \in 1..Len(before),
         NEW row \in MemoryRow, row.covers = Memory!SummarizeHistory(SubSeq(before, 1, split))
  PROVE  Memory!Tells(<<row>> \o SubSeq(before, split + 1, Len(before)), n)
  <1> DEFINE first == SubSeq(before, 1, split)
             last  == SubSeq(before, split + 1, Len(before))
             after == <<row>> \o last
             m     == Len(before) - split
  <1>1. /\ DOMAIN before = 1..Len(before) /\ Len(before) \in Nat /\ split \in Nat /\ m \in Nat
        /\ 1 <= split /\ split <= Len(before)
    OBVIOUS
  <1>2. DOMAIN first = 1..split /\ \A k \in 1..split : first[k] = before[k]
    BY <1>1
  <1>3. last \in Seq(MemoryRow) /\ Len(last) = m /\ \A k \in 1..m : last[k] = before[split + k]
    BY <1>1, SubSeqProperties
  <1>4. DOMAIN after = 1..(m + 1) /\ after[1] = row /\ \A k \in 2..(m + 1) : after[k] = before[split + k - 1]
    <2> HIDE DEF last, m
    <2>1. <<row>> \in Seq(MemoryRow) /\ Len(<<row>>) = 1 /\ <<row>>[1] = row
      OBVIOUS
    <2>2. Len(after) = m + 1 /\ after \in Seq(MemoryRow) /\ after[1] = row
      BY <1>1, <1>3, <2>1
    <2>3. ASSUME NEW k \in 2..(m + 1) PROVE after[k] = before[split + k - 1]
      <3>1. k - 1 \in 1..m /\ split + (k - 1) = split + k - 1
        BY <1>1
      <3>2. after[k] = last[k - 1]
        BY <1>1, <1>3, <2>1
      <3> QED BY <1>3, <3>1, <3>2
    <2> QED BY <1>1, <2>2, <2>3
  <1>5. \A x : x \in row.covers <=> \E k \in 1..split : x \in before[k].covers
    BY <1>2 DEF Memory!SummarizeHistory
  <1>6. \A x : x \in 1..n <=> \E k \in DOMAIN before : x \in before[k].covers
    BY TellsPoints
  <1>7. \A k, l \in DOMAIN before : k < l => \A x \in before[k].covers, y \in before[l].covers : x < y
    BY TellsPoints
  <1>0. m = Len(before) - split
    OBVIOUS
  <1> HIDE DEF first, last, after, m
  <1>8. ASSUME NEW x PROVE x \in 1..n <=> \E k \in DOMAIN after : x \in after[k].covers
    <2>1. ASSUME NEW k \in DOMAIN before, x \in before[k].covers
          PROVE  \E l \in DOMAIN after : x \in after[l].covers
      <3>1. CASE k <= split
        <4>1. x \in after[1].covers /\ 1 \in DOMAIN after
          BY <1>1, <1>4, <1>5, <2>1, <3>1
        <4> QED BY <4>1
      <3>2. CASE k > split
        <4>1. k - split + 1 \in 2..(m + 1) /\ split + (k - split + 1) - 1 = k
          BY <1>1, <1>0, <3>2
        <4>2. after[k - split + 1] = before[k] /\ k - split + 1 \in DOMAIN after
          BY <1>1, <1>4, <4>1
        <4> QED BY <2>1, <4>2
      <3> QED BY <1>1, <3>1, <3>2
    <2>2. ASSUME NEW k \in DOMAIN after, x \in after[k].covers
          PROVE  \E l \in DOMAIN before : x \in before[l].covers
      <3>1. CASE k = 1
        BY SMTT(30), <1>1, <1>4, <1>5, <2>2, <3>1
      <3>2. CASE k # 1
        <4>1. k \in 2..(m + 1) /\ split + k - 1 \in DOMAIN before
          BY <1>1, <1>4, <1>0, <3>2
        <4> QED BY <1>4, <2>2, <4>1
      <3> QED BY <3>1, <3>2
    <2> QED BY <1>6, <2>1, <2>2
  <1>9. ASSUME NEW k \in DOMAIN after, NEW l \in DOMAIN after, k < l,
               NEW x \in after[k].covers, NEW y \in after[l].covers
        PROVE  x < y
    <2>1. l \in 2..(m + 1) /\ split + l - 1 \in DOMAIN before /\ after[l] = before[split + l - 1]
      BY <1>1, <1>4, <1>0, <1>9
    <2>2. CASE k = 1
      <3>1. PICK j \in 1..split : x \in before[j].covers
        BY <1>4, <1>5, <2>2
      <3>2. j \in DOMAIN before /\ j < split + l - 1
        BY <1>1, <2>1
      <3> QED BY <1>7, <2>1, <3>1, <3>2
    <2>3. CASE k # 1
      <3>1. k \in 2..(m + 1) /\ split + k - 1 \in DOMAIN before /\ after[k] = before[split + k - 1]
            /\ split + k - 1 < split + l - 1
        <4>1. k \in 2..(m + 1) /\ k < l /\ k \in Nat /\ l \in Nat
          BY <1>1, <1>4, <1>9, <2>1, <2>3
        <4>2. split + k - 1 \in 1..Len(before) /\ split + k - 1 < split + l - 1
          BY <1>1, <1>0, <4>1
        <4> QED BY <1>1, <1>4, <4>1, <4>2
      <3> QED BY <1>7, <2>1, <3>1
    <2> QED BY <2>2, <2>3
  <1>10. \A k, l \in DOMAIN after : k < l => \A x \in after[k].covers, y \in after[l].covers : x < y
    BY <1>9
  <1>11. Memory!Tells(after, n)
    BY <1>8, <1>10, TellsPoints
  <1> QED BY <1>11 DEF after, last

\* Writing the next row changes what the rows and those to come are together
\* in nothing.
LEMMA NextRowWritten ==
  ASSUME NEW here \in Seq(MemoryRow), NEW ahead \in Seq(MemoryRow), ahead # <<>>
  PROVE  /\ Append(here, Head(ahead)) \in Seq(MemoryRow) /\ Tail(ahead) \in Seq(MemoryRow)
         /\ Append(here, Head(ahead)) \o Tail(ahead) = here \o ahead
  OBVIOUS

LEMMA NothingAhead ==
  ASSUME NEW here \in Seq(MemoryRow)
  PROVE  here \o <<>> = here /\ <<>> \o here = here
  OBVIOUS

\* What an action does to an instance is nothing to the others.
LEMMA OneInstance ==
  ASSUME MemoryInv, NEW i \in Instances, NEW here, NEW ahead, NEW began, NEW place, NEW n \in Nat,
         historyRows' = [historyRows EXCEPT ![i] = here], toWrite' = [toWrite EXCEPT ![i] = ahead],
         original' = [original EXCEPT ![i] = began], managing' = [managing EXCEPT ![i] = place],
         said' = [said EXCEPT ![i] = n], lost' = lost \/ lost' = lost \cup {i},
         Kept(here, ahead, began, place),
         i \notin lost' => Whole(here, ahead, began, place, n)
  PROVE  MemoryInv'
  <1>1. here \in Seq(MemoryRow) /\ ahead \in Seq(MemoryRow) /\ began \in Seq(MemoryRow) /\ place \in ManagingPlace
    BY DEF Kept
  <1>2. /\ historyRows' \in [Instances -> Seq(MemoryRow)] /\ toWrite' \in [Instances -> Seq(MemoryRow)]
        /\ original' \in [Instances -> Seq(MemoryRow)] /\ managing' \in [Instances -> ManagingPlace]
        /\ said' \in [Instances -> Nat]
    BY <1>1 DEF MemoryInv
  <1>3. /\ historyRows'[i] = here /\ toWrite'[i] = ahead /\ original'[i] = began /\ managing'[i] = place
        /\ said'[i] = n
    BY DEF MemoryInv
  <1>4. ASSUME NEW j \in Instances, j # i
        PROVE  /\ historyRows'[j] = historyRows[j] /\ toWrite'[j] = toWrite[j] /\ original'[j] = original[j]
               /\ managing'[j] = managing[j] /\ said'[j] = said[j]
    BY <1>4 DEF MemoryInv
  <1>5. ASSUME NEW j \in Instances
        PROVE  Kept(historyRows'[j], toWrite'[j], original'[j], managing'[j])
    <2>1. Kept(historyRows[j], toWrite[j], original[j], managing[j])
      BY DEF MemoryInv
    <2> QED BY <1>3, <1>4, <2>1
  <1>6. ASSUME NEW j \in Instances \ lost'
        PROVE  Whole(historyRows'[j], toWrite'[j], original'[j], managing'[j], said'[j])
    <2>1. j \notin lost
      BY <1>6
    <2>2. Whole(historyRows[j], toWrite[j], original[j], managing[j], said[j])
      BY <2>1 DEF MemoryInv
    <2> QED BY <1>3, <1>4, <1>6, <2>2
  <1> QED BY <1>2, <1>5, <1>6 DEF MemoryInv

\* What it leaves alone, it writes anew as it was.
LEMMA LeftAlone ==
  ASSUME NEW S, NEW f \in [Instances -> S], NEW i \in Instances
  PROVE  f = [f EXCEPT ![i] = f[i]]
  OBVIOUS

LEMMA MemoryInvStep == MemoryInv /\ [Next]_vars => MemoryInv'
  <1> SUFFICES ASSUME MemoryInv, Memory!MemoryNext \/ UNCHANGED Memory!memoryVars
               PROVE  MemoryInv'
    BY MemoryStep
  <1>1. CASE UNCHANGED Memory!memoryVars
    BY <1>1 DEF MemoryInv, Memory!memoryVars
  <1>2. CASE Memory!MemoryNext
    <2>1. PICK i \in Instances :
            \/ Memory!AppendTurn(i) \/ Memory!ManageContext(i) \/ Memory!SummarizeFails(i)
            \/ Memory!ClearAndWrite(i) \/ Memory!WriteTurn(i) \/ Memory!Written(i)
            \/ Memory!WriteFails(i) \/ Memory!RestoreFails(i)
      BY <1>2 DEF Memory!MemoryNext
    <2> DEFINE here  == historyRows[i]
               ahead == toWrite[i]
               began == original[i]
               n     == said[i]
    <2>2. /\ historyRows = [historyRows EXCEPT ![i] = here] /\ toWrite = [toWrite EXCEPT ![i] = ahead]
          /\ original = [original EXCEPT ![i] = began] /\ said = [said EXCEPT ![i] = n]
      BY LeftAlone DEF MemoryInv
    <2>3. n \in Nat /\ Kept(here, ahead, began, managing[i])
          /\ here \in Seq(MemoryRow) /\ ahead \in Seq(MemoryRow) /\ began \in Seq(MemoryRow)
      BY DEF MemoryInv
    <2>4. i \notin lost => Whole(here, ahead, began, managing[i], n)
      BY DEF MemoryInv
    <2> HIDE DEF here, ahead, began, n
    <2>5. CASE Memory!AppendTurn(i)
      <3> DEFINE row == [id |-> <<i, n + 1>>, covers |-> {n + 1}]
                 more == Append(here, row)
      <3>1. /\ managing[i] = "idle" /\ said' = [said EXCEPT ![i] = n + 1]
            /\ historyRows' = [historyRows EXCEPT ![i] = more]
            /\ UNCHANGED <<managing, original, toWrite, lost>>
        BY <2>5 DEF Memory!AppendTurn, n, here, MemoryInv
      <3>2. row \in MemoryRow /\ row.covers = {n + 1}
        BY <2>3 DEF MemoryRow
      <3>3. ahead = <<>> /\ more \in Seq(MemoryRow) /\ here \o ahead = here /\ more \o ahead = more
        BY <2>3, <3>1, <3>2, NothingAhead DEF Kept
      <3>4. managing' = [managing EXCEPT ![i] = "idle"]
        BY <3>1, LeftAlone DEF MemoryInv
      <3>5. Kept(more, ahead, began, "idle")
        BY <2>3, <3>3 DEF Kept, ManagingPlace
      <3>6. i \notin lost => Whole(more, ahead, began, "idle", n + 1)
        <4> SUFFICES ASSUME i \notin lost PROVE Memory!Tells(more \o ahead, n + 1)
          BY DEF Whole
        <4>1. Memory!Tells(here, n)
          BY <2>4, <3>3 DEF Whole
        <4> HIDE DEF row
        <4>2. Memory!Tells(more, n + 1)
          BY <2>3, <3>2, <4>1, TurnTold
        <4> QED BY <3>3, <4>2
      <3>7. n + 1 \in Nat
        BY <2>3
      <3> HIDE DEF more, row
      <3> QED BY <2>2, <3>1, <3>4, <3>5, <3>6, <3>7, OneInstance
    <2>6. CASE Memory!ManageContext(i)
      <3>1. /\ managing[i] = "idle" /\ Len(here) > RecentTurns
            /\ managing' = [managing EXCEPT ![i] = "summarizing"]
            /\ original' = [original EXCEPT ![i] = here]
            /\ UNCHANGED <<historyRows, said, toWrite, lost>>
        BY <2>6 DEF Memory!ManageContext, here
      <3>2. Kept(here, ahead, here, "summarizing")
        BY <2>3, <3>1 DEF Kept, ManagingPlace
      <3>3. i \notin lost => Whole(here, ahead, here, "summarizing", n)
        <4>1. ahead = <<>> /\ here \o ahead = here
          BY <2>3, <3>1, NothingAhead DEF Kept
        <4> QED BY <2>4, <4>1 DEF Whole
      <3> QED BY <2>2, <2>3, <3>1, <3>2, <3>3, OneInstance
    <2>7. CASE Memory!SummarizeFails(i) \/ Memory!Written(i)
      <3>1. /\ managing' = [managing EXCEPT ![i] = "idle"]
            /\ (managing[i] = "summarizing" \/ ahead = <<>>)
            /\ UNCHANGED <<historyRows, said, original, toWrite, lost>>
        BY <2>7 DEF Memory!SummarizeFails, Memory!Written, ahead
      <3>2. Kept(here, ahead, began, "idle")
        BY <2>3, <3>1 DEF Kept, ManagingPlace
      <3>3. i \notin lost => Whole(here, ahead, began, "idle", n)
        BY <2>4 DEF Whole
      <3> QED BY <2>2, <2>3, <3>1, <3>2, <3>3, OneInstance
    <2>8. CASE Memory!ClearAndWrite(i)
      <3> DEFINE split == Len(began) - RecentTurns
                 summary == [id |-> Memory!SummaryMarker, covers |-> Memory!SummarizeHistory(SubSeq(began, 1, split))]
                 anew == <<summary>> \o SubSeq(began, split + 1, Len(began))
      <3>1. /\ managing[i] = "summarizing" /\ managing' = [managing EXCEPT ![i] = "writing"]
            /\ toWrite' = [toWrite EXCEPT ![i] = anew] /\ historyRows' = [historyRows EXCEPT ![i] = <<>>]
            /\ UNCHANGED <<said, original, lost>>
        BY <2>8 DEF Memory!ClearAndWrite, began
      <3>2. split \in 1..Len(began)
        BY <2>3, <3>1, ContextAssumption DEF Kept
      <3> HIDE DEF split
      <3>3. summary \in MemoryRow /\ summary.covers = Memory!SummarizeHistory(SubSeq(began, 1, split))
        <4>1. \A k \in DOMAIN SubSeq(began, 1, split) : SubSeq(began, 1, split)[k] \in MemoryRow
          BY <2>3, <3>2
        <4>2. Memory!SummarizeHistory(SubSeq(began, 1, split)) \in SUBSET Nat
          BY <4>1 DEF Memory!SummarizeHistory, MemoryRow
        <4> QED BY <4>2 DEF MemoryRow
      <3> HIDE DEF summary
      <3>4. anew \in Seq(MemoryRow)
        <4>1. SubSeq(began, split + 1, Len(began)) \in Seq(MemoryRow)
          BY <2>3, <3>2
        <4> QED BY <3>3, <4>1
      <3>5. Kept(<<>>, anew, began, "writing")
        BY <2>3, <3>4 DEF Kept, ManagingPlace
      <3>6. i \notin lost => Whole(<<>>, anew, began, "writing", n)
        <4> SUFFICES ASSUME i \notin lost
                     PROVE  Memory!Tells(<<>> \o anew, n) /\ Memory!Tells(began, n)
          BY DEF Whole
        <4>1. Memory!Tells(began, n)
          BY <2>4, <3>1 DEF Whole
        <4>2. Memory!Tells(anew, n)
          BY <2>3, <3>2, <3>3, <4>1, SummaryTold
        <4> QED BY <3>4, <4>1, <4>2, NothingAhead
      <3> HIDE DEF anew
      <3> QED BY <2>2, <2>3, <3>1, <3>5, <3>6, OneInstance
    <2>9. CASE Memory!WriteTurn(i)
      <3> DEFINE more == Append(here, Head(ahead))
                 fewer == Tail(ahead)
      <3>1. /\ managing[i] \in {"writing", "restoring"} /\ ahead # <<>>
            /\ historyRows' = [historyRows EXCEPT ![i] = more] /\ toWrite' = [toWrite EXCEPT ![i] = fewer]
            /\ UNCHANGED <<said, managing, original, lost>>
        BY <2>9 DEF Memory!WriteTurn, here, ahead, MemoryInv
      <3>2. more \in Seq(MemoryRow) /\ fewer \in Seq(MemoryRow) /\ more \o fewer = here \o ahead
        BY <2>3, <3>1, NextRowWritten
      <3>3. managing' = [managing EXCEPT ![i] = managing[i]]
        BY <3>1, LeftAlone DEF MemoryInv
      <3>4. Kept(more, fewer, began, managing[i])
        BY <2>3, <3>1, <3>2 DEF Kept, ManagingPlace
      <3>5. i \notin lost => Whole(more, fewer, began, managing[i], n)
        BY <2>4, <3>2 DEF Whole
      <3> HIDE DEF more, fewer
      <3> QED BY <2>2, <2>3, <3>1, <3>3, <3>4, <3>5, OneInstance
    <2>10. CASE Memory!WriteFails(i)
      <3>1. /\ managing[i] = "writing" /\ managing' = [managing EXCEPT ![i] = "restoring"]
            /\ toWrite' = [toWrite EXCEPT ![i] = began] /\ historyRows' = [historyRows EXCEPT ![i] = <<>>]
            /\ UNCHANGED <<said, original, lost>>
        BY <2>10 DEF Memory!WriteFails, began
      <3>2. Kept(<<>>, began, began, "restoring")
        BY <2>3 DEF Kept, ManagingPlace
      <3>3. i \notin lost => Whole(<<>>, began, began, "restoring", n)
        BY <2>3, <2>4, <3>1, NothingAhead DEF Whole
      <3> QED BY <2>2, <2>3, <3>1, <3>2, <3>3, OneInstance
    <2>11. CASE Memory!RestoreFails(i)
      <3>1. /\ managing' = [managing EXCEPT ![i] = "idle"] /\ toWrite' = [toWrite EXCEPT ![i] = <<>>]
            /\ lost' = lost \cup {i} /\ UNCHANGED <<historyRows, said, original>>
        BY <2>11 DEF Memory!RestoreFails
      <3>2. Kept(here, <<>>, began, "idle")
        BY <2>3 DEF Kept, ManagingPlace
      <3>3. i \in lost'
        BY <3>1
      <3> QED BY <2>2, <2>3, <3>1, <3>2, <3>3, OneInstance
    <2> QED BY <2>1, <2>5, <2>6, <2>7, <2>8, <2>9, <2>10, <2>11
  <1> QED BY <1>1, <1>2

(* Between two managements a history stands for the whole conversation of    *)
(* its instance, for any number of instances and of turns to keep, however   *)
(* often it is summarized and however often the store fails, unless a        *)
(* restore failed.                                                          *)
THEOREM HistoryIsWhole == Spec => []HistoryTellsAll
  <1>1. Init => MemoryInv
    <2> SUFFICES ASSUME Init PROVE MemoryInv
      OBVIOUS
    <2>1. /\ historyRows = [i \in Instances |-> <<>>] /\ said = [i \in Instances |-> 0]
          /\ managing = [i \in Instances |-> "idle"] /\ original = [i \in Instances |-> <<>>]
          /\ toWrite = [i \in Instances |-> <<>>]
      BY DEF Init, Memory!Init
    <2>2. Memory!Tells(<<>>, 0)
      BY TellsPoints
    <2>3. <<>> \o <<>> = <<>> /\ <<>> \in Seq(MemoryRow)
      OBVIOUS
    <2>4. ASSUME NEW i \in Instances
          PROVE  /\ historyRows[i] = <<>> /\ toWrite[i] = <<>> /\ original[i] = <<>>
                 /\ managing[i] = "idle" /\ said[i] = 0
      BY <2>1
    <2>0. "idle" \in ManagingPlace
      BY DEF ManagingPlace
    <2>5. Kept(<<>>, <<>>, <<>>, "idle") /\ Whole(<<>>, <<>>, <<>>, "idle", 0)
      BY <2>2, <2>3, <2>0 DEF Kept, Whole
    <2>6. /\ historyRows \in [Instances -> Seq(MemoryRow)] /\ toWrite \in [Instances -> Seq(MemoryRow)]
          /\ original \in [Instances -> Seq(MemoryRow)] /\ managing \in [Instances -> ManagingPlace]
          /\ said \in [Instances -> Nat]
      BY <2>1, <2>3, <2>0
    <2> QED BY <2>4, <2>5, <2>6 DEF MemoryInv
  <1>2. MemoryInv => HistoryTellsAll
    <2> SUFFICES ASSUME MemoryInv, NEW i \in Instances \ lost, managing[i] = "idle"
                 PROVE  Memory!Tells(historyRows[i], said[i])
      BY DEF HistoryTellsAll, Memory!HistoryTellsAll
    <2>1. /\ Kept(historyRows[i], toWrite[i], original[i], managing[i])
          /\ Whole(historyRows[i], toWrite[i], original[i], managing[i], said[i])
      BY DEF MemoryInv
    <2>2. historyRows[i] \o toWrite[i] = historyRows[i]
      BY <2>1, NothingAhead DEF Kept
    <2> QED BY <2>1, <2>2 DEF Whole
  <1> QED BY <1>1, <1>2, MemoryInvStep, PTL DEF Spec

-----------------------------------------------------------------------------
(* The verdicts of the evaluation.                                          *)

LEMMA EvalStep == [Next]_vars => [Eval!EvalNext]_history
  BY DEF Next, Others, vars

\* The first n sums of a list, and the numbers they add.
IsSums(sums, numbers, n) == sums = [k \in 0..n |-> IF k = 0 THEN 0 ELSE sums[k - 1] + numbers[k]]

\* They exist: the shortest list without would have them.
LEMMA SumsExist ==
  ASSUME NEW numbers, NEW n \in Nat
  PROVE  \E sums : IsSums(sums, numbers, n)
  <1> DEFINE without == {k \in Nat : ~\E sums : IsSums(sums, numbers, k)}
  <1> SUFFICES ASSUME without # {} PROVE FALSE
    OBVIOUS
  <1>1. PICK least \in without : \A k \in without : least <= k
    BY LeastNumber
  <1>2. least \in Nat /\ ~\E sums : IsSums(sums, numbers, least)
    OBVIOUS
  <1>3. CASE least = 0
    <2>1. IsSums([k \in 0..0 |-> 0], numbers, 0)
      BY DEF IsSums
    <2> QED BY <1>2, <1>3, <2>1
  <1>4. CASE least # 0
    <2>1. least - 1 \in Nat /\ least - 1 \notin without
      BY <1>1, <1>2, <1>4
    <2>2. PICK before : IsSums(before, numbers, least - 1)
      BY <2>1
    <2> DEFINE sums == [k \in 0..least |-> IF k = least THEN before[least - 1] + numbers[least] ELSE before[k]]
    <2>3. \A k \in 0..(least - 1) : before[k] = IF k = 0 THEN 0 ELSE before[k - 1] + numbers[k]
      BY <2>2 DEF IsSums
    <2>4. ASSUME NEW k \in 0..least
          PROVE  sums[k] = IF k = 0 THEN 0 ELSE sums[k - 1] + numbers[k]
      <3>1. CASE k = least
        <4>1. k - 1 \in 0..least /\ k - 1 # least /\ k # 0
          BY <1>2, <1>4, <3>1
        <4>2. sums[k] = before[least - 1] + numbers[least] /\ sums[k - 1] = before[k - 1]
          BY <3>1, <4>1
        <4> QED BY <3>1, <4>1, <4>2
      <3>2. CASE k # least /\ k # 0
        <4>1. k \in 0..(least - 1) /\ k - 1 \in 0..least /\ k - 1 # least
          BY <1>2, <3>2
        <4>2. sums[k] = before[k] /\ sums[k - 1] = before[k - 1]
          BY <3>2, <4>1
        <4> QED BY <2>3, <3>2, <4>1, <4>2
      <3>3. CASE k = 0
        <4>1. 0 \in 0..(least - 1) /\ sums[0] = before[0]
          BY <1>2, <1>4, <2>1
        <4> QED BY <2>3, <3>3, <4>1
      <3> QED BY <3>1, <3>2, <3>3
    <2>5. sums = [k \in 0..least |-> sums[k]]
      OBVIOUS
    <2> HIDE DEF sums
    <2>6. IsSums(sums, numbers, least)
      BY <2>4, <2>5 DEF IsSums
    <2> QED BY <1>2, <2>6
  <1> QED BY <1>3, <1>4

LEMMA SumsAdd ==
  ASSUME NEW numbers, Len(numbers) \in Nat
  PROVE  IsSums(Eval!Sums(numbers), numbers, Len(numbers))
  <1>1. \E sums : IsSums(sums, numbers, Len(numbers))
    BY SumsExist
  <1> QED BY <1>1 DEF IsSums, Eval!Sums
\* Lists as long as each other, one nowhere greater: nor is its total.
LEMMA TotalsCompare ==
  ASSUME NEW less, NEW more, NEW n \in Nat, Len(less) = n, Len(more) = n,
         \A k \in 1..n : less[k] \in Int /\ more[k] \in Int /\ less[k] <= more[k]
  PROVE  Eval!Total(less) \in Int /\ Eval!Total(more) \in Int /\ Eval!Total(less) <= Eval!Total(more)
  <1> DEFINE few  == Eval!Sums(less)
             many == Eval!Sums(more)
             Compares(k) == few[k] \in Int /\ many[k] \in Int /\ few[k] <= many[k]
             wrong == {k \in 0..n : ~Compares(k)}
  <1>1. /\ \A k \in 0..n : few[k] = IF k = 0 THEN 0 ELSE few[k - 1] + less[k]
        /\ \A k \in 0..n : many[k] = IF k = 0 THEN 0 ELSE many[k - 1] + more[k]
    <2>1. IsSums(few, less, n) /\ IsSums(many, more, n)
      BY SumsAdd
    <2> HIDE DEF few, many
    <2> QED BY <2>1 DEF IsSums
  <1> HIDE DEF few, many
  <1>2. wrong = {}
    <2> SUFFICES ASSUME wrong # {} PROVE FALSE
      OBVIOUS
    <2>1. PICK k \in wrong : \A l \in wrong : k <= l
      <3>1. wrong \in SUBSET Nat
        OBVIOUS
      <3> QED BY <3>1, LeastNumber
    <2>2. k \in 0..n /\ ~Compares(k)
      OBVIOUS
    <2>3. CASE k = 0
      BY <1>1, <2>2, <2>3
    <2>4. CASE k # 0
      <3>1. k - 1 \in 0..n /\ k \in 1..n /\ k - 1 \notin wrong
        BY <2>1, <2>2, <2>4
      <3>2. Compares(k - 1)
        BY <3>1
      <3>3. few[k] = few[k - 1] + less[k] /\ many[k] = many[k - 1] + more[k]
        BY <1>1, <2>2, <2>4
      <3> QED BY <2>2, <3>1, <3>2, <3>3
    <2> QED BY <2>3, <2>4
  <1>3. Compares(n)
    BY <1>2
  <1> QED BY <1>3 DEF few, many, Eval!Total

\* An average, and one over as many that is at least as great.
IsAverage(a) == a.sum \in Int /\ a.count \in Nat \ {0}
AtLeast(a, b) == IsAverage(a) /\ IsAverage(b) /\ a.count = b.count /\ b.sum <= a.sum

LEMMA AveragesCompare ==
  ASSUME NEW less, NEW more, NEW n \in Nat, Len(less) = n, Len(more) = n,
         \A k \in 1..n : less[k] \in Int /\ more[k] \in Int /\ less[k] <= more[k],
         NEW number \in Nat
  PROVE  AtLeast(Eval!Average(more, number), Eval!Average(less, number))
  BY TotalsCompare DEF AtLeast, IsAverage, Eval!Average

LEMMA ListOf ==
  ASSUME NEW cases \in Runs, NEW f, DOMAIN f = DOMAIN cases
  PROVE  Len(f) = Len(cases) /\ Len(cases) \in Nat /\ DOMAIN cases = 1..Len(cases)
  BY EvalAssumption

\* A run that is no worse is so in every average.
LEMMA RunsCompare ==
  ASSUME NEW better \in Runs, NEW worse \in Runs, Eval!NoWorse(better, worse)
  PROVE  /\ Eval!Metrics(better) = Eval!Metrics(worse)
         /\ \A m \in Eval!Metrics(worse) : AtLeast(Eval!MetricAverage(better, m), Eval!MetricAverage(worse, m))
         /\ AtLeast(Eval!PassRate(better), Eval!PassRate(worse))
         /\ AtLeast(Eval!Latency(worse), Eval!Latency(better))
  <1> DEFINE n == Len(worse)
  <1>1. n \in Nat /\ DOMAIN worse = 1..n /\ DOMAIN better = 1..n /\ Len(better) = n
    BY EvalAssumption DEF Eval!NoWorse
  <1>2. ASSUME NEW i \in 1..n
        PROVE  /\ better[i].latencyMs \in Int /\ worse[i].latencyMs \in Int
               /\ better[i].latencyMs <= worse[i].latencyMs
               /\ DOMAIN better[i].scores = DOMAIN worse[i].scores
               /\ \A m \in DOMAIN worse[i].scores :
                    /\ better[i].scores[m] \in Int /\ worse[i].scores[m] \in Int
                    /\ worse[i].scores[m] <= better[i].scores[m]
    BY <1>1, EvalAssumption DEF Eval!NoWorse
  <1> HIDE DEF n
  <1>3. Eval!Metrics(better) = Eval!Metrics(worse)
    BY <1>1, <1>2 DEF Eval!Metrics
  <1>4. ASSUME NEW m \in Eval!Metrics(worse)
        PROVE  AtLeast(Eval!MetricAverage(better, m), Eval!MetricAverage(worse, m))
    <2> DEFINE more == [i \in DOMAIN better |-> IF m \in DOMAIN better[i].scores THEN better[i].scores[m] ELSE 0]
               less == [i \in DOMAIN worse |-> IF m \in DOMAIN worse[i].scores THEN worse[i].scores[m] ELSE 0]
               with(cases) == {i \in DOMAIN cases : m \in DOMAIN cases[i].scores}
    <2>1. Len(less) = n /\ Len(more) = n
      BY <1>1
    <2>2. \A k \in 1..n : less[k] \in Int /\ more[k] \in Int /\ less[k] <= more[k]
      BY <1>1, <1>2
    <2>3. with(better) = with(worse)
      BY <1>1, <1>2
    <2>4. Cardinality(with(worse)) \in Nat
      <3>1. with(worse) \subseteq 1..n /\ IsFiniteSet(1..n)
        BY <1>1, FS_Interval
      <3> QED BY <3>1, FS_Subset, FS_CardinalityType
    <2>5. Eval!Cardinality(with(worse)) = Cardinality(with(worse)) 
      BY DEF Eval!Cardinality, Cardinality
    <2>6. /\ Eval!MetricAverage(better, m) = Eval!Average(more, Eval!Cardinality(with(better)))
          /\ Eval!MetricAverage(worse, m) = Eval!Average(less, Eval!Cardinality(with(worse)))
      BY DEF Eval!MetricAverage
    <2> HIDE DEF more, less, with
    <2> QED BY <1>1, <2>1, <2>2, <2>3, <2>4, <2>5, <2>6, AveragesCompare
  <1>5. AtLeast(Eval!PassRate(better), Eval!PassRate(worse))
    <2> DEFINE more == [i \in DOMAIN better |-> IF Eval!Passes(better[i]) THEN FullScore ELSE 0]
               less == [i \in DOMAIN worse |-> IF Eval!Passes(worse[i]) THEN FullScore ELSE 0]
    <2>1. Len(less) = n /\ Len(more) = n
      BY <1>1
    <2>2. \A k \in 1..n : Eval!Passes(worse[k]) => Eval!Passes(better[k])
      BY <1>2, EvalAssumption DEF Eval!Passes
    <2>3. \A k \in 1..n : less[k] \in Int /\ more[k] \in Int /\ less[k] <= more[k]
      BY <1>1, <2>2, EvalAssumption
    <2>4. Eval!PassRate(better) = Eval!Average(more, n) /\ Eval!PassRate(worse) = Eval!Average(less, n)
      BY <1>1 DEF Eval!PassRate, n
    <2> HIDE DEF more, less
    <2> QED BY <1>1, <2>1, <2>3, <2>4, AveragesCompare
  <1>6. AtLeast(Eval!Latency(worse), Eval!Latency(better))
    <2> DEFINE more == [i \in DOMAIN worse |-> worse[i].latencyMs]
               less == [i \in DOMAIN better |-> better[i].latencyMs]
    <2>1. Len(less) = n /\ Len(more) = n
      BY <1>1
    <2>2. \A k \in 1..n : less[k] \in Int /\ more[k] \in Int /\ less[k] <= more[k]
      BY <1>1, <1>2
    <2>3. Eval!Latency(better) = Eval!Average(less, n) /\ Eval!Latency(worse) = Eval!Average(more, n)
      BY <1>1 DEF Eval!Latency, n
    <2> HIDE DEF more, less
    <2> QED BY <1>1, <2>1, <2>2, <2>3, AveragesCompare
  <1> QED BY <1>3, <1>4, <1>5, <1>6

\* The drop from b to c against a difference d, when c may also be greater.
LEMMA DropsCompare ==
  ASSUME NEW b, NEW more, NEW less, IsAverage(b), AtLeast(more, less), NEW d \in Int
  PROVE  /\ Eval!Drop(b, more, d) \in Int /\ Eval!Drop(b, less, d) \in Int
         /\ Eval!Drop(b, more, d) <= Eval!Drop(b, less, d)
         /\ Eval!Drop(more, b, d) \in Int /\ Eval!Drop(less, b, d) \in Int
         /\ Eval!Drop(less, b, d) <= Eval!Drop(more, b, d)
  <1> DEFINE n == less.count
             rest == b.sum * n - d * b.count * n
             back == d * n * b.count + b.sum * n
  <1>1. /\ n \in Nat /\ more.count = n /\ b.count \in Nat /\ b.sum \in Int /\ more.sum \in Int /\ less.sum \in Int
        /\ less.sum <= more.sum
    BY DEF AtLeast, IsAverage
  <1> HIDE DEF n
  <1>2. less.sum * b.count <= more.sum * b.count
    <2>1. \A x, y \in Int, k \in Nat : x <= y => x * k <= y * k
      OBVIOUS
    <2> QED BY <1>1, <2>1
  <1>3. less.sum * b.count \in Int /\ more.sum * b.count \in Int
    BY <1>1
  <1>4. rest \in Int /\ back \in Int
    BY <1>1
  <1>5. /\ Eval!Drop(b, more, d) = rest - more.sum * b.count
        /\ Eval!Drop(b, less, d) = rest - less.sum * b.count
    BY <1>1 DEF Eval!Drop, n
  <1>6. /\ Eval!Drop(more, b, d) = more.sum * b.count - back
        /\ Eval!Drop(less, b, d) = less.sum * b.count - back
    BY <1>1 DEF Eval!Drop, n
  <1> HIDE DEF rest, back
  <1> QED BY <1>2, <1>3, <1>4, <1>5, <1>6

\* Nothing drops by a positive difference from an average to one at least as great.
LEMMA NoDrop ==
  ASSUME NEW more, NEW less, AtLeast(more, less), NEW d \in Nat
  PROVE  /\ d # 0 => Eval!Drop(less, more, d) < 0
         /\ Eval!Drop(less, more, d) <= 0
  <1> DEFINE n == less.count
  <1>1. /\ n \in Nat \ {0} /\ more.count = n /\ more.sum \in Int /\ less.sum \in Int /\ less.sum <= more.sum
    BY DEF AtLeast, IsAverage
  <1> HIDE DEF n
  <1>2. less.sum * n <= more.sum * n /\ less.sum * n \in Int /\ more.sum * n \in Int
    <2>1. \A x, y \in Int, k \in Nat : x <= y => x * k <= y * k
      OBVIOUS
    <2> QED BY <1>1, <2>1
  <1>3. d * n * n \in Nat /\ (d # 0 => d * n * n > 0)
    <2>1. \A x, y \in Nat : x * y \in Nat /\ (x # 0 /\ y # 0 => x * y > 0)
      OBVIOUS
    <2>2. d * n \in Nat /\ (d # 0 => d * n # 0)
      BY <1>1, <2>1
    <2> QED BY <1>1, <2>1, <2>2
  <1>4. Eval!Drop(less, more, d) = less.sum * n - more.sum * n - d * n * n
    BY <1>1 DEF Eval!Drop, n
  <1> QED BY <1>2, <1>3, <1>4

Bad == {"critical", "warning"}

\* A drop by more than d is one by more than less than d.
LEMMA DropOf ==
  ASSUME NEW b, NEW c, IsAverage(b), IsAverage(c)
  PROVE  \E x \in Int, n \in Nat \ {0} : \A d \in Int : Eval!Drop(b, c, d) = x - d * n
  <1> DEFINE x == b.sum * c.count - c.sum * b.count
             n == b.count * c.count
  <1>1. /\ b.sum \in Int /\ c.sum \in Int /\ b.count \in Nat \ {0} /\ c.count \in Nat \ {0}
    BY DEF IsAverage
  <1>2. x \in Int /\ n \in Nat \ {0}
    <2>1. \A i, j \in Nat \ {0} : i * j \in Nat \ {0}
      OBVIOUS
    <2> QED BY <1>1, <2>1
  <1>3. ASSUME NEW d \in Int PROVE Eval!Drop(b, c, d) = x - d * n
    <2>1. d * b.count * c.count = d * n
      BY <1>1
    <2> QED BY <1>1, <2>1 DEF Eval!Drop
  <1> HIDE DEF x, n
  <1> QED BY <1>2, <1>3

LEMMA ScoreIsBad ==
  ASSUME NEW b, NEW c, IsAverage(b), IsAverage(c)
  PROVE  Eval!ScoreSeverity(b, c) \in Bad <=>
           Eval!Drop(b, c, CriticalDelta) >= 0 \/ Eval!Drop(b, c, WarningDelta) >= 0
  <1> DEFINE critical == Eval!Drop(b, c, CriticalDelta)
             warning  == Eval!Drop(b, c, WarningDelta)
             better   == Eval!Drop(b, c, 0 - WarningDelta)
  <1>1. PICK x \in Int, n \in Nat \ {0} : \A d \in Int : Eval!Drop(b, c, d) = x - d * n
    BY DropOf
  <1>2. critical = x - CriticalDelta * n /\ warning = x - WarningDelta * n /\ better = x - (0 - WarningDelta) * n
    BY <1>1, EvalAssumption
  <1>3. CriticalDelta * n \in Nat \ {0} /\ WarningDelta * n \in Nat \ {0}
    <2>1. \A i, j \in Nat \ {0} : i * j \in Nat \ {0}
      OBVIOUS
    <2> QED BY <2>1, EvalAssumption
  <1>4. better = x + WarningDelta * n
    BY <1>2, EvalAssumption
  <1>5. critical \in Int /\ warning \in Int /\ better \in Int /\ (critical >= 0 \/ warning >= 0 => better > 0)
    BY <1>2, <1>3, <1>4
  <1>6. Eval!ScoreSeverity(b, c) =
          CASE critical >= 0 -> "critical"
            [] critical < 0 /\ warning >= 0 -> "warning"
            [] better <= 0 -> "improvement"
            [] OTHER -> "unchanged"
    BY DEF Eval!ScoreSeverity
  <1> HIDE DEF critical, warning, better
  <1>7. CASE critical >= 0
    <2>1. Eval!ScoreSeverity(b, c) = "critical"
      BY <1>5, <1>6, <1>7
    <2> QED BY <1>7, <2>1 DEF Bad, critical, warning
  <1>8. CASE critical < 0 /\ warning >= 0
    <2>1. Eval!ScoreSeverity(b, c) = "warning"
      BY <1>5, <1>6, <1>8
    <2> QED BY <1>8, <2>1 DEF Bad, critical, warning
  <1>9. CASE critical < 0 /\ warning < 0
    <2>1. Eval!ScoreSeverity(b, c) \in {"improvement", "unchanged"}
      BY <1>5, <1>6, <1>9
    <2>2. Eval!ScoreSeverity(b, c) \notin Bad /\ ~(critical >= 0) /\ ~(warning >= 0)
      BY <1>5, <1>9, <2>1 DEF Bad
    <2> QED BY <2>2 DEF critical, warning
  <1> QED BY <1>5, <1>7, <1>8, <1>9

LEMMA LatencyIsBad ==
  ASSUME NEW b, NEW c, IsAverage(b), IsAverage(c)
  PROVE  Eval!CompareLatency(b, c) \in Bad <=>
           Eval!Drop(c, b, 2 * MaxLatencyIncrease) > 0 \/ Eval!Drop(c, b, MaxLatencyIncrease) > 0
  <1> DEFINE critical == Eval!Drop(c, b, 2 * MaxLatencyIncrease)
             warning  == Eval!Drop(c, b, MaxLatencyIncrease)
             less     == 2 * Eval!Drop(c, b, 0) < 0 - MaxLatencyIncrease * b.count * c.count
  <1>1. PICK x \in Int, n \in Nat \ {0} : \A d \in Int : Eval!Drop(c, b, d) = x - d * n
    BY DropOf
  <1>2. /\ critical = x - (2 * MaxLatencyIncrease) * n /\ warning = x - MaxLatencyIncrease * n
        /\ Eval!Drop(c, b, 0) = x
    BY <1>1, EvalAssumption
  <1>3. MaxLatencyIncrease * n \in Nat /\ (2 * MaxLatencyIncrease) * n \in Nat
    <2>1. \A i, j \in Nat : i * j \in Nat
      OBVIOUS
    <2> QED BY <2>1, EvalAssumption
  <1>4. MaxLatencyIncrease * b.count * c.count \in Nat
    <2>1. \A i, j \in Nat : i * j \in Nat
      OBVIOUS
    <2> QED BY <2>1, EvalAssumption DEF IsAverage
  <1>5. critical \in Int /\ warning \in Int /\ (critical > 0 \/ warning > 0 => ~less)
    BY <1>2, <1>3, <1>4
  <1>6. Eval!CompareLatency(b, c) =
          CASE critical > 0 -> "critical"
            [] critical <= 0 /\ warning > 0 -> "warning"
            [] less -> "improvement"
            [] OTHER -> "unchanged"
    BY DEF Eval!CompareLatency
  <1> HIDE DEF critical, warning, less
  <1>7. CASE critical > 0
    <2>1. Eval!CompareLatency(b, c) = "critical"
      BY <1>5, <1>6, <1>7
    <2> QED BY <1>7, <2>1 DEF Bad, critical, warning
  <1>8. CASE critical <= 0 /\ warning > 0
    <2>1. Eval!CompareLatency(b, c) = "warning"
      BY <1>5, <1>6, <1>8
    <2> QED BY <1>8, <2>1 DEF Bad, critical, warning
  <1>9. CASE critical <= 0 /\ warning <= 0
    <2>1. Eval!CompareLatency(b, c) \in {"improvement", "unchanged"}
      BY <1>5, <1>6, <1>9
    <2>2. Eval!CompareLatency(b, c) \notin Bad /\ ~(critical > 0) /\ ~(warning > 0)
      BY <1>5, <1>9, <2>1 DEF Bad
    <2> QED BY <2>2 DEF critical, warning
  <1> QED BY <1>5, <1>7, <1>8, <1>9
\* A run fails when something that is compared is bad.
LEMMA FailsWhen ==
  ASSUME NEW base, NEW run
  PROVE  Eval!Compare(base, run).verdict = "fail" <=>
           \/ \E m \in Eval!Metrics(run) \cap Eval!Metrics(base) :
                Eval!ScoreSeverity(Eval!MetricAverage(base, m), Eval!MetricAverage(run, m)) \in Bad
           \/ Eval!ScoreSeverity(Eval!PassRate(base), Eval!PassRate(run)) \in Bad
           \/ Eval!CompareLatency(Eval!Latency(base), Eval!Latency(run)) \in Bad
  <1> DEFINE b == Eval!Summary(base)
             c == Eval!Summary(run)
             judged == Eval!Judged(b, c)
             metrics == Eval!CompareMetrics(b, c)
  <1>1. Eval!Compare(base, run).verdict = Eval!Verdict(judged)
    BY DEF Eval!Compare
  <1>2. /\ b.metrics = [m \in Eval!Metrics(base) |-> Eval!MetricAverage(base, m)]
        /\ b.passRate = Eval!PassRate(base) /\ b.latency = Eval!Latency(base)
        /\ c.metrics = [m \in Eval!Metrics(run) |-> Eval!MetricAverage(run, m)]
        /\ c.passRate = Eval!PassRate(run) /\ c.latency = Eval!Latency(run)
    BY DEF Eval!Summary
  <1> HIDE DEF b, c
  <1>3. \A m \in Eval!Metrics(run) :
          metrics[m] = IF m \in Eval!Metrics(base)
                       THEN Eval!ScoreSeverity(Eval!MetricAverage(base, m), Eval!MetricAverage(run, m))
                       ELSE "improvement"
    BY <1>2 DEF Eval!CompareMetrics
  <1>4. judged = {metrics[m] : m \in Eval!Metrics(run)} \cup
                 {Eval!ScoreSeverity(Eval!PassRate(base), Eval!PassRate(run)),
                  Eval!CompareLatency(Eval!Latency(base), Eval!Latency(run))}
    BY <1>2 DEF Eval!Judged
  <1>5. Eval!Verdict(judged) = "fail" <=> judged \cap Bad # {}
    <2> HIDE DEF judged
    <2> QED BY DEF Eval!Verdict, Bad
  <1> HIDE DEF metrics, judged
  <1>6. judged \cap Bad # {} <=>
          \/ \E m \in Eval!Metrics(run) : metrics[m] \in Bad
          \/ Eval!ScoreSeverity(Eval!PassRate(base), Eval!PassRate(run)) \in Bad
          \/ Eval!CompareLatency(Eval!Latency(base), Eval!Latency(run)) \in Bad
    BY <1>4
  <1>7. "improvement" \notin Bad
    BY DEF Bad
  <1>8. (\E m \in Eval!Metrics(run) : metrics[m] \in Bad) <=>
          \E m \in Eval!Metrics(run) \cap Eval!Metrics(base) :
            Eval!ScoreSeverity(Eval!MetricAverage(base, m), Eval!MetricAverage(run, m)) \in Bad
    BY <1>3, <1>7
  <1> QED BY <1>1, <1>5, <1>6, <1>8

LEMMA RunIsAverages ==
  ASSUME NEW run \in Runs
  PROVE  /\ \A m \in Eval!Metrics(run) : IsAverage(Eval!MetricAverage(run, m))
         /\ IsAverage(Eval!PassRate(run)) /\ IsAverage(Eval!Latency(run))
  <1>1. Eval!NoWorse(run, run)
    BY EvalAssumption DEF Eval!NoWorse
  <1> QED BY <1>1, RunsCompare DEF AtLeast

\* What is at least as great is bad only if the other is, against the same.
LEMMA WorseIsBad ==
  ASSUME NEW b, NEW more, NEW less, IsAverage(b), AtLeast(more, less)
  PROVE  /\ Eval!ScoreSeverity(b, more) \in Bad => Eval!ScoreSeverity(b, less) \in Bad
         /\ Eval!CompareLatency(b, less) \in Bad => Eval!CompareLatency(b, more) \in Bad
         /\ Eval!ScoreSeverity(less, more) \notin Bad
         /\ Eval!CompareLatency(more, less) \notin Bad
  <1>1. IsAverage(more) /\ IsAverage(less)
    BY DEF AtLeast
  <1>2. /\ CriticalDelta \in Int /\ WarningDelta \in Int /\ MaxLatencyIncrease \in Int
        /\ 2 * MaxLatencyIncrease \in Int
        /\ CriticalDelta \in Nat /\ WarningDelta \in Nat /\ MaxLatencyIncrease \in Nat
        /\ 2 * MaxLatencyIncrease \in Nat /\ CriticalDelta # 0 /\ WarningDelta # 0
    BY EvalAssumption
  <1>3. Eval!ScoreSeverity(b, more) \in Bad => Eval!ScoreSeverity(b, less) \in Bad
    <2>1. \A d \in Int : /\ Eval!Drop(b, more, d) \in Int /\ Eval!Drop(b, less, d) \in Int
                         /\ Eval!Drop(b, more, d) <= Eval!Drop(b, less, d)
      BY DropsCompare
    <2>2. \A d \in Int : Eval!Drop(b, more, d) >= 0 => Eval!Drop(b, less, d) >= 0
      BY <2>1
    <2> QED BY <1>1, <1>2, <2>2, ScoreIsBad
  <1>4. Eval!CompareLatency(b, less) \in Bad => Eval!CompareLatency(b, more) \in Bad
    <2>1. \A d \in Int : /\ Eval!Drop(more, b, d) \in Int /\ Eval!Drop(less, b, d) \in Int
                         /\ Eval!Drop(less, b, d) <= Eval!Drop(more, b, d)
      BY DropsCompare
    <2>2. \A d \in Int : Eval!Drop(less, b, d) > 0 => Eval!Drop(more, b, d) > 0
      BY <2>1
    <2> QED BY <1>1, <1>2, <2>2, LatencyIsBad
  <1>5. \A d \in Int : Eval!Drop(less, more, d) \in Int
    BY <1>1, DropsCompare
  <1>6. Eval!ScoreSeverity(less, more) \notin Bad
    <2>1. Eval!Drop(less, more, CriticalDelta) < 0 /\ Eval!Drop(less, more, WarningDelta) < 0
      BY <1>2, NoDrop
    <2> QED BY <1>1, <1>2, <1>5, <2>1, ScoreIsBad
  <1>7. Eval!CompareLatency(more, less) \notin Bad
    <2>1. Eval!Drop(less, more, 2 * MaxLatencyIncrease) <= 0 /\ Eval!Drop(less, more, MaxLatencyIncrease) <= 0
      BY <1>2, NoDrop
    <2> QED BY <1>1, <1>2, <1>5, <2>1, LatencyIsBad
  <1> QED BY <1>3, <1>4, <1>6, <1>7

\* A run that is no worse than another fails only where the other does, and
\* never against the other.
LEMMA BetterPasses ==
  ASSUME NEW base \in Runs, NEW better \in Runs, NEW worse \in Runs, Eval!NoWorse(better, worse)
  PROVE  /\ Eval!Compare(base, better).verdict = "fail" => Eval!Compare(base, worse).verdict = "fail"
         /\ Eval!Compare(worse, better).verdict # "fail"
  <1>1. /\ Eval!Metrics(better) = Eval!Metrics(worse)
        /\ \A m \in Eval!Metrics(worse) : AtLeast(Eval!MetricAverage(better, m), Eval!MetricAverage(worse, m))
        /\ AtLeast(Eval!PassRate(better), Eval!PassRate(worse))
        /\ AtLeast(Eval!Latency(worse), Eval!Latency(better))
    BY RunsCompare
  <1>2. /\ \A m \in Eval!Metrics(base) : IsAverage(Eval!MetricAverage(base, m))
        /\ IsAverage(Eval!PassRate(base)) /\ IsAverage(Eval!Latency(base))
    BY RunIsAverages
  <1>3. /\ \A m \in Eval!Metrics(worse) \cap Eval!Metrics(base) :
             Eval!ScoreSeverity(Eval!MetricAverage(base, m), Eval!MetricAverage(better, m)) \in Bad =>
               Eval!ScoreSeverity(Eval!MetricAverage(base, m), Eval!MetricAverage(worse, m)) \in Bad
        /\ Eval!ScoreSeverity(Eval!PassRate(base), Eval!PassRate(better)) \in Bad =>
             Eval!ScoreSeverity(Eval!PassRate(base), Eval!PassRate(worse)) \in Bad
        /\ Eval!CompareLatency(Eval!Latency(base), Eval!Latency(better)) \in Bad =>
             Eval!CompareLatency(Eval!Latency(base), Eval!Latency(worse)) \in Bad
    BY <1>1, <1>2, WorseIsBad
  <1>4. /\ \A m \in Eval!Metrics(worse) :
             Eval!ScoreSeverity(Eval!MetricAverage(worse, m), Eval!MetricAverage(better, m)) \notin Bad
        /\ Eval!ScoreSeverity(Eval!PassRate(worse), Eval!PassRate(better)) \notin Bad
        /\ Eval!CompareLatency(Eval!Latency(worse), Eval!Latency(better)) \notin Bad
    <2>1. \A more, less : AtLeast(more, less) => /\ Eval!ScoreSeverity(less, more) \notin Bad
                                                 /\ Eval!CompareLatency(more, less) \notin Bad
      BY WorseIsBad DEF AtLeast
    <2> QED BY <1>1, <2>1
  <1>5. Eval!Compare(base, better).verdict = "fail" => Eval!Compare(base, worse).verdict = "fail"
    BY <1>1, <1>3, FailsWhen
  <1>6. Eval!Compare(worse, better).verdict # "fail"
    BY <1>1, <1>4, FailsWhen
  <1> QED BY <1>5, <1>6

\* The entries hold runs.
EvalInv == history \in Seq([label : RunLabels, results : Runs])

LEMMA EvalInvStep == EvalInv /\ [Next]_vars => EvalInv'
  <1> SUFFICES ASSUME EvalInv, [Eval!EvalNext]_history
               PROVE  EvalInv'
    BY EvalStep
  <1>1. CASE UNCHANGED history
    BY <1>1 DEF EvalInv
  <1>2. CASE Eval!EvalNext
    <2>1. PICK label \in RunLabels, cases \in Runs : Eval!Save(label, cases)
      BY <1>2 DEF Eval!EvalNext
    <2> DEFINE entry == [label |-> label, results |-> cases]
    <2>2. entry \in [label : RunLabels, results : Runs] /\ history' = Append(history, entry)
      BY <2>1 DEF Eval!Save
    <2> HIDE DEF entry
    <2> QED BY <2>2 DEF EvalInv
  <1> QED BY <1>1, <1>2

(* A better run never fails where a worse one passes, against any baseline of  *)
(* the history, nor against the worse one: for any metrics, any numbers of    *)
(* cases, and any thresholds.                                               *)
THEOREM BetterPassesOn == Spec => []BetterNeverFails
  <1>1. Init => EvalInv
    BY DEF Init, Eval!Init, EvalInv
  <1>2. EvalInv => BetterNeverFails
    <2> SUFFICES ASSUME EvalInv, Len(history) >= 2
                 PROVE  \A label \in {history[i].label : i \in DOMAIN history}, i \in DOMAIN history :
                          /\ Eval!NoWorse(Eval!Latest.results, history[i].results) =>
                               (Eval!CompareToBaseline(label, Eval!Latest.results).verdict = "fail" =>
                                  Eval!CompareToBaseline(label, history[i].results).verdict = "fail")
                          /\ Eval!NoWorse(Eval!Latest.results, history[Len(history) - 1].results) =>
                               Eval!CompareLatestToPrevious.verdict # "fail"
      BY DEF BetterNeverFails, Eval!BetterNeverFails, Eval!Enough
    <2> TAKE label \in {history[i].label : i \in DOMAIN history}, i \in DOMAIN history
    <2>1. Len(history) \in Nat /\ DOMAIN history = 1..Len(history)
          /\ \A j \in DOMAIN history : history[j].results \in Runs
      <3> DEFINE Entry == [label : RunLabels, results : Runs]
      <3>1. history \in Seq(Entry)
        BY DEF EvalInv
      <3>2. \A entry \in Entry : entry.results \in Runs
        OBVIOUS
      <3> HIDE DEF Entry
      <3>3. Len(history) \in Nat /\ DOMAIN history = 1..Len(history) /\ \A j \in DOMAIN history : history[j] \in Entry
        BY ONLY <3>1
      <3> QED BY ONLY <3>2, <3>3
    <2>2. /\ Eval!Latest.results \in Runs /\ history[Len(history) - 1].results \in Runs
          /\ history[i].results \in Runs
      BY <2>1 DEF Eval!Latest
    <2>3. Eval!Baseline(label).results \in Runs
      <3> DEFINE having == {j \in DOMAIN history : history[j].label = label}
      <3>1. having \in SUBSET Nat /\ having # {}
        BY <2>1
      <3>2. PICK least \in having : \A j \in having : least <= j
        BY <3>1, LeastNumber
      <3>3. least \in DOMAIN history /\ history[least].label = label
            /\ \A j \in 1..(least - 1) : history[j].label # label
        BY <2>1, <3>2
      <3> DEFINE First(k) == history[k].label = label /\ \A j \in 1..(k - 1) : history[j].label # label
      <3>4. (CHOOSE k \in DOMAIN history : First(k)) \in DOMAIN history
        <4>1. \E k \in DOMAIN history : First(k)
          BY <3>3
        <4> HIDE DEF First
        <4> QED BY <4>1
      <3> QED BY <2>1, <3>4 DEF Eval!Baseline
    <2>4. Eval!NoWorse(Eval!Latest.results, history[i].results) =>
            (Eval!CompareToBaseline(label, Eval!Latest.results).verdict = "fail" =>
               Eval!CompareToBaseline(label, history[i].results).verdict = "fail")
      BY <2>2, <2>3, BetterPasses DEF Eval!CompareToBaseline
    <2>5. Eval!NoWorse(Eval!Latest.results, history[Len(history) - 1].results) =>
            Eval!CompareLatestToPrevious.verdict # "fail"
      BY <2>2, BetterPasses DEF Eval!CompareLatestToPrevious
    <2> QED BY <2>4, <2>5
  <1> QED BY <1>1, <1>2, EvalInvStep, PTL DEF Spec

-----------------------------------------------------------------------------
(* The trace of an agent's work.                                            *)

SpanStatus == {"open", "success", "error"}
Span == [type : Types, parent : Nat, children : Seq(Nat), result : [status : SpanStatus, tokens : Int]]

\* The spans form a forest in which parents are older, every span is listed where it hangs,
\* and the open ones are on the stack.
Forest ==
  /\ spans \in Seq(Span) /\ rootSpans \in Seq(Nat)
  /\ \A i \in DOMAIN spans : spans[i].parent < i
  /\ Trace!ListedByAge(rootSpans, {i \in DOMAIN spans : spans[i].parent = 0})
  /\ \A p \in DOMAIN spans : Trace!ListedByAge(spans[p].children, {i \in DOMAIN spans : spans[i].parent = p})
Stacked ==
  /\ spanStack \in Seq(Nat)
  /\ Trace!ListedByAge(spanStack, {i \in DOMAIN spans : spans[i].result.status = "open"})
TraceInv == Forest /\ Stacked

\* A step of the platform is a step of the trace, or leaves it alone.
LEMMA TraceStep == [Next]_vars => [Trace!TraceNext]_(Trace!traceVars)
  BY DEF Next, Others, vars, trace, Trace!traceVars

\* The sums behind a total.
LEMMA TotalOf ==
  ASSUME NEW numbers, NEW n \in Nat, Len(numbers) = n, \A k \in 1..n : numbers[k] \in Int
  PROVE  \E sums : /\ sums[0] = 0 /\ \A k \in 1..n : sums[k] = sums[k - 1] + numbers[k]
                   /\ \A k \in 0..n : sums[k] \in Int
                   /\ Trace!Total(numbers) = sums[n]
  <1> DEFINE sums == Eval!Sums(numbers)
             wrong == {k \in 0..n : sums[k] \notin Int}
  <1>1. \A k \in 0..n : sums[k] = IF k = 0 THEN 0 ELSE sums[k - 1] + numbers[k]
    <2>1. IsSums(sums, numbers, n)
      BY SumsAdd
    <2> HIDE DEF sums
    <2> QED BY <2>1 DEF IsSums
  <1>2. Trace!Total(numbers) = sums[n]
    BY DEF Trace!Total, Eval!Sums
  <1> HIDE DEF sums
  <1>3. wrong = {}
    <2> SUFFICES ASSUME wrong # {} PROVE FALSE
      OBVIOUS
    <2>1. PICK k \in wrong : \A l \in wrong : k <= l
      <3>1. wrong \in SUBSET Nat
        OBVIOUS
      <3> QED BY <3>1, LeastNumber
    <2>2. k \in 0..n /\ sums[k] \notin Int
      OBVIOUS
    <2>3. CASE k = 0
      BY <1>1, <2>2, <2>3
    <2>4. CASE k # 0
      <3>1. k - 1 \in 0..n /\ k \in 1..n /\ k - 1 \notin wrong
        BY <2>1, <2>2, <2>4
      <3>2. sums[k] = sums[k - 1] + numbers[k]
        BY <1>1, <2>2, <2>4
      <3> QED BY <2>2, <3>1, <3>2
    <2> QED BY <2>3, <2>4
  <1>4. sums[0] = 0 /\ \A k \in 1..n : sums[k] = sums[k - 1] + numbers[k]
    BY <1>1
  <1>5. \A k \in 0..n : sums[k] \in Int
    BY <1>3
  <1> QED BY <1>2, <1>4, <1>5

LEMMA TotalIsNumber ==
  ASSUME NEW numbers, NEW n \in Nat, Len(numbers) = n, \A k \in 1..n : numbers[k] \in Int
  PROVE  Trace!Total(numbers) \in Int
  <1>1. PICK sums : /\ \A k \in 0..n : sums[k] \in Int
                    /\ Trace!Total(numbers) = sums[n]
    BY TotalOf
  <1> QED BY <1>1

\* Totals of lists that are added entry by entry.
LEMMA TotalsAdd ==
  ASSUME NEW one, NEW other, NEW both, NEW n \in Nat, Len(one) = n, Len(other) = n, Len(both) = n,
         \A k \in 1..n : one[k] \in Int /\ other[k] \in Int /\ both[k] = one[k] + other[k]
  PROVE  /\ Trace!Total(one) \in Int /\ Trace!Total(other) \in Int
         /\ Trace!Total(both) = Trace!Total(one) + Trace!Total(other)
  <1>1. PICK x : /\ x[0] = 0 /\ \A k \in 1..n : x[k] = x[k - 1] + one[k]
                 /\ \A k \in 0..n : x[k] \in Int
                 /\ Trace!Total(one) = x[n]
    BY TotalOf
  <1>2. PICK y : /\ y[0] = 0 /\ \A k \in 1..n : y[k] = y[k - 1] + other[k]
                 /\ \A k \in 0..n : y[k] \in Int
                 /\ Trace!Total(other) = y[n]
    BY TotalOf
  <1>3. PICK z : /\ z[0] = 0 /\ \A k \in 1..n : z[k] = z[k - 1] + both[k]
                 /\ \A k \in 0..n : z[k] \in Int
                 /\ Trace!Total(both) = z[n]
    <2>1. \A k \in 1..n : both[k] \in Int
      OBVIOUS
    <2> QED BY <2>1, TotalOf
  <1> DEFINE wrong == {k \in 0..n : z[k] # x[k] + y[k]}
  <1>4. wrong = {}
    <2> SUFFICES ASSUME wrong # {} PROVE FALSE
      OBVIOUS
    <2>1. PICK k \in wrong : \A l \in wrong : k <= l
      <3>1. wrong \in SUBSET Nat
        OBVIOUS
      <3> QED BY <3>1, LeastNumber
    <2>2. k \in 0..n /\ z[k] # x[k] + y[k]
      OBVIOUS
    <2>3. k # 0
      BY <1>1, <1>2, <1>3, <2>2
    <2>4. k - 1 \in 0..n /\ k \in 1..n /\ k - 1 \notin wrong
      BY <2>1, <2>2, <2>3
    <2>5. z[k - 1] = x[k - 1] + y[k - 1]
      BY <2>4
    <2>6. /\ z[k] = z[k - 1] + both[k] /\ x[k] = x[k - 1] + one[k] /\ y[k] = y[k - 1] + other[k]
          /\ x[k - 1] \in Int /\ y[k - 1] \in Int /\ both[k] = one[k] + other[k] /\ one[k] \in Int /\ other[k] \in Int
      BY <1>1, <1>2, <1>3, <2>4
    <2> QED BY SMTT(30), <2>2, <2>5, <2>6
  <1>5. z[n] = x[n] + y[n]
    BY <1>4
  <1> QED BY <1>1, <1>2, <1>3, <1>5

LEMMA TotalOfOne ==
  ASSUME NEW numbers, Len(numbers) = 1, numbers[1] \in Int
  PROVE  Trace!Total(numbers) = numbers[1]
  <1> DEFINE n == 1
  <1>1. n \in Nat /\ Len(numbers) = n /\ \A k \in 1..n : numbers[k] \in Int
    OBVIOUS
  <1>2. 1 \in 1..n /\ 1 - 1 = 0 /\ n = 1
    OBVIOUS
  <1> HIDE DEF n
  <1>3. PICK x : /\ x[0] = 0 /\ \A k \in 1..n : x[k] = x[k - 1] + numbers[k]
                 /\ \A k \in 0..n : x[k] \in Int
                 /\ Trace!Total(numbers) = x[n]
    BY <1>1, TotalOf
  <1>4. x[1] = x[1 - 1] + numbers[1]
    BY <1>2, <1>3
  <1> QED BY <1>2, <1>3, <1>4

\* Nothing adds up to nothing.
LEMMA NothingAdds ==
  ASSUME NEW numbers, NEW n \in Nat, Len(numbers) = n, \A k \in 1..n : numbers[k] = 0
  PROVE  Trace!Total(numbers) = 0
  <1>1. Trace!Total(numbers) \in Int /\ Trace!Total(numbers) = Trace!Total(numbers) + Trace!Total(numbers)
    BY TotalsAdd
  <1> QED BY <1>1

\* What the numbers are at some places, and nothing elsewhere.
Masked(numbers, S, n) == [i \in 1..n |-> IF i \in S THEN numbers[i] ELSE 0]

\* A total over a list of ids is one over all numbers, with nothing for those not listed.
LEMMA ListedTotal ==
  ASSUME NEW n \in Nat, NEW numbers, \A i \in 1..n : numbers[i] \in Int,
         NEW S \in SUBSET (1..n), NEW ids \in Seq(Nat), Trace!ListedByAge(ids, S)
  PROVE  Trace!Total([k \in DOMAIN ids |-> numbers[ids[k]]]) = Trace!Total(Masked(numbers, S, n))
  <1> DEFINE size   == Len(ids)
             chosen == [k \in DOMAIN ids |-> numbers[ids[k]]]
             all    == Masked(numbers, S, n)
  <1>1. size \in Nat /\ DOMAIN ids = 1..size /\ \A k \in 1..size : ids[k] \in Nat
    OBVIOUS
  <1>2. /\ \A k \in 1..size : ids[k] \in S /\ ids[k] \in 1..n
        /\ \A i \in S : \E k \in 1..size : ids[k] = i
        /\ \A k, l \in 1..size : k < l => ids[k] < ids[l]
    BY <1>1 DEF Trace!ListedByAge
  <1> HIDE DEF size
  <1>3. Len(chosen) = size /\ \A k \in 1..size : chosen[k] = numbers[ids[k]] /\ chosen[k] \in Int
    BY <1>1, <1>2
  <1>4. Len(all) = n /\ \A i \in 1..n : all[i] = (IF i \in S THEN numbers[i] ELSE 0) /\ all[i] \in Int
    BY DEF Masked
  <1> HIDE DEF chosen, all
  <1>5. PICK x : /\ x[0] = 0 /\ \A k \in 1..size : x[k] = x[k - 1] + chosen[k]
                 /\ \A k \in 0..size : x[k] \in Int
                 /\ Trace!Total(chosen) = x[size]
    BY <1>1, <1>3, TotalOf
  <1>6. PICK y : /\ y[0] = 0 /\ \A k \in 1..n : y[k] = y[k - 1] + all[k]
                 /\ \A k \in 0..n : y[k] \in Int
                 /\ Trace!Total(all) = y[n]
    BY <1>4, TotalOf
  <1> DEFINE Upto(k, m) == (\A l \in 1..size : ids[l] <= m <=> l <= k) /\ y[m] = x[k]
             wrong == {m \in 0..n : ~(\E k \in 0..size : Upto(k, m))}
  <1>7. wrong = {}
    <2> SUFFICES ASSUME wrong # {} PROVE FALSE
      OBVIOUS
    <2>1. PICK m \in wrong : \A l \in wrong : m <= l
      <3>1. wrong \in SUBSET Nat
        OBVIOUS
      <3> QED BY <3>1, LeastNumber
    <2>2. m \in 0..n /\ ~(\E k \in 0..size : Upto(k, m))
      OBVIOUS
    <2>3. m # 0
      <3> SUFFICES ASSUME m = 0 PROVE FALSE
        OBVIOUS
      <3>1. \A l \in 1..size : ids[l] <= 0 <=> l <= 0
        BY <1>1, <1>2
      <3>2. Upto(0, m) /\ 0 \in 0..size
        BY <1>1, <1>5, <1>6, <3>1
      <3> QED BY <2>2, <3>2
    <2>4. m - 1 \in 0..n /\ m \in 1..n /\ m - 1 \notin wrong
      BY <2>1, <2>2, <2>3
    <2>5. PICK k \in 0..size : Upto(k, m - 1)
      BY <2>4
    <2>6. \A l \in 1..size : ids[l] <= m - 1 <=> l <= k
      BY <2>5
    <2>7. y[m - 1] = x[k] /\ y[m] = y[m - 1] + all[m] /\ y[m - 1] \in Int /\ x[k] \in Int
      BY <1>5, <1>6, <2>4, <2>5
    <2> HIDE DEF Upto
    <2>8. CASE m \in S
      <3>1. PICK l \in 1..size : ids[l] = m
        BY <1>2, <2>8
      <3>2. l > k
        BY <2>4, <2>6, <3>1
      <3>3. l = k + 1
        <4> SUFFICES ASSUME l > k + 1 PROVE FALSE
          BY <1>1, <3>2
        <4>1. k + 1 \in 1..size
          BY <1>1
        <4>2. ids[k + 1] < m
          BY <1>2, <3>1, <4>1
        <4>3. ids[k + 1] <= m - 1
          BY <1>1, <2>4, <4>1, <4>2
        <4> QED BY <2>6, <4>1, <4>3
      <3>4. \A o \in 1..size : ids[o] <= m <=> o <= k + 1
        <4> TAKE o \in 1..size
        <4>1. CASE o <= k
          BY <1>1, <2>4, <2>6, <4>1
        <4>2. CASE o = k + 1
          BY <1>1, <2>4, <3>1, <3>3, <4>2
        <4>3. CASE o > k + 1
          <5>1. m < ids[o]
            BY <1>2, <3>1, <3>3, <4>3
          <5> QED BY <1>1, <2>4, <4>3, <5>1
        <4> QED BY <1>1, <4>1, <4>2, <4>3
      <3>5. x[k + 1] = x[k] + numbers[m] /\ all[m] = numbers[m]
        <4>1. k + 1 \in 1..size /\ (k + 1) - 1 = k
          BY <1>1, <3>1, <3>3
        <4>2. chosen[k + 1] = numbers[m]
          BY <1>3, <3>1, <3>3, <4>1
        <4>3. x[k + 1] = x[k] + chosen[k + 1]
          BY <1>5, <4>1
        <4> QED BY <1>4, <2>4, <2>8, <4>2, <4>3
      <3>6. y[m] = x[k + 1] /\ k + 1 \in 0..size
        BY <1>1, <2>7, <3>1, <3>3, <3>5
      <3>7. Upto(k + 1, m)
        BY <3>4, <3>6 DEF Upto
      <3> QED BY <2>2, <3>6, <3>7
    <2>9. CASE m \notin S
      <3>1. \A l \in 1..size : ids[l] <= m <=> l <= k
        <4> TAKE l \in 1..size
        <4>1. ids[l] # m /\ ids[l] \in Nat
          BY <1>1, <1>2, <2>9
        <4>2. ids[l] <= m <=> ids[l] <= m - 1
          BY <2>4, <4>1
        <4> QED BY <2>6, <4>2
      <3>2. y[m] = x[k]
        BY <1>4, <2>4, <2>7, <2>9
      <3>3. Upto(k, m)
        BY <3>1, <3>2 DEF Upto
      <3> QED BY <2>2, <3>3
    <2> QED BY <2>8, <2>9
  <1>8. PICK k \in 0..size : Upto(k, n)
    BY <1>7
  <1>9. k = size
    <2> SUFFICES ASSUME k # size PROVE FALSE
      OBVIOUS
    <2>1. size \in 1..size /\ ids[size] <= n /\ ~(size <= k)
      BY <1>1, <1>2
    <2> QED BY <1>8, <2>1
  <1>10. x[size] = y[n]
    BY <1>8, <1>9
  <1> QED BY <1>5, <1>6, <1>10 DEF chosen, all

\* A walk with another amount for one span.
LEMMA WalkUpdated ==
  ASSUME NEW n, NEW walk \in [1..n -> Int], NEW id \in 1..n, NEW amount \in Int
  PROVE  /\ [walk EXCEPT ![id] = amount] \in [1..n -> Int]
         /\ [walk EXCEPT ![id] = amount][id] = amount
         /\ \A i \in 1..n : i # id => [walk EXCEPT ![id] = amount][i] = walk[i]
  OBVIOUS

\* What walkSpans adds for a span whose children's amounts are known.
Below(amounts, walked, id) ==
  amounts[id] + Trace!Total([k \in DOMAIN spans[id].children |-> walked[spans[id].children[k]]])

\* The children of a span are spans, younger than it.
LEMMA ChildrenAreYounger ==
  ASSUME Forest, NEW id \in DOMAIN spans
  PROVE  /\ spans[id].children \in Seq(Nat)
         /\ \A k \in DOMAIN spans[id].children :
              spans[id].children[k] \in DOMAIN spans /\ spans[id].children[k] > id
  <1>1. DOMAIN spans = 1..Len(spans) /\ Len(spans) \in Nat
    BY DEF Forest
  <1>2. Trace!ListedByAge(spans[id].children, {i \in DOMAIN spans : spans[i].parent = id})
    BY DEF Forest
  <1>3. \A k \in DOMAIN spans[id].children :
          spans[id].children[k] \in {i \in DOMAIN spans : spans[i].parent = id}
    BY <1>2 DEF Trace!ListedByAge
  <1>4. \A i \in DOMAIN spans : spans[i].parent < i
    BY DEF Forest
  <1>5. spans[id].children \in Seq(Nat)
    <2>1. spans[id] \in Span
      BY DEF Forest
    <2> QED BY <2>1 DEF Span
  <1> QED BY <1>1, <1>3, <1>4, <1>5

\* Two walks that agree on the younger spans add the same for a span, and numbers add up to one.
LEMMA BelowAgrees ==
  ASSUME Forest, NEW amounts, \A i \in DOMAIN spans : amounts[i] \in Int,
         NEW id \in DOMAIN spans, NEW walked,
         \A i \in DOMAIN spans : i > id => walked[i] \in Int
  PROVE  /\ Below(amounts, walked, id) \in Int
         /\ \A other : (\A i \in DOMAIN spans : i > id => other[i] = walked[i]) =>
                         Below(amounts, other, id) = Below(amounts, walked, id)
  <1> DEFINE kids == spans[id].children
             list(walk) == [k \in DOMAIN kids |-> walk[kids[k]]]
  <1>1. kids \in Seq(Nat) /\ \A k \in DOMAIN kids : kids[k] \in DOMAIN spans /\ kids[k] > id
    BY ChildrenAreYounger
  <1>2. Below(amounts, walked, id) = amounts[id] + Trace!Total(list(walked))
    BY DEF Below
  <1>3. \A other : Below(amounts, other, id) = amounts[id] + Trace!Total(list(other))
    BY DEF Below
  <1> HIDE DEF kids
  <1>4. Trace!Total(list(walked)) \in Int
    <2>1. Len(kids) \in Nat /\ DOMAIN kids = 1..Len(kids)
      BY <1>1
    <2>2. Len(list(walked)) = Len(kids) /\ \A k \in 1..Len(kids) : list(walked)[k] \in Int
      BY <1>1, <2>1
    <2> HIDE DEF list
    <2> QED BY <2>1, <2>2, TotalIsNumber
  <1>5. ASSUME NEW other, \A i \in DOMAIN spans : i > id => other[i] = walked[i]
        PROVE  list(other) = list(walked)
    BY <1>1, <1>5
  <1> HIDE DEF list
  <1>6. \A other : (\A i \in DOMAIN spans : i > id => other[i] = walked[i]) =>
                     Below(amounts, other, id) = Below(amounts, walked, id)
    BY <1>2, <1>3, <1>5
  <1> QED BY <1>2, <1>4, <1>6

\* The walk exists: it is found span by span, from the youngest.
LEMMA WalkExists ==
  ASSUME Forest, NEW amounts, \A i \in DOMAIN spans : amounts[i] \in Int
  PROVE  \E walk : walk = [id \in DOMAIN spans |-> Below(amounts, walk, id)]
  <1> DEFINE n == Len(spans)
             Found(walk, m) == /\ walk \in [1..n -> Int]
                               /\ \A id \in 1..n : id > n - m => walk[id] = Below(amounts, walk, id)
             wrong == {m \in 0..n : ~\E walk : Found(walk, m)}
  <1>1. n \in Nat /\ DOMAIN spans = 1..n
    BY DEF Forest
  <1> HIDE DEF n
  <1>2. wrong = {}
    <2> SUFFICES ASSUME wrong # {} PROVE FALSE
      OBVIOUS
    <2>1. PICK m \in wrong : \A l \in wrong : m <= l
      <3>1. wrong \in SUBSET Nat
        OBVIOUS
      <3> QED BY <3>1, LeastNumber
    <2>2. m \in 0..n /\ ~\E walk : Found(walk, m)
      OBVIOUS
    <2>3. m # 0
      <3>1. Found([i \in 1..n |-> 0], 0)
        BY <1>1
      <3> QED BY <2>2, <3>1
    <2>4. m - 1 \in 0..n
      BY <1>1, <2>2, <2>3
    <2>5. PICK walk : Found(walk, m - 1)
      <3> SUFFICES ASSUME ~\E walk : Found(walk, m - 1) PROVE FALSE
        OBVIOUS
      <3> HIDE DEF Found
      <3>1. m - 1 \in wrong
        BY <2>4
      <3> HIDE DEF wrong
      <3> QED BY <2>1, <2>2, <2>4, <3>1
    <2> DEFINE id == n - (m - 1)
    <2>6. /\ id \in 1..n
          /\ \A i \in 1..n : i > n - m <=> i = id \/ i > id
      BY <1>1, <2>2, <2>3
    <2>7. /\ walk \in [1..n -> Int]
          /\ \A i \in 1..n : i > id => walk[i] = Below(amounts, walk, i)
      BY <2>5
    <2> HIDE DEF id, Found
    <2> DEFINE more == [walk EXCEPT ![id] = Below(amounts, walk, id)]
    <2>8. Below(amounts, walk, id) \in Int
      BY <1>1, <2>6, <2>7, BelowAgrees
    <2>9. /\ more \in [1..n -> Int] /\ more[id] = Below(amounts, walk, id)
          /\ \A i \in 1..n : i # id => more[i] = walk[i]
      BY <2>6, <2>7, <2>8, WalkUpdated
    <2> HIDE DEF more
    <2>10. ASSUME NEW i \in 1..n, i = id \/ i > id
           PROVE  Below(amounts, more, i) = Below(amounts, walk, i)
      <3>1. \A j \in DOMAIN spans : j > i => more[j] = walk[j] /\ walk[j] \in Int
        BY <1>1, <2>6, <2>7, <2>9, <2>10
      <3> QED BY <1>1, <3>1, BelowAgrees
    <2>11. Found(more, m)
      BY <2>6, <2>7, <2>9, <2>10 DEF Found
    <2> QED BY <2>2, <2>11
  <1> HIDE DEF Found
  <1>3. PICK walk : Found(walk, n)
    <2>1. n \in 0..n
      BY <1>1
    <2> QED BY <1>2, <2>1
  <1>4. walk \in [1..n -> Int] /\ \A id \in 1..n : walk[id] = Below(amounts, walk, id)
    BY <1>1, <1>3 DEF Found
  <1>5. walk = [id \in 1..n |-> Below(amounts, walk, id)]
    BY <1>4
  <1> QED BY <1>1, <1>5

\* It is what walkSpans adds up at the roots.
LEMMA WalkOf ==
  ASSUME Forest, NEW amounts, \A i \in DOMAIN spans : amounts[i] \in Int
  PROVE  \E walk : /\ \A i \in DOMAIN spans : walk[i] \in Int /\ walk[i] = Below(amounts, walk, i)
                   /\ Trace!WalkSpans(amounts) = Trace!Total([k \in DOMAIN rootSpans |-> walk[rootSpans[k]]])
  <1> DEFINE n == Len(spans)
             walk == CHOOSE w : w = [id \in DOMAIN spans |-> Below(amounts, w, id)]
             wrong == {m \in Nat : m < n /\ walk[n - m] \notin Int}
  <1>1. n \in Nat /\ DOMAIN spans = 1..n
    BY DEF Forest
  <1>2. walk = [id \in DOMAIN spans |-> Below(amounts, walk, id)]
    BY WalkExists
  <1>3. Trace!WalkSpans(amounts) = Trace!Total([k \in DOMAIN rootSpans |-> walk[rootSpans[k]]])
    BY DEF Trace!WalkSpans, Below
  <1> HIDE DEF walk, n
  <1>4. \A i \in DOMAIN spans : walk[i] = Below(amounts, walk, i)
    BY <1>2
  <1>5. wrong = {}
    <2> SUFFICES ASSUME wrong # {} PROVE FALSE
      OBVIOUS
    <2>1. PICK m \in wrong : \A l \in wrong : m <= l
      BY LeastNumber
    <2>2. m \in Nat /\ m < n /\ walk[n - m] \notin Int /\ n - m \in DOMAIN spans
      BY <1>1
    <2>3. ASSUME NEW i \in DOMAIN spans, i > n - m PROVE walk[i] \in Int
      <3>1. n - i \in Nat /\ n - i < n /\ n - i < m /\ n - (n - i) = i
        BY <1>1, <2>2, <2>3
      <3>2. n - i \notin wrong
        BY <2>1, <2>2, <3>1
      <3> QED BY <3>1, <3>2
    <2>4. Below(amounts, walk, n - m) \in Int
      BY <2>2, <2>3, BelowAgrees
    <2> QED BY <1>4, <2>2, <2>4
  <1>6. ASSUME NEW i \in DOMAIN spans PROVE walk[i] \in Int
    <2>1. n - i \in Nat /\ n - i < n /\ n - (n - i) = i
      BY <1>1
    <2> QED BY <1>5, <2>1
  <1> QED BY <1>3, <1>4, <1>6

\* Counted from the roots, every span is counted once.
LEMMA MaskedNumbers ==
  ASSUME NEW n \in Nat, NEW numbers, \A i \in 1..n : numbers[i] \in Int, NEW S
  PROVE  /\ Len(Masked(numbers, S, n)) = n
         /\ \A i \in 1..n : Masked(numbers, S, n)[i] = (IF i \in S THEN numbers[i] ELSE 0)
         /\ \A i \in 1..n : Masked(numbers, S, n)[i] \in Int
         /\ Trace!Total(Masked(numbers, S, n)) \in Int
  <1>1. /\ Len(Masked(numbers, S, n)) = n
        /\ \A i \in 1..n : Masked(numbers, S, n)[i] = (IF i \in S THEN numbers[i] ELSE 0)
    BY DEF Masked
  <1>2. \A i \in 1..n : Masked(numbers, S, n)[i] \in Int
    BY <1>1
  <1> HIDE DEF Masked
  <1>3. Trace!Total(Masked(numbers, S, n)) \in Int
    BY <1>1, <1>2, TotalIsNumber
  <1> QED BY <1>1, <1>2, <1>3

LEMMA NothingMasked ==
  ASSUME NEW n \in Nat, NEW numbers, \A i \in 1..n : numbers[i] \in Int, NEW S, \A i \in 1..n : i \notin S
  PROVE  Trace!Total(Masked(numbers, S, n)) = 0
  <1>1. Len(Masked(numbers, S, n)) = n /\ \A i \in 1..n : Masked(numbers, S, n)[i] = 0
    BY MaskedNumbers
  <1> QED BY <1>1, NothingAdds

\* Two ways to part the same numbers in two have totals that add up alike.
PartAlike(A, B, C, D, n) ==
  \A i \in 1..n : /\ ~(i \in A /\ i \in B) /\ ~(i \in C /\ i \in D)
                  /\ i \in A \/ i \in B <=> i \in C \/ i \in D

LEMMA PartsAdd ==
  ASSUME NEW n \in Nat, NEW numbers, \A i \in 1..n : numbers[i] \in Int, NEW A, NEW B, NEW C, NEW D,
         PartAlike(A, B, C, D, n)
  PROVE  Trace!Total(Masked(numbers, A, n)) + Trace!Total(Masked(numbers, B, n))
           = Trace!Total(Masked(numbers, C, n)) + Trace!Total(Masked(numbers, D, n))
  <1> DEFINE a == Masked(numbers, A, n)
             b == Masked(numbers, B, n)
             c == Masked(numbers, C, n)
             d == Masked(numbers, D, n)
             both == [i \in 1..n |-> a[i] + b[i]]
  <1>1. /\ Len(a) = n /\ \A i \in 1..n : a[i] = (IF i \in A THEN numbers[i] ELSE 0) /\ a[i] \in Int
        /\ Len(b) = n /\ \A i \in 1..n : b[i] = (IF i \in B THEN numbers[i] ELSE 0) /\ b[i] \in Int
        /\ Len(c) = n /\ \A i \in 1..n : c[i] = (IF i \in C THEN numbers[i] ELSE 0) /\ c[i] \in Int
        /\ Len(d) = n /\ \A i \in 1..n : d[i] = (IF i \in D THEN numbers[i] ELSE 0) /\ d[i] \in Int
    BY MaskedNumbers
  <1> HIDE DEF a, b, c, d
  <1>2. Len(both) = n /\ \A i \in 1..n : both[i] = a[i] + b[i]
    OBVIOUS
  <1> HIDE DEF both
  <1>3. \A i \in 1..n : both[i] = c[i] + d[i]
    <2> TAKE i \in 1..n
    <2>1. /\ a[i] = (IF i \in A THEN numbers[i] ELSE 0) /\ b[i] = (IF i \in B THEN numbers[i] ELSE 0)
          /\ c[i] = (IF i \in C THEN numbers[i] ELSE 0) /\ d[i] = (IF i \in D THEN numbers[i] ELSE 0)
          /\ both[i] = a[i] + b[i] /\ numbers[i] \in Int
      BY <1>1, <1>2
    <2>2. /\ ~(i \in A /\ i \in B) /\ ~(i \in C /\ i \in D)
          /\ i \in A \/ i \in B <=> i \in C \/ i \in D
      BY DEF PartAlike
    <2> QED BY <2>1, <2>2
  <1>4. Trace!Total(both) = Trace!Total(a) + Trace!Total(b)
    BY <1>1, <1>2, TotalsAdd
  <1>5. Trace!Total(both) = Trace!Total(c) + Trace!Total(d)
    <2>1. \A i \in 1..n : c[i] \in Int /\ d[i] \in Int /\ both[i] = c[i] + d[i]
      BY <1>1, <1>3
    <2> QED BY ZenonT(30), <1>1, <1>2, <2>1, TotalsAdd
  <1> QED BY <1>4, <1>5 DEF a, b, c, d

LEMMA CountedOnce ==
  ASSUME Forest, NEW amounts, amounts \in [DOMAIN spans -> Int]
  PROVE  Trace!WalkSpans(amounts) = Trace!Total(amounts)
  <1> DEFINE n == Len(spans)
             Front(m) == {i \in 1..n : i >= m /\ spans[i].parent < m}
             Kids(m)  == {i \in 1..n : spans[i].parent = m}
             Rest(m)  == m..n
  <1>1. /\ n \in Nat /\ DOMAIN spans = 1..n /\ rootSpans \in Seq(Nat)
        /\ \A i \in 1..n : spans[i].parent < i /\ spans[i].parent \in Nat /\ spans[i].children \in Seq(Nat)
    <2>1. n \in Nat /\ DOMAIN spans = 1..n /\ rootSpans \in Seq(Nat)
      BY DEF Forest
    <2>2. ASSUME NEW i \in 1..n
          PROVE  spans[i].parent < i /\ spans[i].parent \in Nat /\ spans[i].children \in Seq(Nat)
      <3>1. spans[i] \in Span
        BY <2>1 DEF Forest
      <3> QED BY <2>1, <3>1 DEF Forest, Span
    <2> QED BY <2>1, <2>2
  <1>2. /\ Trace!ListedByAge(rootSpans, {i \in 1..n : spans[i].parent = 0})
        /\ \A p \in 1..n : Trace!ListedByAge(spans[p].children, Kids(p))
    BY <1>1 DEF Forest
  <1>3. PICK walk : /\ \A i \in DOMAIN spans : walk[i] \in Int /\ walk[i] = Below(amounts, walk, i)
                    /\ Trace!WalkSpans(amounts) = Trace!Total([k \in DOMAIN rootSpans |-> walk[rootSpans[k]]])
    BY WalkOf
  <1> HIDE DEF n
  <1>4. \A i \in 1..n : walk[i] \in Int /\ amounts[i] \in Int
    BY <1>1, <1>3
  <1>a. n \in Nat
    BY <1>1
  <1>b. \A i \in 1..n : walk[i] \in Int
    BY <1>4
  <1>c. \A i \in 1..n : amounts[i] \in Int
    BY <1>4
  <1>5. ASSUME NEW S
        PROVE  Trace!Total(Masked(walk, S, n)) \in Int /\ Trace!Total(Masked(amounts, S, n)) \in Int
    BY <1>1, <1>4, MaskedNumbers
  <1>6. ASSUME NEW numbers, \A i \in 1..n : numbers[i] \in Int, NEW m \in 1..n
        PROVE  Trace!Total(Masked(numbers, {m}, n)) = numbers[m]
    <2> DEFINE single == [k \in DOMAIN <<m>> |-> numbers[<<m>>[k]]]
    <2>1. Trace!ListedByAge(<<m>>, {m}) /\ <<m>> \in Seq(Nat)
      BY <1>1 DEF Trace!ListedByAge
    <2>2. Trace!Total(single) = Trace!Total(Masked(numbers, {m}, n))
      BY <1>1, <1>6, <2>1, ListedTotal
    <2>3. Len(single) = 1 /\ single[1] = numbers[m] /\ numbers[m] \in Int
      BY <1>6
    <2> HIDE DEF single
    <2>4. Trace!Total(single) = single[1]
      BY <2>3, TotalOfOne
    <2> QED BY <2>2, <2>3, <2>4
  <1>7. ASSUME NEW m \in 1..n PROVE walk[m] = amounts[m] + Trace!Total(Masked(walk, Kids(m), n))
    <2>1. Trace!Total([k \in DOMAIN spans[m].children |-> walk[spans[m].children[k]]])
            = Trace!Total(Masked(walk, Kids(m), n))
      <3>1. Kids(m) \in SUBSET (1..n)
        OBVIOUS
      <3> HIDE DEF Kids
      <3> QED BY <1>1, <1>2, <1>4, <3>1, ListedTotal
    <2>2. walk[m] = Below(amounts, walk, m)
      BY <1>1, <1>3
    <2> QED BY <2>1, <2>2 DEF Below
  <1>8. ASSUME NEW m \in 1..n
        PROVE  Trace!Total(Masked(walk, Front(m), n)) = Trace!Total(Masked(walk, Front(m + 1), n)) + amounts[m]
    <2>1. ASSUME NEW i \in 1..n
          PROVE  /\ i \in Front(m) <=> i = m \/ (i > m /\ spans[i].parent < m)
                 /\ i \in Front(m + 1) <=> i > m /\ (spans[i].parent < m \/ i \in Kids(m))
                 /\ i \in Kids(m) => i > m /\ ~(spans[i].parent < m)
      BY <1>1
    <2> DEFINE front == Trace!Total(Masked(walk, Front(m), n))
               next  == Trace!Total(Masked(walk, Front(m + 1), n))
               kids  == Trace!Total(Masked(walk, Kids(m), n))
               only  == {m}
               was   == Front(m)
               is    == Front(m + 1)
               new   == Kids(m)
    <2> HIDE DEF Front, Kids
    <2>2. PartAlike(was, new, is, only, n)
      BY <2>1 DEF PartAlike
    <2> DEFINE one == Trace!Total(Masked(walk, only, n))
    <2>4. one = amounts[m] + kids /\ one \in Int
      BY <1>4, <1>5, <1>6, <1>7
    <2> HIDE DEF only, was, is, new
    <2>3. front + kids = next + one
      <3>1. Trace!Total(Masked(walk, was, n)) + Trace!Total(Masked(walk, new, n))
              = Trace!Total(Masked(walk, is, n)) + Trace!Total(Masked(walk, only, n))
        BY <1>a, <1>b, <2>2, PartsAdd
      <3> QED BY <3>1 DEF was, new, is
    <2>5. front \in Int /\ next \in Int /\ kids \in Int /\ amounts[m] \in Int
      BY <1>4, <1>5
    <2> HIDE DEF front, next, kids, one
    <2>7. front + kids = next + (amounts[m] + kids)
      BY <2>3, <2>4
    <2>6. front = next + amounts[m]
      BY <2>5, <2>7
    <2> QED BY <2>6 DEF front, next
  <1>9. ASSUME NEW m \in 1..n
        PROVE  Trace!Total(Masked(amounts, Rest(m), n)) = Trace!Total(Masked(amounts, Rest(m + 1), n)) + amounts[m]
    <2> DEFINE rest  == Trace!Total(Masked(amounts, Rest(m), n))
               next  == Trace!Total(Masked(amounts, Rest(m + 1), n))
               none  == {}
               only  == {m}
               empty == Trace!Total(Masked(amounts, none, n))
               was   == Rest(m)
               is    == Rest(m + 1)
    <2>1. PartAlike(was, none, is, only, n)
      BY <1>1 DEF PartAlike
    <2>4. Trace!Total(Masked(amounts, only, n)) = amounts[m]
      BY <1>4, <1>6
    <2>7. \A i \in 1..n : i \notin none
      OBVIOUS
    <2> HIDE DEF Rest, was, is, none, only
    <2>2. rest + empty = next + Trace!Total(Masked(amounts, only, n))
      <3>1. Trace!Total(Masked(amounts, was, n)) + Trace!Total(Masked(amounts, none, n))
              = Trace!Total(Masked(amounts, is, n)) + Trace!Total(Masked(amounts, only, n))
        BY <1>a, <1>c, <2>1, PartsAdd
      <3> QED BY <3>1 DEF was, is
    <2>3. empty = 0
      BY <1>a, <1>c, <2>7, NothingMasked
    <2>5. rest \in Int /\ next \in Int /\ amounts[m] \in Int
      BY <1>4, <1>5
    <2> HIDE DEF rest, next, empty
    <2>6. rest = next + amounts[m]
      BY <2>2, <2>3, <2>4, <2>5
    <2> QED BY <2>6 DEF rest, next
  <1> DEFINE Differ(m) == Trace!Total(Masked(walk, Front(m), n)) # Trace!Total(Masked(amounts, Rest(m), n))
             wrong == {k \in 0..n : Differ(n + 1 - k)}
  <1>10. ~Differ(n + 1)
    <2>1. \A i \in 1..n : i \notin Front(n + 1) /\ i \notin Rest(n + 1)
      BY <1>1
    <2> HIDE DEF Front, Rest
    <2> DEFINE front == Front(n + 1)
               rest  == Rest(n + 1)
    <2>2. \A i \in 1..n : i \notin front /\ i \notin rest
      BY <2>1
    <2> HIDE DEF front, rest
    <2>3. Trace!Total(Masked(walk, front, n)) = 0
      BY <1>a, <1>b, <2>2, NothingMasked
    <2>4. Trace!Total(Masked(amounts, rest, n)) = 0
      BY <1>a, <1>c, <2>2, NothingMasked
    <2> QED BY <2>3, <2>4 DEF front, rest
  <1>11. wrong = {}
    <2> SUFFICES ASSUME wrong # {} PROVE FALSE
      OBVIOUS
    <2> HIDE DEF Front, Rest
    <2>1. PICK k \in wrong : \A l \in wrong : k <= l
      <3>1. wrong \in SUBSET Nat
        OBVIOUS
      <3> QED BY <3>1, LeastNumber
    <2>2. k \in 0..n /\ Differ(n + 1 - k)
      OBVIOUS
    <2> HIDE DEF Differ
    <2>3. k # 0
      BY <1>1, <1>10, <2>2
    <2> DEFINE m == n + 1 - k
    <2>4. m \in 1..n /\ k - 1 \in 0..n /\ n + 1 - (k - 1) = m + 1 /\ ~(k <= k - 1)
      BY <1>1, <2>2, <2>3
    <2>5. ~Differ(m + 1)
      <3>1. k - 1 \notin wrong
        <4> HIDE DEF wrong, m
        <4> QED BY <2>1, <2>4
      <3> QED BY <2>4, <3>1
    <2> HIDE DEF m, wrong
    <2>6. ~Differ(m)
      <3>1. /\ Trace!Total(Masked(walk, Front(m), n)) = Trace!Total(Masked(walk, Front(m + 1), n)) + amounts[m]
            /\ Trace!Total(Masked(amounts, Rest(m), n)) = Trace!Total(Masked(amounts, Rest(m + 1), n)) + amounts[m]
        BY <1>8, <1>9, <2>4
      <3> QED BY <2>5, <3>1 DEF Differ
    <2> QED BY <2>2, <2>6 DEF m
  <1>12. ~Differ(1)
    <2> HIDE DEF Differ
    <2>1. n \in 0..n /\ n + 1 - n = 1
      BY <1>1
    <2> QED BY <1>11, <2>1
  <1>13. Masked(amounts, Rest(1), n) = amounts
    BY <1>1 DEF Masked
  <1>14. Trace!WalkSpans(amounts) = Trace!Total(Masked(walk, Front(1), n))
    <2>1. Front(1) = {i \in 1..n : spans[i].parent = 0} /\ Front(1) \in SUBSET (1..n)
      BY <1>1
    <2> HIDE DEF Front
    <2> QED BY <1>1, <1>2, <1>3, <1>4, <2>1, ListedTotal
  <1> HIDE DEF Front, Rest
  <1> QED BY <1>12, <1>13, <1>14


\* A span added to a list of older ones.
LEMMA ListsAppended ==
  ASSUME NEW ids \in Seq(Nat), NEW S, Trace!ListedByAge(ids, S), NEW n \in Nat, \A i \in S : i < n
  PROVE  Append(ids, n) \in Seq(Nat) /\ Trace!ListedByAge(Append(ids, n), S \cup {n})
  <1> DEFINE more == Append(ids, n)
             size == Len(ids)
  <1>1. /\ \A k \in 1..size : ids[k] \in S /\ ids[k] \in Nat
        /\ \A i \in S : \E k \in 1..size : ids[k] = i
        /\ \A k, l \in 1..size : k < l => ids[k] < ids[l]
        /\ size \in Nat
    BY DEF Trace!ListedByAge
  <1>2. /\ more \in Seq(Nat) /\ DOMAIN more = 1..(size + 1)
        /\ \A k \in 1..size : more[k] = ids[k] 
        /\ more[size + 1] = n
    OBVIOUS
  <1> HIDE DEF more, size
  <1>3. {more[k] : k \in DOMAIN more} = S \cup {n}
    <2>1. ASSUME NEW k \in 1..(size + 1) PROVE more[k] \in S \cup {n}
      <3>1. k \in 1..size \/ k = size + 1
        BY <1>1
      <3> QED BY <1>1, <1>2, <3>1
    <2>2. ASSUME NEW i \in S \cup {n} PROVE \E k \in 1..(size + 1) : more[k] = i
      <3>1. CASE i \in S
        <4>1. PICK k \in 1..size : ids[k] = i
          BY <1>1, <3>1
        <4>2. k \in 1..(size + 1)
          BY <1>1
        <4> QED BY <1>2, <4>1, <4>2
      <3>2. CASE i = n
        <4>1. size + 1 \in 1..(size + 1)
          BY <1>1
        <4> QED BY <1>2, <3>2, <4>1
      <3> QED BY <3>1, <3>2
    <2> QED BY <1>2, <2>1, <2>2
  <1>4. ASSUME NEW k \in DOMAIN more, NEW l \in DOMAIN more, k < l PROVE more[k] < more[l]
    <2>1. k \in 1..size /\ (l \in 1..size \/ l = size + 1)
      BY <1>1, <1>2, <1>4
    <2> QED BY <1>1, <1>2, <1>4, <2>1
  <1> QED BY <1>2, <1>3, <1>4 DEF more, Trace!ListedByAge

\* A span taken from the stack.
LEMMA StackWithout ==
  ASSUME spanStack \in Seq(Nat), NEW S, Trace!ListedByAge(spanStack, S), NEW id
  PROVE  Trace!Unstacked(id) \in Seq(Nat) /\ Trace!ListedByAge(Trace!Unstacked(id), S \ {id})
  <1> DEFINE size  == Len(spanStack)
             found == {k \in DOMAIN spanStack : spanStack[k] = id}
  <1>1. /\ DOMAIN spanStack = 1..size /\ size \in Nat
        /\ \A k \in 1..size : spanStack[k] \in S /\ spanStack[k] \in Nat
        /\ \A i \in S : \E k \in 1..size : spanStack[k] = i
        /\ \A k, l \in 1..size : k < l => spanStack[k] < spanStack[l]
    BY DEF Trace!ListedByAge
  <1> HIDE DEF size
  <1>2. CASE found = {}
    <2>1. Trace!Unstacked(id) = spanStack
      BY <1>2 DEF Trace!Unstacked
    <2>2. id \notin S
      BY <1>1, <1>2
    <2>3. S \ {id} = S
      BY <2>2
    <2> QED BY <2>1, <2>3
  <1>3. CASE found # {}
    <2>1. PICK idx \in 1..size : spanStack[idx] = id
      BY <1>1, <1>3
    <2>2. \A k \in 1..size : k # idx => spanStack[k] # id
      <3> TAKE k \in 1..size
      <3>1. CASE k < idx
        BY <1>1, <2>1, <3>1
      <3>2. CASE idx < k
        BY <1>1, <2>1, <3>2
      <3> QED BY <1>1, <3>1, <3>2
    <2>3. found = {idx}
      BY <1>1, <2>1, <2>2
    <2>4. (CHOOSE k \in found : \A l \in found : l <= k) = idx
      BY <1>1, <2>3
    <2>5. Trace!Unstacked(id) = Trace!Removed(idx)
      BY <1>3, <2>4 DEF Trace!Unstacked
    <2> DEFINE fewer == Trace!Removed(idx)
    <2>6. /\ size - 1 \in Nat /\ DOMAIN fewer = 1..(size - 1) /\ Len(fewer) = size - 1
          /\ \A k \in 1..(size - 1) : fewer[k] = spanStack[IF k < idx THEN k ELSE k + 1]
          /\ fewer = [k \in 1..(size - 1) |-> fewer[k]]
      BY <1>1 DEF Trace!Removed, size
    <2> HIDE DEF found, fewer
    <2>7. ASSUME NEW k \in 1..(size - 1)
          PROVE  /\ (IF k < idx THEN k ELSE k + 1) \in 1..size
                 /\ (IF k < idx THEN k ELSE k + 1) # idx
      BY <1>1
    <2>8. \A k \in 1..(size - 1) : fewer[k] \in Nat /\ fewer[k] \in S \ {id}
      BY <1>1, <2>2, <2>6, <2>7
    <2>9. fewer \in Seq(Nat)
      <3>1. fewer \in [1..(size - 1) -> Nat]
        BY <2>6, <2>8
      <3> QED BY <2>6, <3>1, SeqDef
    <2>10. ASSUME NEW i \in S \ {id} PROVE \E k \in 1..(size - 1) : fewer[k] = i
      <3>1. PICK k \in 1..size : spanStack[k] = i
        BY <1>1
      <3>2. k # idx
        BY <2>1, <3>1
      <3>3. CASE k < idx
        <4>1. k \in 1..(size - 1)
          BY <1>1, <3>3
        <4> QED BY <2>6, <3>1, <3>3, <4>1
      <3>4. CASE k > idx
        <4>1. k - 1 \in 1..(size - 1) /\ ~(k - 1 < idx) /\ (k - 1) + 1 = k
          BY <1>1, <3>4
        <4>2. fewer[k - 1] = i
          BY <2>6, <3>1, <4>1
        <4> QED BY <4>1, <4>2
      <3> QED BY <1>1, <3>2, <3>3, <3>4
    <2>11. {fewer[k] : k \in DOMAIN fewer} = S \ {id}
      BY <2>6, <2>8, <2>10
    <2>12. ASSUME NEW k \in DOMAIN fewer, NEW l \in DOMAIN fewer, k < l PROVE fewer[k] < fewer[l]
      <3> DEFINE low  == IF k < idx THEN k ELSE k + 1
                 high == IF l < idx THEN l ELSE l + 1
      <3>1. k \in 1..(size - 1) /\ l \in 1..(size - 1)
        BY <2>6
      <3>2. low \in 1..size /\ high \in 1..size
        BY <2>7, <3>1
      <3>4. low < high
        <4>1. CASE l < idx
          <5>1. k < idx
            BY <1>1, <2>12, <3>1, <4>1
          <5> QED BY <2>12, <4>1, <5>1
        <4>2. CASE ~(l < idx)
          <5>1. high = l + 1 /\ (low = k \/ low = k + 1)
            BY <4>2
          <5>2. k \in Int /\ l \in Int /\ k < l
            BY <2>12, <3>1
          <5>3. k < l + 1 /\ k + 1 < l + 1
            BY <5>2
          <5> QED BY <5>1, <5>3
        <4> QED BY <4>1, <4>2
      <3>3. fewer[k] = spanStack[low] /\ fewer[l] = spanStack[high]
        BY <2>6, <3>1
      <3> HIDE DEF low, high
      <3> QED BY <1>1, <3>2, <3>3, <3>4
    <2> QED BY <2>5, <2>9, <2>11, <2>12 DEF fewer, Trace!ListedByAge
  <1> QED BY <1>2, <1>3

\* A span that changes in one field.
LEMMA SpanChanged ==
  ASSUME NEW span \in Span, NEW kids \in Seq(Nat), NEW res \in [status : SpanStatus, tokens : Int]
  PROVE  /\ [span EXCEPT !.children = kids] \in Span
         /\ [span EXCEPT !.children = kids].children = kids
         /\ [span EXCEPT !.children = kids].parent = span.parent
         /\ [span EXCEPT !.children = kids].result = span.result
         /\ [span EXCEPT !.result = res] \in Span
         /\ [span EXCEPT !.result = res].children = span.children
         /\ [span EXCEPT !.result = res].parent = span.parent
         /\ [span EXCEPT !.result = res].result = res
  BY DEF Span

\* The facts about the forest, span by span.
LEMMA ForestFacts ==
  ASSUME TraceInv
  PROVE  /\ Len(spans) \in Nat /\ DOMAIN spans = 1..Len(spans)
         /\ \A i \in 1..Len(spans) : /\ spans[i] \in Span /\ spans[i].parent < i /\ spans[i].parent \in Nat
                                     /\ spans[i].children \in Seq(Nat)
                                     /\ spans[i].result \in [status : SpanStatus, tokens : Int]
         /\ \A k \in DOMAIN spanStack : spanStack[k] \in 1..Len(spans)
  <1>1. Len(spans) \in Nat /\ DOMAIN spans = 1..Len(spans) /\ \A i \in 1..Len(spans) : spans[i] \in Span
    BY DEF TraceInv, Forest
  <1>2. \A i \in 1..Len(spans) : /\ spans[i].parent < i /\ spans[i].parent \in Nat
                                 /\ spans[i].children \in Seq(Nat)
                                 /\ spans[i].result \in [status : SpanStatus, tokens : Int]
    BY <1>1 DEF TraceInv, Forest, Span
  <1>3. ASSUME NEW k \in DOMAIN spanStack PROVE spanStack[k] \in 1..Len(spans)
    <2>1. spanStack[k] \in {i \in DOMAIN spans : spans[i].result.status = "open"}
      BY DEF TraceInv, Stacked, Trace!ListedByAge
    <2> QED BY <1>1, <2>1
  <1> QED BY <1>1, <1>2, <1>3

\* A span is started where it hangs.
LEMMA SpanStarted ==
  ASSUME TraceInv, NEW type \in Types, Trace!StartSpan(type)
  PROVE  TraceInv'
  <1> DEFINE n      == Len(spans)
             id     == n + 1
             parent == IF spanStack = <<>> THEN 0 ELSE spanStack[Len(spanStack)]
             span   == [type |-> type, parent |-> parent, children |-> <<>>, result |-> Trace!Open]
             known  == IF parent = 0 THEN spans
                       ELSE [spans EXCEPT ![parent] = [@ EXCEPT !.children = Append(spans[parent].children, id)]]
  <1>1. /\ n \in Nat /\ DOMAIN spans = 1..n
        /\ \A i \in 1..n : /\ spans[i] \in Span /\ spans[i].parent < i /\ spans[i].parent \in Nat
                           /\ spans[i].children \in Seq(Nat)
                           /\ spans[i].result \in [status : SpanStatus, tokens : Int]
    BY ForestFacts
  <1>2. parent \in 0..n
    <2>1. CASE spanStack = <<>>
      BY <1>1, <2>1
    <2>2. CASE spanStack # <<>>
      <3>1. Len(spanStack) \in DOMAIN spanStack
        BY <2>2 DEF TraceInv, Stacked
      <3>2. spanStack[Len(spanStack)] \in 1..n
        BY <3>1, ForestFacts
      <3> QED BY <1>1, <2>2, <3>2
    <2> QED BY <2>1, <2>2
  <1>3. span \in Span /\ span.parent = parent /\ span.children = <<>> /\ span.result.status = "open"
    BY <1>1, <1>2 DEF Span, Trace!Open, SpanStatus
  <1>4. /\ spans' = Append(known, span)
        /\ rootSpans' = (IF parent = 0 THEN Append(rootSpans, id) ELSE rootSpans)
        /\ spanStack' = Append(spanStack, id)
    BY DEF Trace!StartSpan
  <1> HIDE DEF parent, span, n
  <1>5. /\ known \in Seq(Span) /\ Len(known) = n
        /\ \A i \in 1..n : /\ known[i].parent = spans[i].parent /\ known[i].result = spans[i].result
                           /\ known[i].children = IF i = parent THEN Append(spans[i].children, id)
                                                   ELSE spans[i].children
    <2>1. CASE parent = 0
      BY <1>1, <2>1 DEF n, TraceInv, Forest
    <2>2. CASE parent # 0
      <3> DEFINE kids == Append(spans[parent].children, id)
                 new  == [spans[parent] EXCEPT !.children = kids]
      <3>1. parent \in 1..n /\ id \in Nat
        BY <1>1, <1>2, <2>2
      <3>2. kids \in Seq(Nat)
        BY <1>1, <3>1
      <3> HIDE DEF kids
      <3>3. /\ new \in Span /\ new.parent = spans[parent].parent /\ new.result = spans[parent].result
            /\ new.children = kids
        <4>1. spans[parent] \in Span /\ spans[parent].result \in [status : SpanStatus, tokens : Int]
          BY <1>1, <3>1
        <4> QED BY <3>2, <4>1, SpanChanged
      <3> HIDE DEF new
      <3>4. known = [spans EXCEPT ![parent] = new]
        BY <1>1, <2>2, <3>1 DEF kids, new
      <3>5. /\ known \in Seq(Span) /\ Len(known) = n /\ known[parent] = new
            /\ \A i \in 1..n : i # parent => known[i] = spans[i]
        <4>1. spans \in [1..n -> Span]
          BY <1>1 DEF n, TraceInv, Forest
        <4>2. /\ known \in [1..n -> Span] /\ known[parent] = new
              /\ \A i \in 1..n : i # parent => known[i] = spans[i]
          BY <3>1, <3>3, <3>4, <4>1
        <4> HIDE DEF known
        <4>3. known \in Seq(Span) /\ Len(known) = n
          BY <1>1, <4>2, SeqDef
        <4> QED BY <4>2, <4>3
      <3> HIDE DEF known
      <3> QED BY <3>1, <3>3, <3>5 DEF kids
    <2> QED BY <2>1, <2>2
  <1> HIDE DEF known
  <1>6. /\ spans' \in Seq(Span) /\ DOMAIN spans' = 1..(n + 1) /\ spans'[id] = span
        /\ \A i \in 1..n : spans'[i] = known[i]
    BY <1>1, <1>3, <1>4, <1>5
  <1>7. /\ \A i \in 1..(n + 1) : i \in 1..n \/ i = id
        /\ id \in 1..(n + 1) /\ id \in Nat /\ id \notin 1..n /\ \A i \in 1..n : i \in 1..(n + 1) /\ i < id
    BY <1>1
  <1> HIDE DEF id
  <1>8. \A i \in 1..(n + 1) : spans'[i].parent = IF i = id THEN parent ELSE spans[i].parent
    BY <1>3, <1>5, <1>6, <1>7
  <1>9. \A i \in DOMAIN spans' : spans'[i].parent < i
    BY <1>1, <1>2, <1>6, <1>7, <1>8 DEF id
  <1> DEFINE Kids(p) == {i \in 1..n : spans[i].parent = p}
  <1>10. \A p : {i \in 1..(n + 1) : spans'[i].parent = p} = IF p = parent THEN Kids(p) \cup {id} ELSE Kids(p)
    BY <1>7, <1>8
  <1>11. Trace!ListedByAge(rootSpans, Kids(0)) /\ \A p \in 1..n : Trace!ListedByAge(spans[p].children, Kids(p))
    BY <1>1 DEF TraceInv, Forest
  <1>12. \A p : \A i \in Kids(p) : i < id
    BY <1>7
  <1> HIDE DEF Kids
  <1>13. rootSpans' \in Seq(Nat) /\ Trace!ListedByAge(rootSpans', {i \in DOMAIN spans' : spans'[i].parent = 0})
    <2>1. rootSpans \in Seq(Nat)
      BY DEF TraceInv, Forest
    <2>2. CASE parent = 0
      <3>1. Append(rootSpans, id) \in Seq(Nat) /\ Trace!ListedByAge(Append(rootSpans, id), Kids(0) \cup {id})
        BY <1>7, <1>11, <1>12, <2>1, ListsAppended
      <3> QED BY <1>4, <1>6, <1>10, <2>2, <3>1
    <2>3. CASE parent # 0
      BY <1>4, <1>6, <1>10, <1>11, <2>1, <2>3
    <2> QED BY <2>2, <2>3
  <1>14. ASSUME NEW p \in DOMAIN spans'
         PROVE  Trace!ListedByAge(spans'[p].children, {i \in DOMAIN spans' : spans'[i].parent = p})
    <2>1. {i \in DOMAIN spans' : spans'[i].parent = p} = IF p = parent THEN Kids(p) \cup {id} ELSE Kids(p)
      BY <1>6, <1>10
    <2>2. CASE p \in 1..n /\ p = parent
      <3>1. spans'[p].children = Append(spans[p].children, id) /\ spans[p].children \in Seq(Nat)
        BY <1>1, <1>5, <1>6, <2>2
      <3>2. Trace!ListedByAge(spans[p].children, Kids(p))
        BY <1>11, <2>2
      <3>3. Trace!ListedByAge(Append(spans[p].children, id), Kids(p) \cup {id})
        BY <1>7, <1>12, <3>1, <3>2, ListsAppended
      <3> QED BY <2>1, <2>2, <3>1, <3>3
    <2>3. CASE p \in 1..n /\ p # parent
      <3>1. spans'[p].children = spans[p].children
        BY <1>5, <1>6, <2>3
      <3> QED BY <1>11, <2>1, <2>3, <3>1
    <2>4. CASE p = id
      <3>1. spans'[p].children = <<>>
        BY <1>3, <1>6, <2>4
      <3>2. Kids(p) = {} /\ p # parent
        BY <1>1, <1>2, <1>7, <2>4 DEF Kids, id
      <3>3. Trace!ListedByAge(<<>>, {})
        BY DEF Trace!ListedByAge
      <3> QED BY <2>1, <3>1, <3>2, <3>3
    <2> QED BY <1>6, <1>7, <2>2, <2>3, <2>4
  <1>15. Forest'
    BY <1>6, <1>9, <1>13, <1>14 DEF Forest, Trace!ListedByAge
  <1>16. Stacked'
    <2> DEFINE open == {i \in 1..n : spans[i].result.status = "open"}
    <2>1. spanStack \in Seq(Nat) /\ Trace!ListedByAge(spanStack, open)
      BY <1>1 DEF TraceInv, Stacked
    <2>2. \A i \in open : i < id
      BY <1>7
    <2>3. \A i \in 1..(n + 1) : spans'[i].result.status = IF i = id THEN "open" ELSE spans[i].result.status
      BY <1>3, <1>5, <1>6, <1>7
    <2>4. {i \in DOMAIN spans' : spans'[i].result.status = "open"} = open \cup {id}
      BY <1>6, <1>7, <2>3
    <2> HIDE DEF open
    <2>5. Append(spanStack, id) \in Seq(Nat) /\ Trace!ListedByAge(Append(spanStack, id), open \cup {id})
      BY <1>7, <2>1, <2>2, ListsAppended
    <2> QED BY <1>4, <2>4, <2>5 DEF Stacked, Trace!ListedByAge
  <1> QED BY <1>15, <1>16 DEF TraceInv

\* A span that ends leaves the stack, and hangs where it did.
LEMMA SpanEnded ==
  ASSUME TraceInv, NEW id \in DOMAIN spans, NEW status \in {"success", "error"}, NEW used \in Tokens,
         Trace!EndSpan(id, status, used)
  PROVE  TraceInv'
  <1> DEFINE n   == Len(spans)
             res == [status |-> status, tokens |-> used]
             new == [spans[id] EXCEPT !.result = res]
  <1>1. /\ n \in Nat /\ DOMAIN spans = 1..n
        /\ \A i \in 1..n : /\ spans[i] \in Span /\ spans[i].parent < i /\ spans[i].parent \in Nat
                           /\ spans[i].children \in Seq(Nat)
                           /\ spans[i].result \in [status : SpanStatus, tokens : Int]
    BY ForestFacts
  <1>2. res \in [status : SpanStatus, tokens : Int] /\ res.status # "open"
    BY TraceAssumption DEF SpanStatus
  <1>3. /\ spans' = [spans EXCEPT ![id] = [@ EXCEPT !.result = res]]
        /\ spanStack' = Trace!Unstacked(id) /\ rootSpans' = rootSpans
    BY DEF Trace!EndSpan
  <1> HIDE DEF res
  <1>4. /\ new \in Span /\ new.parent = spans[id].parent /\ new.children = spans[id].children /\ new.result = res
    <2>1. <<>> \in Seq(Nat) /\ spans[id] \in Span
      BY <1>1
    <2> QED BY ZenonT(30), <1>2, <2>1, SpanChanged
  <1> HIDE DEF new, n
  <1>5. /\ spans' \in Seq(Span) /\ DOMAIN spans' = 1..n /\ spans'[id] = new
        /\ \A i \in 1..n : i # id => spans'[i] = spans[i]
    <2>1. spans' = [spans EXCEPT ![id] = new]
      BY <1>3 DEF new
    <2> QED BY <1>1, <1>4, <2>1 DEF n, TraceInv, Forest
  <1>6. \A i \in 1..n : spans'[i].parent = spans[i].parent /\ spans'[i].children = spans[i].children
    BY <1>1, <1>4, <1>5
  <1>7. Forest'
    <2>1. \A p : {i \in DOMAIN spans' : spans'[i].parent = p} = {i \in DOMAIN spans : spans[i].parent = p}
      BY <1>1, <1>5, <1>6
    <2>2. \A i \in DOMAIN spans' : spans'[i].parent < i
      BY <1>1, <1>5, <1>6
    <2>3. rootSpans' \in Seq(Nat) /\ Trace!ListedByAge(rootSpans', {i \in DOMAIN spans' : spans'[i].parent = 0})
      BY <1>3, <2>1 DEF TraceInv, Forest
    <2>4. ASSUME NEW p \in DOMAIN spans'
          PROVE  Trace!ListedByAge(spans'[p].children, {i \in DOMAIN spans' : spans'[i].parent = p})
      BY <1>1, <1>5, <1>6, <2>1 DEF TraceInv, Forest
    <2> QED BY <1>5, <2>2, <2>3, <2>4 DEF Forest, Trace!ListedByAge
  <1>8. Stacked'
    <2> DEFINE open == {i \in 1..n : spans[i].result.status = "open"}
    <2>1. spanStack \in Seq(Nat) /\ Trace!ListedByAge(spanStack, open)
      BY <1>1 DEF TraceInv, Stacked
    <2>2. {i \in DOMAIN spans' : spans'[i].result.status = "open"} = open \ {id}
      BY <1>1, <1>2, <1>4, <1>5
    <2> HIDE DEF open
    <2>3. Trace!Unstacked(id) \in Seq(Nat) /\ Trace!ListedByAge(Trace!Unstacked(id), open \ {id})
      BY <2>1, StackWithout
    <2> QED BY <1>3, <2>2, <2>3 DEF Stacked, Trace!ListedByAge
  <1> QED BY <1>7, <1>8 DEF TraceInv

LEMMA TraceInvStep == TraceInv /\ [Next]_vars => TraceInv'
  <1> SUFFICES ASSUME TraceInv, [Trace!TraceNext]_(Trace!traceVars)
               PROVE  TraceInv'
    BY TraceStep
  <1>1. CASE UNCHANGED Trace!traceVars
    BY <1>1 DEF Trace!traceVars, TraceInv, Forest, Stacked, Trace!ListedByAge
  <1>2. CASE Trace!TraceNext
    <2>1. ASSUME NEW type \in Types, Trace!StartSpan(type) PROVE TraceInv'
      BY <2>1, SpanStarted
    <2>2. ASSUME NEW id \in DOMAIN spans, NEW status \in {"success", "error"}, NEW used \in Tokens,
                 Trace!EndSpan(id, status, used)
          PROVE  TraceInv'
      BY <2>2, SpanEnded
    <2> QED BY <1>2, <2>1, <2>2 DEF Trace!TraceNext
  <1> QED BY <1>1, <1>2

(* In whatever order the spans of a trace close, the stack holds the open ones, *)
(* oldest first, and getTrace counts every span once, wherever it hangs: for   *)
(* any number of spans and any tokens.                                       *)
THEOREM TracesAreWhole == Spec => []TraceIsWhole
  <1>1. Init => TraceInv
    <2> SUFFICES ASSUME Init PROVE TraceInv
      OBVIOUS
    <2>1. spans = <<>> /\ rootSpans = <<>> /\ spanStack = <<>>
      BY DEF Init, Trace!Init
    <2> QED BY <2>1 DEF TraceInv, Forest, Stacked, Trace!ListedByAge
  <1>2. TraceInv => TraceIsWhole
    <2> SUFFICES ASSUME TraceInv PROVE TraceIsWhole
      OBVIOUS
    <2>1. Trace!ListedByAge(spanStack, {i \in DOMAIN spans : spans[i].result.status = "open"})
      BY DEF TraceInv, Stacked
    <2>2. Trace!TokensUsed \in [DOMAIN spans -> Int] /\ Trace!ToolCalls \in [DOMAIN spans -> Int]
      BY ForestFacts DEF Trace!TokensUsed, Trace!ToolCalls
    <2>3. /\ Trace!WalkSpans(Trace!TokensUsed) = Trace!Total(Trace!TokensUsed)
          /\ Trace!WalkSpans(Trace!ToolCalls) = Trace!Total(Trace!ToolCalls)
      BY <2>2, CountedOnce DEF TraceInv
    <2> QED BY <2>1, <2>3 DEF TraceIsWhole, Trace!TraceIsWhole, Trace!GetTrace
  <1> QED BY <1>1, <1>2, TraceInvStep, PTL DEF Spec

-----------------------------------------------------------------------------
(* The diff of two prompts.                                                 *)

\* What holds of 0 and passes to the next number holds up to any.
LEMMA UpFromZero ==
  ASSUME NEW top \in Nat, NEW W, 0 \in W, \A k \in 1..top : k - 1 \in W => k \in W
  PROVE  \A k \in 0..top : k \in W
  <1> DEFINE wrong == {k \in 0..top : k \notin W}
  <1>1. wrong = {}
    <2> SUFFICES ASSUME wrong # {} PROVE FALSE
      OBVIOUS
    <2>1. PICK k \in wrong : \A l \in wrong : k <= l
      <3>1. wrong \in SUBSET Nat
        OBVIOUS
      <3> QED BY <3>1, LeastNumber
    <2>2. k \in 1..top /\ k \notin W /\ k - 1 \in 0..top
      OBVIOUS
    <2>3. k - 1 \in W
      <3> SUFFICES ASSUME k - 1 \notin W PROVE FALSE
        OBVIOUS
      <3>1. k - 1 \in wrong
        BY <2>2
      <3> HIDE DEF wrong
      <3> QED BY <2>1, <2>2, <3>1
    <2> QED BY <2>2, <2>3
  <1> QED BY <1>1

\* A loop has a state after each of its rounds.
Iterates(f, top, S, first, rounds) ==
  f \in [0..top -> S] /\ f[0] = first /\ \A k \in 1..top : f[k] = rounds[k][f[k - 1]]

LEMMA Iterated ==
  ASSUME NEW top \in Nat, NEW S, NEW first \in S, NEW rounds, rounds \in [1..top -> [S -> S]]
  PROVE  \E f : Iterates(f, top, S, first, rounds)
  <1> DEFINE Upto(f, k) == f[0] = first /\ \A l \in 1..k : f[l] = rounds[l][f[l - 1]]
             W == {k \in 0..top : \E f \in [0..k -> S] : Upto(f, k)}
  <1>1. 0 \in W
    <2> DEFINE f == [l \in 0..0 |-> first]
    <2>1. f \in [0..0 -> S] /\ Upto(f, 0)
      OBVIOUS
    <2> HIDE DEF f, Upto
    <2> QED BY <2>1
  <1>2. ASSUME NEW k \in 1..top, k - 1 \in W PROVE k \in W
    <2>1. PICK f \in [0..(k - 1) -> S] : Upto(f, k - 1)
      BY <1>2
    <2> DEFINE g == [l \in 0..k |-> IF l = k THEN rounds[k][f[k - 1]] ELSE f[l]]
    <2>2. f[k - 1] \in S /\ rounds[k][f[k - 1]] \in S
      OBVIOUS
    <2>3. /\ g \in [0..k -> S] /\ g[k] = rounds[k][f[k - 1]]
          /\ \A l \in 0..(k - 1) : g[l] = f[l]
      BY <2>2
    <2> HIDE DEF g
    <2>4. g[0] = first
      BY <2>1, <2>3
    <2>5. ASSUME NEW l \in 1..k PROVE g[l] = rounds[l][g[l - 1]]
      <3>1. CASE l = k
        BY <2>3, <3>1
      <3>2. CASE l # k
        <4>1. l \in 1..(k - 1) /\ l - 1 \in 0..(k - 1) /\ l \in 0..(k - 1)
          BY <3>2
        <4> QED BY <2>1, <2>3, <4>1
      <3> QED BY <3>1, <3>2
    <2>6. Upto(g, k)
      BY <2>4, <2>5
    <2> HIDE DEF Upto
    <2> QED BY <2>3, <2>6
  <1> HIDE DEF Upto, W
  <1>3. top \in W
    <2>1. \A k \in 1..top : k - 1 \in W => k \in W
      BY <1>2
    <2>2. \A k \in 0..top : k \in W
      BY <1>1, <2>1, UpFromZero
    <2> QED BY <2>2
  <1> QED BY <1>3 DEF Upto, W, Iterates

\* And one only: whatever goes through the same rounds has the same states.
LEMMA IteratesStay ==
  ASSUME NEW top \in Nat, NEW S, NEW f, f[0] \in S, \A k \in 1..top : f[k - 1] \in S => f[k] \in S
  PROVE  \A k \in 0..top : f[k] \in S
  <1> DEFINE W == {k \in 0..top : f[k] \in S}
  <1>1. 0 \in W /\ \A k \in 1..top : k - 1 \in W => k \in W
    OBVIOUS
  <1> HIDE DEF W
  <1>2. \A k \in 0..top : k \in W
    BY <1>1, UpFromZero
  <1> QED BY <1>2 DEF W

-----------------------------------------------------------------------------
\* A row of the table.
RowHolds(row, a, b, i, n, above) ==
  /\ row \in [0..n -> Nat] /\ row[0] = 0
  /\ \A j \in 1..n : row[j] = IF a[i] = b[j] THEN above[j - 1] + 1 ELSE Prompt!Larger(above[j], row[j - 1])

LEMMA RowOf ==
  ASSUME NEW a, NEW b, NEW i, NEW n \in Nat, Len(b) = n, NEW above \in [0..n -> Nat]
  PROVE  RowHolds(Prompt!NextRow(a, b, i, above), a, b, i, n, above)
  <1> DEFINE Cell(j, left) == IF a[i] = b[j] THEN above[j - 1] + 1 ELSE Prompt!Larger(above[j], left)
             IsRow(f) == f = [j \in 0..n |-> IF j = 0 THEN 0 ELSE Cell(j, f[j - 1])]
             cells == [j \in 1..n |-> [left \in Nat |-> Cell(j, left)]]
             row == Prompt!NextRow(a, b, i, above)
  <1>1. \A j \in 1..n, left \in Nat : Cell(j, left) \in Nat
    BY DEF Prompt!Larger
  <1>2. row = CHOOSE f : IsRow(f)
    BY DEF Prompt!NextRow
  <1> HIDE DEF Cell, row
  <1>3. \E f : IsRow(f)
    <2>1. cells \in [1..n -> [Nat -> Nat]]
      BY <1>1
    <2>2. \A j \in 1..n, left \in Nat : cells[j][left] = Cell(j, left)
      OBVIOUS
    <2> HIDE DEF cells
    <2> DEFINE numbers == Nat
               zero == 0
    <2>3. zero \in numbers /\ cells \in [1..n -> [numbers -> numbers]]
      BY <2>1
    <2> HIDE DEF numbers, zero
    <2>4. PICK f : Iterates(f, n, numbers, zero, cells)
      BY <2>3, Iterated
    <2>5. f \in [0..n -> Nat] /\ f[0] = 0 /\ \A j \in 1..n : f[j] = cells[j][f[j - 1]]
      BY <2>4 DEF Iterates, numbers, zero
    <2>6. \A j \in 1..n : f[j] = Cell(j, f[j - 1])
      <3> TAKE j \in 1..n
      <3>1. f[j - 1] \in Nat
        BY <2>5
      <3> QED BY <2>2, <2>5, <3>1
    <2>7. IsRow(f)
      BY <2>5, <2>6
    <2> QED BY <2>7
  <1>4. IsRow(row)
    <2> HIDE DEF IsRow
    <2> QED BY <1>2, <1>3
  <1>5. row[0] = 0 /\ \A j \in 1..n : row[j] = Cell(j, row[j - 1])
    BY <1>4
  <1>6. \A j \in 0..n : row[j] \in Nat
    <2>1. \A j \in 1..n : row[j - 1] \in Nat => row[j] \in Nat
      BY <1>1, <1>5
    <2> HIDE DEF IsRow
    <2>2. row[0] \in Nat
      BY <1>5
    <2> QED BY <2>1, <2>2, IteratesStay
  <1>7. row \in [0..n -> Nat]
    <2> DEFINE value(j) == IF j = 0 THEN 0 ELSE Cell(j, row[j - 1])
    <2>1. row = [j \in 0..n |-> value(j)] /\ \A j \in 0..n : row[j] = value(j)
      BY <1>4
    <2> HIDE DEF value, IsRow
    <2> QED BY <1>6, <2>1
  <1> QED BY <1>5, <1>7 DEF Cell, row, RowHolds

\* The table.
TableHolds(dp, a, b, m, n) ==
  /\ dp \in [0..m -> [0..n -> Nat]]
  /\ \A j \in 0..n : dp[0][j] = 0
  /\ \A i \in 0..m : dp[i][0] = 0
  /\ \A i \in 1..m, j \in 1..n :
       dp[i][j] = IF a[i] = b[j] THEN dp[i - 1][j - 1] + 1 ELSE Prompt!Larger(dp[i - 1][j], dp[i][j - 1])

LEMMA TableOf ==
  ASSUME NEW a, NEW b, NEW m \in Nat, NEW n \in Nat, Len(a) = m, Len(b) = n
  PROVE  TableHolds(Prompt!Lengths(a, b), a, b, m, n)
  <1> DEFINE Row(i, above) == Prompt!NextRow(a, b, i, above)
             zeros == [j \in 0..n |-> 0]
             Rows == [0..n -> Nat]
             IsTable(f) == f = [i \in 0..m |-> IF i = 0 THEN zeros ELSE Row(i, f[i - 1])]
             rowOf == [i \in 1..m |-> [above \in Rows |-> Row(i, above)]]
             dp == Prompt!Lengths(a, b)
  <1>1. /\ \A i \in 1..m, above \in Rows : Row(i, above) \in Rows
        /\ zeros \in Rows
    <2>1. \A i \in 1..m, above \in Rows : Row(i, above) \in Rows
      BY RowOf DEF RowHolds
    <2> QED BY <2>1
  <1>2. dp = CHOOSE f : IsTable(f)
    BY DEF Prompt!Lengths
  <1>3. \A j \in 0..n : zeros[j] = 0
    OBVIOUS
  <1> HIDE DEF Row, dp, Rows, zeros
  <1>4. \E f : IsTable(f)
    <2>1. rowOf \in [1..m -> [Rows -> Rows]]
      BY <1>1
    <2>2. \A i \in 1..m, above \in Rows : rowOf[i][above] = Row(i, above)
      OBVIOUS
    <2> HIDE DEF rowOf
    <2>3. PICK f : Iterates(f, m, Rows, zeros, rowOf)
      BY <1>1, <2>1, Iterated
    <2>4. f \in [0..m -> Rows] /\ f[0] = zeros /\ \A i \in 1..m : f[i] = rowOf[i][f[i - 1]]
      BY <2>3 DEF Iterates
    <2>5. \A i \in 1..m : f[i] = Row(i, f[i - 1])
      <3> TAKE i \in 1..m
      <3>1. f[i - 1] \in Rows
        BY <2>4
      <3> QED BY <2>2, <2>4, <3>1
    <2>6. IsTable(f)
      BY <2>4, <2>5
    <2> QED BY <2>6
  <1>5. IsTable(dp)
    <2> HIDE DEF IsTable
    <2> QED BY <1>2, <1>4
  <1>6. dp[0] = zeros /\ \A i \in 1..m : dp[i] = Row(i, dp[i - 1])
    BY <1>5
  <1>7. \A i \in 0..m : dp[i] \in Rows
    <2>1. \A i \in 1..m : dp[i - 1] \in Rows => dp[i] \in Rows
      BY <1>1, <1>6
    <2> HIDE DEF IsTable
    <2>2. dp[0] \in Rows
      BY <1>1, <1>6
    <2> QED BY <2>1, <2>2, IteratesStay
  <1>8. ASSUME NEW i \in 1..m
        PROVE  /\ dp[i][0] = 0
               /\ \A j \in 1..n : dp[i][j] = IF a[i] = b[j] THEN dp[i - 1][j - 1] + 1
                                             ELSE Prompt!Larger(dp[i - 1][j], dp[i][j - 1])
    <2>1. dp[i - 1] \in Rows /\ dp[i] = Row(i, dp[i - 1])
      <3>1. i - 1 \in 0..m
        OBVIOUS
      <3> HIDE DEF IsTable
      <3> QED BY <1>6, <1>7, <3>1
    <2> DEFINE above == dp[i - 1]
               row == dp[i]
    <2> HIDE DEF above, row
    <2>2. above \in [0..n -> Nat] /\ row = Prompt!NextRow(a, b, i, above)
      BY <2>1 DEF Row, Rows, above, row
    <2>3. RowHolds(row, a, b, i, n, above)
      BY <2>2, RowOf
    <2> QED BY <2>3 DEF above, row, RowHolds
  <1>9. \A j \in 0..n : dp[0][j] = 0
    BY <1>3, <1>6
  <1>10. \A i \in 0..m : dp[i][0] = 0
    BY <1>8, <1>9
  <1>11. dp \in [0..m -> [0..n -> Nat]]
    <2> DEFINE value(i) == IF i = 0 THEN zeros ELSE Row(i, dp[i - 1])
    <2>1. dp = [i \in 0..m |-> value(i)] /\ \A i \in 0..m : dp[i] = value(i)
      BY <1>5
    <2> HIDE DEF value, IsTable
    <2>2. dp \in [0..m -> Rows]
      BY <1>7, <2>1
    <2> QED BY <2>2 DEF Rows
  <1> QED BY <1>8, <1>9, <1>10, <1>11 DEF dp, TableHolds

-----------------------------------------------------------------------------
\* A common subsequence of n lines in the first i and the first j.
Common(a, b, n, i, j) ==
  \E p \in Prompt!Places(n, i), q \in Prompt!Places(n, j) : \A c \in 1..n : a[p[c]] = b[q[c]]

LEMMA PlacesBelow ==
  ASSUME NEW n \in Nat \ {0}, NEW top \in Nat, NEW p \in Prompt!Places(n, top)
  PROVE  /\ p[n] \in 1..top
         /\ p[n] # top => p \in Prompt!Places(n, top - 1)
         /\ [c \in 1..(n - 1) |-> p[c]] \in Prompt!Places(n - 1, top - 1)
  <1>1. p \in [1..n -> 1..top] /\ \A c, d \in 1..n : c < d => p[c] < p[d]
    BY DEF Prompt!Places
  <1>2. p[n] \in 1..top
    BY <1>1
  <1>3. \A c \in 1..(n - 1) : c \in 1..n /\ p[c] \in 1..(top - 1)
    <2> TAKE c \in 1..(n - 1)
    <2>1. c \in 1..n /\ c < n /\ n \in 1..n
      OBVIOUS
    <2>2. p[c] < p[n] /\ p[c] \in 1..top
      BY <1>1, <2>1
    <2> QED BY <1>2, <2>1, <2>2
  <1>4. ASSUME p[n] # top PROVE p \in Prompt!Places(n, top - 1)
    <2>1. \A c \in 1..n : p[c] \in 1..(top - 1)
      <3> TAKE c \in 1..n
      <3>1. CASE c = n
        BY <1>2, <1>4, <3>1
      <3>2. CASE c # n
        BY <1>3, <3>2
      <3> QED BY <3>1, <3>2
    <2> QED BY <1>1, <2>1 DEF Prompt!Places
  <1> DEFINE q == [c \in 1..(n - 1) |-> p[c]]
  <1>5. q \in Prompt!Places(n - 1, top - 1)
    <2>1. q \in [1..(n - 1) -> 1..(top - 1)]
      BY <1>3
    <2>2. \A c, d \in 1..(n - 1) : c < d => q[c] < q[d]
      BY <1>1, <1>3
    <2> HIDE DEF q
    <2> QED BY <2>1, <2>2 DEF Prompt!Places
  <1> QED BY <1>2, <1>4, <1>5

\* What a common subsequence leaves when the last lines of the contents are taken away.
LEMMA OneLess ==
  ASSUME NEW a, NEW b, NEW i \in Nat, NEW j \in Nat, NEW n \in Nat \ {0}, Common(a, b, n, i, j)
  PROVE  /\ i # 0 /\ j # 0
         /\ a[i] = b[j] => Common(a, b, n - 1, i - 1, j - 1)
         /\ a[i] # b[j] => Common(a, b, n, i - 1, j) \/ Common(a, b, n, i, j - 1)
  <1>1. PICK p \in Prompt!Places(n, i), q \in Prompt!Places(n, j) : \A c \in 1..n : a[p[c]] = b[q[c]]
    BY DEF Common
  <1>2. p[n] \in 1..i /\ q[n] \in 1..j /\ a[p[n]] = b[q[n]]
    <2>1. n \in 1..n
      OBVIOUS
    <2> QED BY <1>1, <2>1, PlacesBelow
  <1> DEFINE p1 == [c \in 1..(n - 1) |-> p[c]]
             q1 == [c \in 1..(n - 1) |-> q[c]]
  <1>3. p1 \in Prompt!Places(n - 1, i - 1) /\ q1 \in Prompt!Places(n - 1, j - 1)
    BY PlacesBelow
  <1>4. \A c \in 1..(n - 1) : a[p1[c]] = b[q1[c]]
    BY <1>1
  <1> HIDE DEF p1, q1
  <1>5. Common(a, b, n - 1, i - 1, j - 1)
    BY <1>3, <1>4 DEF Common
  <1>6. ASSUME a[i] # b[j] PROVE Common(a, b, n, i - 1, j) \/ Common(a, b, n, i, j - 1)
    <2>1. CASE p[n] # i
      <3>1. p \in Prompt!Places(n, i - 1)
        BY <2>1, PlacesBelow
      <3> QED BY <1>1, <3>1 DEF Common
    <2>2. CASE q[n] # j
      <3>1. q \in Prompt!Places(n, j - 1)
        BY <2>2, PlacesBelow
      <3> QED BY <1>1, <3>1 DEF Common
    <2> QED BY <1>2, <1>6, <2>1, <2>2
  <1> QED BY <1>2, <1>5, <1>6

\* The table bounds all of them.
LEMMA NoneLonger ==
  ASSUME NEW a, NEW b, NEW m \in Nat, NEW n \in Nat, NEW dp, TableHolds(dp, a, b, m, n)
  PROVE  \A k \in Nat : Common(a, b, k, m, n) => k <= dp[m][n]
  <1> DEFINE Bounded(s) == \A i \in 0..m, j \in 0..n, k \in Nat :
                             i + j <= s /\ Common(a, b, k, i, j) => k <= dp[i][j]
             W == {s \in 0..(m + n) : Bounded(s)}
  <1>1. \A i \in 0..m, j \in 0..n : dp[i][j] \in Nat
    BY DEF TableHolds
  <1>2. 0 \in W
    <2> SUFFICES ASSUME NEW i \in 0..m, NEW j \in 0..n, NEW k \in Nat, i + j <= 0, Common(a, b, k, i, j)
                 PROVE  k <= dp[i][j]
      OBVIOUS
    <2>1. i = 0 /\ i \in Nat /\ j \in Nat
      OBVIOUS
    <2>2. k = 0
      <3> SUFFICES ASSUME k # 0 PROVE FALSE
        OBVIOUS
      <3>1. k \in Nat \ {0}
        OBVIOUS
      <3> QED BY <2>1, <3>1, OneLess
    <2> QED BY <1>1, <2>2
  <1>3. ASSUME NEW s \in 1..(m + n), s - 1 \in W PROVE s \in W
    <2> SUFFICES ASSUME NEW i \in 0..m, NEW j \in 0..n, NEW k \in Nat, i + j <= s, Common(a, b, k, i, j)
                 PROVE  k <= dp[i][j]
      OBVIOUS
    <2>1. CASE k = 0
      BY <1>1, <2>1
    <2>2. CASE k # 0
      <3>1. k \in Nat \ {0} /\ i \in Nat /\ j \in Nat
        BY <2>2
      <3>2. /\ i # 0 /\ j # 0
            /\ a[i] = b[j] => Common(a, b, k - 1, i - 1, j - 1)
            /\ a[i] # b[j] => Common(a, b, k, i - 1, j) \/ Common(a, b, k, i, j - 1)
        BY <3>1, OneLess
      <3> DEFINE i1 == i - 1
                 j1 == j - 1
      <3>3. /\ i \in 1..m /\ j \in 1..n /\ i1 \in 0..m /\ j1 \in 0..n /\ k - 1 \in Nat
            /\ i1 + j <= s - 1 /\ i + j1 <= s - 1 /\ i1 + j1 <= s - 1
        BY <3>1, <3>2
      <3>4. dp[i][j] = IF a[i] = b[j] THEN dp[i1][j1] + 1 ELSE Prompt!Larger(dp[i1][j], dp[i][j1])
        BY <3>3 DEF TableHolds
      <3>5. dp[i][j] \in Nat /\ dp[i1][j] \in Nat /\ dp[i][j1] \in Nat /\ dp[i1][j1] \in Nat
        BY <1>1, <3>3
      <3> HIDE DEF i1, j1
      <3>6. Bounded(s - 1)
        BY <1>3
      <3>7. CASE a[i] = b[j]
        <4>1. k - 1 <= dp[i1][j1]
          BY <3>2, <3>3, <3>6, <3>7 DEF i1, j1
        <4> QED BY <3>4, <3>5, <3>7, <4>1
      <3>8. CASE a[i] # b[j]
        <4>1. k <= dp[i1][j] \/ k <= dp[i][j1]
          BY <3>2, <3>3, <3>6, <3>8 DEF i1, j1
        <4>2. dp[i][j] = Prompt!Larger(dp[i1][j], dp[i][j1])
          BY <3>4, <3>8
        <4> QED BY <3>5, <4>1, <4>2 DEF Prompt!Larger
      <3> QED BY <3>7, <3>8
    <2> QED BY <2>1, <2>2
  <1>4. m + n \in W
    <2> HIDE DEF W
    <2>1. \A s \in 0..(m + n) : s \in W
      BY <1>2, <1>3, UpFromZero
    <2> QED BY <2>1
  <1> QED BY <1>4

-----------------------------------------------------------------------------
\* A sequence of lines is found in a content, in order, below a place.
Found(lcs, text, place) ==
  \E p \in [1..Len(lcs) -> Nat] :
    /\ \A c \in 1..Len(lcs) : place < p[c] /\ p[c] <= Len(text) /\ text[p[c]] = lcs[c]
    /\ \A c, d \in 1..Len(lcs) : c < d => p[c] < p[d]

LEMMA FoundAbove ==
  ASSUME NEW X, NEW lcs \in Seq(X), NEW text, NEW i \in Nat \ {0}, Len(text) \in Nat,
         Found(lcs, text, i), i <= Len(text), text[i] \in X
  PROVE  /\ Found(lcs, text, i - 1)
         /\ <<text[i]>> \o lcs \in Seq(X) /\ Len(<<text[i]>> \o lcs) = Len(lcs) + 1
         /\ Found(<<text[i]>> \o lcs, text, i - 1)
  <1> DEFINE n == Len(lcs)
             more == <<text[i]>> \o lcs
  <1>1. /\ n \in Nat /\ more \in Seq(X) /\ Len(more) = n + 1
        /\ more[1] = text[i] /\ \A c \in 2..(n + 1) : more[c] = lcs[c - 1]
    OBVIOUS
  <1>2. PICK p \in [1..n -> Nat] :
          /\ \A c \in 1..n : i < p[c] /\ p[c] <= Len(text) /\ text[p[c]] = lcs[c]
          /\ \A c, d \in 1..n : c < d => p[c] < p[d]
    BY DEF Found
  <1>3. Found(lcs, text, i - 1)
    <2>1. \A c \in 1..n : i - 1 < p[c] /\ p[c] <= Len(text) /\ text[p[c]] = lcs[c]
      BY <1>2
    <2> QED BY <1>2, <2>1 DEF Found
  <1> HIDE DEF more, n
  <1> DEFINE q == [c \in 1..(n + 1) |-> IF c = 1 THEN i ELSE p[c - 1]]
  <1>4. /\ q \in [1..(n + 1) -> Nat] /\ q[1] = i
        /\ \A c \in 2..(n + 1) : c - 1 \in 1..n /\ q[c] = p[c - 1]
    <2>1. \A c \in 2..(n + 1) : c - 1 \in 1..n /\ c \in 1..(n + 1) /\ c # 1
      BY <1>1
    <2> QED BY <1>1, <2>1
  <1> HIDE DEF q
  <1>5. \A c \in 1..(n + 1) : i - 1 < q[c] /\ q[c] <= Len(text) /\ text[q[c]] = more[c]
    <2> TAKE c \in 1..(n + 1)
    <2>1. CASE c = 1
      BY <1>1, <1>4, <2>1
    <2>2. CASE c # 1
      <3>1. c \in 2..(n + 1) /\ c - 1 \in 1..n
        BY <1>1, <2>2
      <3> QED BY SMTT(30), <1>1, <1>2, <1>4, <3>1
    <2> QED BY <2>1, <2>2
  <1>6. \A c, d \in 1..(n + 1) : c < d => q[c] < q[d]
    <2> SUFFICES ASSUME NEW c \in 1..(n + 1), NEW d \in 1..(n + 1), c < d PROVE q[c] < q[d]
      OBVIOUS
    <2>1. d \in 2..(n + 1) /\ d - 1 \in 1..n /\ q[d] = p[d - 1]
      BY <1>1, <1>4
    <2>2. CASE c = 1
      BY <1>2, <1>4, <2>1, <2>2
    <2>3. CASE c # 1
      <3>1. c - 1 \in 1..n /\ q[c] = p[c - 1] /\ c - 1 < d - 1
        BY <1>1, <1>4, <2>1, <2>3
      <3> QED BY <1>2, <2>1, <3>1
    <2> QED BY <2>2, <2>3
  <1>7. Found(more, text, i - 1)
    BY <1>1, <1>4, <1>5, <1>6 DEF Found
  <1> QED BY <1>1, <1>3, <1>7 DEF more, n

\* On the way back: what was found and what the cell still promises add up to the corner.
Backwards(X, a, b, m, n, dp) ==
  {s \in [i : 0..m, j : 0..n, lcs : Seq(X)] :
     /\ Len(s.lcs) + dp[s.i][s.j] = dp[m][n]
     /\ Found(s.lcs, a, s.i) /\ Found(s.lcs, b, s.j)}

LEMMA StepBackOf ==
  ASSUME NEW X, NEW a \in Seq(X), NEW b \in Seq(X), NEW m \in Nat, NEW n \in Nat, Len(a) = m, Len(b) = n,
         NEW dp, TableHolds(dp, a, b, m, n), NEW s \in Backwards(X, a, b, m, n, dp)
  PROVE  /\ Prompt!StepBack(a, b, dp, s) \in Backwards(X, a, b, m, n, dp)
         /\ IF s.i = 0 \/ s.j = 0 THEN Prompt!StepBack(a, b, dp, s) = s
            ELSE Prompt!StepBack(a, b, dp, s).i + Prompt!StepBack(a, b, dp, s).j < s.i + s.j
  <1> DEFINE next == Prompt!StepBack(a, b, dp, s)
             i == s.i
             j == s.j
             lcs == s.lcs
             State == [i : 0..m, j : 0..n, lcs : Seq(X)]
  <1>1. /\ s \in State /\ i \in 0..m /\ j \in 0..n /\ lcs \in Seq(X)
        /\ Len(lcs) + dp[i][j] = dp[m][n] /\ Found(lcs, a, i) /\ Found(lcs, b, j)
    BY DEF Backwards
  <1>2. CASE i = 0 \/ j = 0
    BY <1>2 DEF Prompt!StepBack
  <1>3. CASE i # 0 /\ j # 0
    <2> DEFINE i1 == i - 1
               j1 == j - 1
    <2>1. /\ i \in 1..m /\ j \in 1..n /\ i1 \in 0..m /\ j1 \in 0..n /\ i \in Nat \ {0} /\ j \in Nat \ {0}
          /\ i1 < i /\ j1 < j
      BY <1>1, <1>3
    <2>2. dp[i][j] = IF a[i] = b[j] THEN dp[i1][j1] + 1 ELSE Prompt!Larger(dp[i1][j], dp[i][j1])
      BY <2>1 DEF TableHolds
    <2>3. dp[i][j] \in Nat /\ dp[i1][j] \in Nat /\ dp[i][j1] \in Nat /\ dp[i1][j1] \in Nat
      <3>1. \A x \in 0..m, y \in 0..n : dp[x][y] \in Nat
        BY DEF TableHolds
      <3> QED BY <1>1, <2>1, <3>1
    <2>4. a[i] \in X /\ b[j] \in X /\ i <= Len(a) /\ j <= Len(b)
      BY <2>1
    <2> DEFINE more == <<a[i]>> \o lcs
    <2>5. /\ Found(lcs, a, i1) /\ more \in Seq(X) /\ Len(more) = Len(lcs) + 1 /\ Found(more, a, i1)
      <3>1. /\ lcs \in Seq(X) /\ i \in Nat \ {0} /\ Len(a) \in Nat /\ Found(lcs, a, i)
            /\ i <= Len(a) /\ a[i] \in X
        BY <1>1, <2>1, <2>4
      <3> HIDE DEF i, lcs
      <3> QED BY <3>1, FoundAbove
    <2>6. Found(lcs, b, j1) /\ (a[i] = b[j] => Found(more, b, j1))
      <3>1. Found(lcs, b, j1) /\ Found(<<b[j]>> \o lcs, b, j1)
        <4>1. /\ lcs \in Seq(X) /\ j \in Nat \ {0} /\ Len(b) \in Nat /\ Found(lcs, b, j)
              /\ j <= Len(b) /\ b[j] \in X
          BY <1>1, <2>1, <2>4
        <4> HIDE DEF j, lcs, more
        <4> QED BY <4>1, FoundAbove
      <3>2. a[i] = b[j] => more = <<b[j]>> \o lcs
        OBVIOUS
      <3> HIDE DEF more
      <3> QED BY <3>1, <3>2
    <2>7. next = IF a[i] = b[j] THEN [i |-> i1, j |-> j1, lcs |-> more]
                 ELSE IF dp[i1][j] > dp[i][j1] THEN [s EXCEPT !.i = i1] ELSE [s EXCEPT !.j = j1]
      BY <1>3 DEF Prompt!StepBack
    <2> HIDE DEF i1, j1, more
    <2>8. CASE a[i] = b[j]
      <3> DEFINE t == [i |-> i1, j |-> j1, lcs |-> more]
      <3>1. t \in State /\ t.i = i1 /\ t.j = j1 /\ t.lcs = more /\ next = t
        BY <2>1, <2>5, <2>7, <2>8
      <3> HIDE DEF t, next
      <3>2. Len(more) + dp[i1][j1] = dp[m][n]
        <4>1. Len(lcs) \in Nat /\ Len(more) = Len(lcs) + 1 /\ dp[i][j] = dp[i1][j1] + 1 /\ dp[i1][j1] \in Nat
          BY <1>1, <2>2, <2>3, <2>5, <2>8
        <4>2. Len(lcs) + dp[i][j] = dp[m][n]
          BY <1>1
        <4> QED BY SMTT(30), <4>1, <4>2
      <3>3. i1 + j1 < i + j
        BY <2>1
      <3> QED BY <1>3, <2>5, <2>6, <2>8, <3>1, <3>2, <3>3 DEF Backwards, next
    <2>9. CASE a[i] # b[j] /\ dp[i1][j] > dp[i][j1]
      <3>1. next \in State /\ next.i = i1 /\ next.j = j /\ next.lcs = lcs
        BY <1>1, <2>1, <2>7, <2>9
      <3> HIDE DEF next
      <3>2. Len(lcs) + dp[i1][j] = dp[m][n]
        BY <1>1, <2>2, <2>3, <2>9 DEF Prompt!Larger
      <3>3. i1 + j < i + j
        BY <2>1
      <3> QED BY <1>1, <1>3, <2>5, <3>1, <3>2, <3>3 DEF Backwards, next
    <2>10. CASE a[i] # b[j] /\ ~(dp[i1][j] > dp[i][j1])
      <3>1. next \in State /\ next.i = i /\ next.j = j1 /\ next.lcs = lcs
        BY <1>1, <2>1, <2>7, <2>10
      <3> HIDE DEF next
      <3>2. Len(lcs) + dp[i][j1] = dp[m][n]
        BY <1>1, <2>2, <2>3, <2>10 DEF Prompt!Larger
      <3>3. i + j1 < i + j
        BY <2>1
      <3> QED BY <1>1, <1>3, <2>6, <3>1, <3>2, <3>3 DEF Backwards, next
    <2> QED BY <2>8, <2>9, <2>10
  <1> QED BY <1>2, <1>3

\* What computeLCS returns is in both contents, and nothing longer is.
LEMMA LCSOf ==
  ASSUME NEW X, NEW a \in Seq(X), NEW b \in Seq(X), NEW m \in Nat, NEW n \in Nat, Len(a) = m, Len(b) = n
  PROVE  /\ Prompt!ComputeLCS(a, b) \in Seq(X)
         /\ Found(Prompt!ComputeLCS(a, b), a, 0) /\ Found(Prompt!ComputeLCS(a, b), b, 0)
         /\ m * n <= MaxCells => \A k \in Nat : Common(a, b, k, m, n) => k <= Len(Prompt!ComputeLCS(a, b))
  <1> DEFINE dp == Prompt!Lengths(a, b)
             S == Backwards(X, a, b, m, n, dp)
             first == [i |-> m, j |-> n, lcs |-> <<>>]
             After(s) == Prompt!StepBack(a, b, dp, s)
             IsBack(f) == f = [k \in 0..(m + n) |-> IF k = 0 THEN first ELSE After(f[k - 1])]
             back == CHOOSE f : IsBack(f)
             nexts == [k \in 1..(m + n) |-> [s \in S |-> After(s)]]
             found == Prompt!ComputeLCS(a, b)
  <1>1. found = IF m * n > MaxCells THEN <<>> ELSE back[m + n].lcs
    BY DEF Prompt!ComputeLCS
  <1>2. TableHolds(dp, a, b, m, n)
    BY TableOf
  <1> HIDE DEF dp, found
  <1>3. <<>> \in Seq(X) /\ Len(<<>>) = 0 /\ \A text, place : Found(<<>>, text, place)
    <2>1. \A text, place : Found(<<>>, text, place)
      <3> TAKE text, place
      <3> DEFINE p == [c \in 1..0 |-> 0]
      <3>1. p \in [1..0 -> Nat] /\ Len(<<>>) = 0 /\ \A c \in 1..0 : FALSE
        OBVIOUS
      <3> HIDE DEF p
      <3> QED BY <3>1 DEF Found
    <2> QED BY <2>1
  <1>4. first \in S
    <2>1. dp[m][n] \in Nat
      BY <1>2 DEF TableHolds
    <2>2. first \in [i : 0..m, j : 0..n, lcs : Seq(X)] /\ first.i = m /\ first.j = n /\ first.lcs = <<>>
      BY <1>3
    <2> HIDE DEF first
    <2>3. Len(first.lcs) + dp[first.i][first.j] = dp[m][n]
      BY <1>3, <2>1, <2>2
    <2> QED BY <1>3, <2>2, <2>3 DEF Backwards
  <1>5. \A s \in S : /\ After(s) \in S
                     /\ IF s.i = 0 \/ s.j = 0 THEN After(s) = s ELSE After(s).i + After(s).j < s.i + s.j
    BY <1>2, StepBackOf
  <1>6. \A s \in S : s.i \in 0..m /\ s.j \in 0..n /\ s.lcs \in Seq(X) /\ Len(s.lcs) + dp[s.i][s.j] = dp[m][n]
                     /\ Found(s.lcs, a, s.i) /\ Found(s.lcs, b, s.j)
    BY DEF Backwards
  <1> HIDE DEF S, After, first
  <1>7. \E f : IsBack(f)
    <2>1. nexts \in [1..(m + n) -> [S -> S]]
      BY <1>5
    <2>2. \A k \in 1..(m + n), s \in S : nexts[k][s] = After(s)
      OBVIOUS
    <2>3. m + n \in Nat
      OBVIOUS
    <2> HIDE DEF nexts
    <2>4. PICK f : Iterates(f, m + n, S, first, nexts)
      BY <1>4, <2>1, <2>3, Iterated
    <2>5. f \in [0..(m + n) -> S] /\ f[0] = first /\ \A k \in 1..(m + n) : f[k] = nexts[k][f[k - 1]]
      BY <2>4 DEF Iterates
    <2>6. \A k \in 1..(m + n) : f[k] = After(f[k - 1])
      <3> TAKE k \in 1..(m + n)
      <3>1. f[k - 1] \in S
        BY <2>5
      <3> QED BY <2>2, <2>5, <3>1
    <2>7. IsBack(f)
      BY <2>5, <2>6
    <2> QED BY <2>7
  <1>8. IsBack(back)
    <2> HIDE DEF IsBack
    <2> QED BY <1>7
  <1> HIDE DEF back
  <1>9. back[0] = first /\ \A k \in 1..(m + n) : back[k] = After(back[k - 1])
    BY <1>8
  <1> HIDE DEF IsBack
  <1>10. \A k \in 0..(m + n) : back[k] \in S
    <2>1. back[0] \in S /\ \A k \in 1..(m + n) : back[k - 1] \in S => back[k] \in S
      BY <1>4, <1>5, <1>9
    <2>2. m + n \in Nat
      OBVIOUS
    <2> QED BY <2>1, <2>2, IteratesStay
  <1> DEFINE Far(k) == back[k].i = 0 \/ back[k].j = 0 \/ back[k].i + back[k].j <= m + n - k
             W == {k \in 0..(m + n) : Far(k)}
  <1>11. m + n \in W
    <2>1. 0 \in W
      <3>1. back[0].i = m /\ back[0].j = n
        BY <1>9 DEF first
      <3> QED BY <3>1
    <2>2. ASSUME NEW k \in 1..(m + n), k - 1 \in W PROVE k \in W
      <3> DEFINE s == back[k - 1]
                 t == back[k]
      <3>1. s \in S /\ t \in S /\ t = After(s)
        BY <1>9, <1>10
      <3>2. /\ s.i \in 0..m /\ s.j \in 0..n /\ t.i \in 0..m /\ t.j \in 0..n
            /\ IF s.i = 0 \/ s.j = 0 THEN t = s ELSE t.i + t.j < s.i + s.j
        BY <1>5, <1>6, <3>1
      <3>3. s.i = 0 \/ s.j = 0 \/ s.i + s.j <= m + n - (k - 1)
        BY <2>2
      <3> HIDE DEF s, t
      <3>4. t.i = 0 \/ t.j = 0 \/ t.i + t.j <= m + n - k
        BY <3>2, <3>3
      <3> QED BY <3>4 DEF t
    <2>3. m + n \in Nat /\ m + n \in 0..(m + n)
      OBVIOUS
    <2> HIDE DEF W
    <2>4. \A k \in 0..(m + n) : k \in W
      BY <2>1, <2>2, <2>3, UpFromZero
    <2> QED BY <2>3, <2>4
  <1> DEFINE last == back[m + n]
  <1>12. last \in S /\ (last.i = 0 \/ last.j = 0 \/ last.i + last.j <= 0)
    BY <1>10, <1>11
  <1> HIDE DEF last, W
  <1>13. /\ last.lcs \in Seq(X) /\ Found(last.lcs, a, last.i) /\ Found(last.lcs, b, last.j)
         /\ last.i \in Nat /\ last.j \in Nat /\ Len(last.lcs) = dp[m][n]
    <2>1. last.i \in 0..m /\ last.j \in 0..n /\ (last.i = 0 \/ last.j = 0)
      BY <1>6, <1>12
    <2>2. dp[last.i][last.j] = 0
      BY <1>2, <2>1 DEF TableHolds
    <2>3. last.lcs \in Seq(X) /\ Len(last.lcs) + dp[last.i][last.j] = dp[m][n]
      BY <1>6, <1>12
    <2>4. Len(last.lcs) \in Nat
      BY <2>3
    <2> QED BY <1>6, <1>12, <2>1, <2>2, <2>3, <2>4
  <1>14. \A lcs, text : \A place \in Nat : Found(lcs, text, place) => Found(lcs, text, 0)
    <2> SUFFICES ASSUME NEW lcs, NEW text, NEW place \in Nat, Found(lcs, text, place)
                 PROVE  Found(lcs, text, 0)
      OBVIOUS
    <2>1. PICK p \in [1..Len(lcs) -> Nat] :
            /\ \A c \in 1..Len(lcs) : place < p[c] /\ p[c] <= Len(text) /\ text[p[c]] = lcs[c]
            /\ \A c, d \in 1..Len(lcs) : c < d => p[c] < p[d]
      BY DEF Found
    <2>2. \A c \in 1..Len(lcs) : 0 < p[c] /\ p[c] <= Len(text) /\ text[p[c]] = lcs[c]
      BY <2>1
    <2> QED BY <2>1, <2>2 DEF Found
  <1>15. \A k \in Nat : Common(a, b, k, m, n) => k <= dp[m][n]
    BY <1>2, NoneLonger
  <1>16. m * n <= MaxCells => ~(m * n > MaxCells)
    <2>1. m * n \in Nat /\ MaxCells \in Nat
      BY PromptAssumption
    <2> DEFINE cells == m * n
    <2> HIDE DEF cells
    <2>2. cells \in Nat => (cells <= MaxCells => ~(cells > MaxCells))
      BY <2>1
    <2> QED BY <2>1, <2>2 DEF cells
  <1>17. CASE m * n > MaxCells
    <2>1. found = <<>>
      BY <1>1, <1>17
    <2> QED BY <1>3, <1>16, <1>17, <2>1 DEF found
  <1>18. CASE ~(m * n > MaxCells)
    <2>1. found = last.lcs
      BY <1>1, <1>18 DEF last
    <2>2. Found(found, a, 0) /\ Found(found, b, 0) /\ found \in Seq(X) /\ Len(found) = dp[m][n]
      BY <1>13, <1>14, <2>1
    <2> QED BY <1>15, <2>2 DEF found
  <1> QED BY <1>17, <1>18 DEF found

-----------------------------------------------------------------------------
Change(X) == [type : {"context", "del", "add"}, line : X]

\* The lines of the first changes, one by one.
LinesHold(f, X, changes, types) ==
  /\ f[0] = <<>>
  /\ \A n \in 1..Len(changes) :
       f[n] = IF changes[n].type \in types THEN Append(f[n - 1], changes[n].line) ELSE f[n - 1]
  /\ \A n \in 0..Len(changes) : f[n] \in Seq(X)
  /\ Prompt!Lines(changes, types) = f[Len(changes)]

LEMMA LinesUpTo ==
  ASSUME NEW X, NEW types, NEW changes \in Seq(Change(X))
  PROVE  \E f : LinesHold(f, X, changes, types)
  <1> DEFINE top == Len(changes)
             S == Seq(X)
             More(n, lines) == IF changes[n].type \in types THEN Append(lines, changes[n].line) ELSE lines
             IsLines(f) == f = [n \in 0..top |-> IF n = 0 THEN <<>> ELSE More(n, f[n - 1])]
             upTo == CHOOSE f : IsLines(f)
             mores == [n \in 1..top |-> [lines \in S |-> More(n, lines)]]
  <1>1. Prompt!Lines(changes, types) = upTo[top]
    BY DEF Prompt!Lines
  <1>2. top \in Nat /\ <<>> \in S /\ \A n \in 1..top, lines \in S : More(n, lines) \in S
    <2>1. \A n \in 1..top : changes[n] \in Change(X)
      OBVIOUS
    <2>2. \A n \in 1..top : changes[n].line \in X
      BY <2>1 DEF Change
    <2>3. \A line \in X, lines \in Seq(X) : Append(lines, line) \in Seq(X)
      OBVIOUS
    <2> QED BY <2>2, <2>3
  <1> HIDE DEF top, S, More
  <1>3. \E f : IsLines(f)
    <2>1. mores \in [1..top -> [S -> S]]
      BY <1>2
    <2>2. \A n \in 1..top, lines \in S : mores[n][lines] = More(n, lines)
      OBVIOUS
    <2> DEFINE none == <<>>
    <2>3. none \in S
      BY <1>2
    <2> HIDE DEF mores, none
    <2>4. PICK f : Iterates(f, top, S, none, mores)
      BY <1>2, <2>1, <2>3, Iterated
    <2>5. f \in [0..top -> S] /\ f[0] = <<>> /\ \A n \in 1..top : f[n] = mores[n][f[n - 1]]
      BY <2>4 DEF Iterates, none
    <2>6. \A n \in 1..top : f[n] = More(n, f[n - 1])
      <3> TAKE n \in 1..top
      <3>1. f[n - 1] \in S
        BY <1>2, <2>5
      <3> QED BY <2>2, <2>5, <3>1
    <2>7. IsLines(f)
      BY <2>5, <2>6
    <2> QED BY <2>7
  <1>4. IsLines(upTo)
    <2> HIDE DEF IsLines
    <2> QED BY <1>3
  <1> HIDE DEF upTo
  <1>5. upTo[0] = <<>> /\ \A n \in 1..top : upTo[n] = More(n, upTo[n - 1])
    BY <1>2, <1>4
  <1> HIDE DEF IsLines
  <1>6. \A n \in 0..top : upTo[n] \in S
    <2>1. upTo[0] \in S /\ \A n \in 1..top : upTo[n - 1] \in S => upTo[n] \in S
      BY <1>2, <1>5
    <2> QED BY <1>2, <2>1, IteratesStay
  <1> QED BY <1>1, <1>5, <1>6 DEF LinesHold, top, S, More

LEMMA LinesOfNone ==
  ASSUME NEW X, NEW types
  PROVE  Prompt!Lines(<<>>, types) = <<>>
  <1> DEFINE none == <<>>
  <1>1. none \in Seq(Change(X)) /\ Len(none) = 0
    OBVIOUS
  <1> HIDE DEF none
  <1>2. PICK f : LinesHold(f, X, none, types)
    BY <1>1, LinesUpTo
  <1>3. Prompt!Lines(none, types) = <<>>
    BY <1>1, <1>2 DEF LinesHold
  <1> QED BY <1>3 DEF none

\* One change more.
LEMMA LinesAppended ==
  ASSUME NEW X, NEW types, NEW changes \in Seq(Change(X)), NEW change \in Change(X)
  PROVE  /\ Prompt!Lines(changes, types) \in Seq(X)
         /\ Prompt!Lines(Append(changes, change), types) =
              IF change.type \in types THEN Append(Prompt!Lines(changes, types), change.line)
              ELSE Prompt!Lines(changes, types)
  <1> DEFINE top == Len(changes)
             more == Append(changes, change)
  <1>1. /\ top \in Nat /\ more \in Seq(Change(X)) /\ Len(more) = top + 1
        /\ \A n \in 1..top : more[n] = changes[n] 
        /\ more[top + 1] = change
    OBVIOUS
  <1> HIDE DEF more
  <1>2. PICK f : LinesHold(f, X, changes, types)
    BY LinesUpTo
  <1>3. PICK g : LinesHold(g, X, more, types)
    BY <1>1, LinesUpTo
  <1> HIDE DEF top
  <1> DEFINE W == {n \in 0..top : g[n] = f[n]}
  <1>4. /\ f[0] = <<>> /\ g[0] = <<>>
        /\ \A n \in 1..top : f[n] = IF changes[n].type \in types THEN Append(f[n - 1], changes[n].line) ELSE f[n - 1]
        /\ \A n \in 1..(top + 1) : g[n] = IF more[n].type \in types THEN Append(g[n - 1], more[n].line) ELSE g[n - 1]
        /\ Prompt!Lines(changes, types) = f[top] /\ Prompt!Lines(more, types) = g[top + 1] /\ f[top] \in Seq(X)
    BY <1>1, <1>2, <1>3 DEF LinesHold, top
  <1>5. top \in W
    <2>1. 0 \in W
      BY <1>1, <1>4
    <2>2. ASSUME NEW n \in 1..top, n - 1 \in W PROVE n \in W
      <3>1. n \in 1..(top + 1) /\ more[n] = changes[n] /\ g[n - 1] = f[n - 1] /\ n \in 0..top
        BY <1>1, <2>2
      <3>2. g[n] = f[n]
        BY <1>4, <3>1
      <3> QED BY <3>1, <3>2
    <2> HIDE DEF W
    <2>3. \A n \in 0..top : n \in W
      BY <1>1, <2>1, <2>2, UpFromZero
    <2> QED BY <1>1, <2>3
  <1>6. g[top + 1] = IF change.type \in types THEN Append(f[top], change.line) ELSE f[top]
    <2>1. top + 1 \in 1..(top + 1) /\ (top + 1) - 1 = top /\ g[top] = f[top]
      BY <1>1, <1>5
    <2> QED BY <1>1, <1>4, <2>1
  <1> QED BY <1>4, <1>6 DEF more

\* The first lines of a content.
Spells(lines, text, n) == Len(lines) = n /\ \A c \in 1..n : lines[c] = text[c]

LEMMA SpellsMore ==
  ASSUME NEW X, NEW lines \in Seq(X), NEW text, NEW i \in Nat \ {0}, Spells(lines, text, i - 1), text[i] \in X
  PROVE  Spells(Append(lines, text[i]), text, i)
  <1> DEFINE more == Append(lines, text[i])
  <1>1. Len(lines) = i - 1 /\ \A c \in 1..(i - 1) : lines[c] = text[c]
    BY DEF Spells
  <1>2. Len(more) = i /\ more[i] = text[i] /\ \A c \in 1..(i - 1) : more[c] = lines[c]
    BY <1>1
  <1> HIDE DEF more
  <1>3. \A c \in 1..i : more[c] = text[c]
    <2> TAKE c \in 1..i
    <2>1. CASE c = i
      BY <1>2, <2>1
    <2>2. CASE c # i
      <3>1. c \in 1..(i - 1)
        BY <2>2
      <3> QED BY <1>1, <1>2, <3>1
    <2> QED BY <2>1, <2>2
  <1>4. Spells(more, text, i)
    BY <1>2, <1>3 DEF Spells
  <1> QED BY <1>4 DEF more

\* Where the lines of the subsequence are in a content.
FitsIn(p, lcs, text) ==
  /\ p \in [1..Len(lcs) -> Nat]
  /\ \A c \in 1..Len(lcs) : p[c] <= Len(text) /\ text[p[c]] = lcs[c]
  /\ \A c, d \in 1..Len(lcs) : c < d => p[c] < p[d]

InOld == {"context", "del"}
InNew == {"context", "add"}
InBoth == {"context"}

\* In the loop that compares: what is left of the subsequence is in what is left of both
\* contents, and the changes tell what was gone through.
Comparing(X, from, to, lcs, p, q) ==
  {s \in [i : 1..(Len(from) + 1), j : 1..(Len(to) + 1), k : 1..(Len(lcs) + 1), changes : Seq(Change(X))] :
     /\ s.k <= Len(lcs) => s.i <= p[s.k] /\ s.j <= q[s.k]
     /\ Spells(Prompt!Lines(s.changes, InOld), from, s.i - 1)
     /\ Spells(Prompt!Lines(s.changes, InNew), to, s.j - 1)
     /\ Len(Prompt!Lines(s.changes, InBoth)) = s.k - 1}

\* A change that was noted adds its line to those of its types.
NotedHolds(more, X, changes, type, line) ==
  /\ more \in Seq(Change(X))
  /\ \A types : Prompt!Lines(changes, types) \in Seq(X)
  /\ Prompt!Lines(more, InBoth) = IF type = "context" THEN Append(Prompt!Lines(changes, InBoth), line)
                                ELSE Prompt!Lines(changes, InBoth)
  /\ Prompt!Lines(more, InOld) = IF type = "add" THEN Prompt!Lines(changes, InOld)
                               ELSE Append(Prompt!Lines(changes, InOld), line)
  /\ Prompt!Lines(more, InNew) = IF type = "del" THEN Prompt!Lines(changes, InNew)
                               ELSE Append(Prompt!Lines(changes, InNew), line)

LEMMA NotedOf ==
  ASSUME NEW X, NEW changes \in Seq(Change(X)), NEW line \in X, NEW type \in {"context", "del", "add"}
  PROVE  NotedHolds(Append(changes, [type |-> type, line |-> line]), X, changes, type, line)
  <1> DEFINE change == [type |-> type, line |-> line]
             more == Append(changes, change)
  <1>1. change \in Change(X) /\ change.type = type /\ change.line = line
    BY DEF Change
  <1> HIDE DEF change
  <1>2. more \in Seq(Change(X))
    BY <1>1
  <1>3. \A types : /\ Prompt!Lines(changes, types) \in Seq(X)
                   /\ Prompt!Lines(more, types) = IF type \in types THEN Append(Prompt!Lines(changes, types), line)
                                                  ELSE Prompt!Lines(changes, types)
    BY <1>1, LinesAppended
  <1> HIDE DEF more
  <1>4. /\ type \in InBoth <=> type = "context"
        /\ type \in InOld <=> type # "add"
        /\ type \in InNew <=> type # "del"
    BY DEF InBoth, InOld, InNew
  <1> QED BY <1>2, <1>3, <1>4 DEF more, change, NotedHolds

LEMMA CompareOf ==
  ASSUME NEW X, NEW from \in Seq(X), NEW to \in Seq(X), NEW lcs \in Seq(X), NEW p, NEW q,
         FitsIn(p, lcs, from), FitsIn(q, lcs, to), NEW s \in Comparing(X, from, to, lcs, p, q)
  PROVE  /\ Prompt!Compare(from, to, lcs, s) \in Comparing(X, from, to, lcs, p, q)
         /\ IF s.i > Len(from) /\ s.j > Len(to) THEN Prompt!Compare(from, to, lcs, s) = s
            ELSE Prompt!Compare(from, to, lcs, s).i + Prompt!Compare(from, to, lcs, s).j > s.i + s.j
  <1> DEFINE next == Prompt!Compare(from, to, lcs, s)
             i == s.i
             j == s.j
             k == s.k
             m == Len(from)
             n == Len(to)
             size == Len(lcs)
             changes == s.changes
             State == [i : 1..(m + 1), j : 1..(n + 1), k : 1..(size + 1), changes : Seq(Change(X))]
             Noted(type, line) == Append(changes, [type |-> type, line |-> line])
             common == i <= m /\ j <= n /\ k <= size /\ from[i] = lcs[k] /\ to[j] = lcs[k]
  <1>1. /\ s \in State /\ i \in 1..(m + 1) /\ j \in 1..(n + 1) /\ k \in 1..(size + 1) /\ changes \in Seq(Change(X))
        /\ k <= size => i <= p[k] /\ j <= q[k]
        /\ Spells(Prompt!Lines(changes, InOld), from, i - 1) /\ Spells(Prompt!Lines(changes, InNew), to, j - 1)
        /\ Len(Prompt!Lines(changes, InBoth)) = k - 1
    BY DEF Comparing
  <1>2. m \in Nat /\ n \in Nat /\ size \in Nat
    OBVIOUS
  <1>3. /\ p \in [1..size -> Nat] /\ q \in [1..size -> Nat]
        /\ \A c \in 1..size : p[c] <= m /\ from[p[c]] = lcs[c] /\ q[c] <= n /\ to[q[c]] = lcs[c]
        /\ \A c, d \in 1..size : c < d => p[c] < p[d] /\ q[c] < q[d]
    BY DEF FitsIn
  <1>4. next = IF ~(i <= m) /\ ~(j <= n) THEN s
               ELSE IF common THEN [i |-> i + 1, j |-> j + 1, k |-> k + 1, changes |-> Noted("context", from[i])]
               ELSE IF i <= m /\ (k > size \/ from[i] # lcs[k])
                 THEN [i |-> i + 1, j |-> j, k |-> k, changes |-> Noted("del", from[i])]
               ELSE [i |-> i, j |-> j + 1, k |-> k, changes |-> Noted("add", to[j])]
    BY DEF Prompt!Compare
  <1>5. /\ i <= m => i \in 1..m /\ from[i] \in X
        /\ j <= n => j \in 1..n /\ to[j] \in X
        /\ k <= size => k \in 1..size
        /\ i \in Nat \ {0} /\ j \in Nat \ {0} /\ k \in Nat \ {0}
    BY <1>1, <1>2
  <1> HIDE DEF next, i, j, k, m, n, size, changes, common, State
  <1>6. CASE ~(i <= m) /\ ~(j <= n)
    <2>1. next = s /\ i > m /\ j > n
      BY <1>2, <1>4, <1>5, <1>6
    <2> QED BY <2>1 DEF next, i, j, m, n
  <1> DEFINE Good(t) == /\ t \in State
                        /\ t.k <= size => t.i <= p[t.k] /\ t.j <= q[t.k]
                        /\ Spells(Prompt!Lines(t.changes, InOld), from, t.i - 1)
                        /\ Spells(Prompt!Lines(t.changes, InNew), to, t.j - 1)
                        /\ Len(Prompt!Lines(t.changes, InBoth)) = t.k - 1
  <1>7. ASSUME Good(next), next.i + next.j > i + j, i <= m \/ j <= n
        PROVE  /\ next \in Comparing(X, from, to, lcs, p, q)
               /\ IF s.i > Len(from) /\ s.j > Len(to) THEN next = s ELSE next.i + next.j > s.i + s.j
    <2>1. next \in Comparing(X, from, to, lcs, p, q)
      BY <1>7 DEF Comparing, State, m, n, size
    <2>2. ~(i > m /\ j > n)
      BY <1>2, <1>5, <1>7
    <2> QED BY <1>7, <2>1, <2>2 DEF i, j, m, n
  <1>8. CASE common
    <2>1. i \in 1..m /\ from[i] \in X /\ j \in 1..n /\ to[j] \in X /\ k \in 1..size /\ from[i] = lcs[k] /\ to[j] = lcs[k]
      BY <1>5, <1>8 DEF common
    <2> DEFINE more == Noted("context", from[i])
               t == [i |-> i + 1, j |-> j + 1, k |-> k + 1, changes |-> more]
    <2>2. /\ more \in Seq(Change(X)) /\ \A types : Prompt!Lines(changes, types) \in Seq(X)
          /\ Prompt!Lines(more, InBoth) = Append(Prompt!Lines(changes, InBoth), from[i])
          /\ Prompt!Lines(more, InOld) = Append(Prompt!Lines(changes, InOld), from[i])
          /\ Prompt!Lines(more, InNew) = Append(Prompt!Lines(changes, InNew), from[i])
      <3>1. NotedHolds(more, X, changes, "context", from[i])
        <4> DEFINE type == "context"
                   line == from[i]
        <4>1. changes \in Seq(Change(X)) /\ line \in X /\ type \in {"context", "del", "add"}
              /\ more = Append(changes, [type |-> type, line |-> line])
          BY <1>1, <2>1
        <4> HIDE DEF type, line, more
        <4>2. NotedHolds(more, X, changes, type, line)
          BY <4>1, NotedOf
        <4> QED BY <4>2 DEF type, line
      <3> HIDE DEF more
      <3> QED BY <3>1 DEF NotedHolds
    <2>3. Spells(Prompt!Lines(more, InOld), from, i) /\ Spells(Prompt!Lines(more, InNew), to, j)
      <3>1. Prompt!Lines(more, InNew) = Append(Prompt!Lines(changes, InNew), to[j])
        BY <2>1, <2>2
      <3> HIDE DEF more
      <3> QED BY <1>1, <1>5, <2>1, <2>2, <3>1, SpellsMore
    <2>4. Len(Prompt!Lines(more, InBoth)) = k
      <3> DEFINE lines == Prompt!Lines(changes, InBoth)
      <3>1. lines \in Seq(X) /\ Len(lines) = k - 1
        BY <1>1, <2>2
      <3> HIDE DEF lines
      <3>2. Len(Append(lines, from[i])) = k
        BY <1>5, <2>1, <3>1
      <3> QED BY <2>2, <3>2 DEF lines
    <2> HIDE DEF more
    <2>5. next = t /\ t \in State /\ t.i = i + 1 /\ t.j = j + 1 /\ t.k = k + 1 /\ t.changes = more
      <3>1. ~(~(i <= m) /\ ~(j <= n))
        BY <2>1, <1>2
      <3>2. next = t
        BY <1>4, <1>8, <3>1 DEF more
      <3> QED BY <1>2, <2>1, <2>2, <3>2 DEF State
    <2> HIDE DEF t
    <2>6. k + 1 <= size => i + 1 <= p[k + 1] /\ j + 1 <= q[k + 1]
      <3> SUFFICES ASSUME k + 1 <= size PROVE i + 1 <= p[k + 1] /\ j + 1 <= q[k + 1]
        OBVIOUS
      <3>1. k + 1 \in 1..size /\ k < k + 1
        BY <1>2, <1>5
      <3>2. p[k] < p[k + 1] /\ q[k] < q[k + 1] /\ p[k] \in Nat /\ q[k] \in Nat /\ p[k + 1] \in Nat /\ q[k + 1] \in Nat
        BY <1>3, <2>1, <3>1
      <3>3. i <= p[k] /\ j <= q[k]
        BY <1>1, <1>2, <2>1
      <3> QED BY <1>5, <3>2, <3>3
    <2>7. Good(next)
      <3>1. (i + 1) - 1 = i /\ (j + 1) - 1 = j /\ (k + 1) - 1 = k
        BY <1>5
      <3> QED BY <2>3, <2>4, <2>5, <2>6, <3>1
    <2>8. next.i + next.j > i + j
      BY <1>5, <2>5
    <2>9. i <= m
      BY <1>8 DEF common
    <2> HIDE DEF Good
    <2> QED BY <1>7, <2>7, <2>8, <2>9 DEF next
  <1>9. CASE ~common /\ i <= m /\ (k > size \/ from[i] # lcs[k])
    <2>1. i \in 1..m /\ from[i] \in X
      BY <1>5, <1>9
    <2> DEFINE more == Noted("del", from[i])
               t == [i |-> i + 1, j |-> j, k |-> k, changes |-> more]
    <2>2. /\ more \in Seq(Change(X)) /\ \A types : Prompt!Lines(changes, types) \in Seq(X)
          /\ Prompt!Lines(more, InBoth) = Prompt!Lines(changes, InBoth)
          /\ Prompt!Lines(more, InOld) = Append(Prompt!Lines(changes, InOld), from[i])
          /\ Prompt!Lines(more, InNew) = Prompt!Lines(changes, InNew)
      <3>1. NotedHolds(more, X, changes, "del", from[i])
        <4> DEFINE type == "del"
                   line == from[i]
        <4>1. changes \in Seq(Change(X)) /\ line \in X /\ type \in {"context", "del", "add"}
              /\ more = Append(changes, [type |-> type, line |-> line])
          BY <1>1, <2>1
        <4> HIDE DEF type, line, more
        <4>2. NotedHolds(more, X, changes, type, line)
          BY <4>1, NotedOf
        <4> QED BY <4>2 DEF type, line
      <3> HIDE DEF more
      <3> QED BY <3>1 DEF NotedHolds
    <2> HIDE DEF more
    <2>3. Spells(Prompt!Lines(more, InOld), from, i)
      BY <1>1, <1>5, <2>1, <2>2, SpellsMore
    <2>5. next = t /\ t \in State /\ t.i = i + 1 /\ t.j = j /\ t.k = k /\ t.changes = more
      <3>1. next = t
        BY <1>4, <1>9 DEF more
      <3> QED BY <1>1, <1>2, <2>1, <2>2, <3>1 DEF State
    <2> HIDE DEF t
    <2>6. k <= size => i + 1 <= p[k] /\ j <= q[k]
      <3> SUFFICES ASSUME k <= size PROVE i + 1 <= p[k] /\ j <= q[k]
        OBVIOUS
      <3>1. k \in 1..size /\ i <= p[k] /\ j <= q[k] /\ p[k] \in Nat /\ from[p[k]] = lcs[k]
        BY <1>1, <1>3, <1>5
      <3>2. from[i] # lcs[k]
        BY <1>2, <1>5, <1>9
      <3>3. i # p[k]
        BY <3>1, <3>2
      <3> QED BY <1>5, <3>1, <3>3
    <2>7. Good(next)
      <3>1. (i + 1) - 1 = i
        BY <1>5
      <3> QED BY <1>1, <2>2, <2>3, <2>5, <2>6, <3>1
    <2>8. next.i + next.j > i + j
      BY <1>5, <2>5
    <2> HIDE DEF Good
    <2> QED BY <1>7, <1>9, <2>7, <2>8 DEF next
  <1>10. CASE ~common /\ ~(i <= m /\ (k > size \/ from[i] # lcs[k])) /\ (i <= m \/ j <= n)
    <2>1. j <= n /\ (k <= size => j < q[k])
      <3>1. CASE k > size
        BY <1>2, <1>5, <1>10, <3>1
      <3>2. CASE ~(k > size)
        <4>1. k \in 1..size /\ i <= p[k] /\ j <= q[k] /\ p[k] \in Nat /\ q[k] \in Nat /\ p[k] <= m /\ q[k] <= n
              /\ to[q[k]] = lcs[k]
          BY <1>1, <1>2, <1>3, <1>5, <3>2
        <4>2. i <= m /\ j <= n
          BY <1>2, <1>5, <4>1
        <4>3. from[i] = lcs[k] /\ k <= size
          BY <1>10, <4>1, <4>2, <1>2
        <4>4. to[j] # lcs[k]
          BY <1>10, <4>2, <4>3 DEF common
        <4>5. j # q[k]
          BY <4>1, <4>4
        <4> QED BY <1>5, <4>1, <4>2, <4>5
      <3> QED BY <3>1, <3>2
    <2>2. j \in 1..n /\ to[j] \in X
      BY <1>5, <2>1
    <2> DEFINE more == Noted("add", to[j])
               t == [i |-> i, j |-> j + 1, k |-> k, changes |-> more]
    <2>3. /\ more \in Seq(Change(X)) /\ \A types : Prompt!Lines(changes, types) \in Seq(X)
          /\ Prompt!Lines(more, InBoth) = Prompt!Lines(changes, InBoth)
          /\ Prompt!Lines(more, InOld) = Prompt!Lines(changes, InOld)
          /\ Prompt!Lines(more, InNew) = Append(Prompt!Lines(changes, InNew), to[j])
      <3>1. NotedHolds(more, X, changes, "add", to[j])
        <4> DEFINE type == "add"
                   line == to[j]
        <4>1. changes \in Seq(Change(X)) /\ line \in X /\ type \in {"context", "del", "add"}
              /\ more = Append(changes, [type |-> type, line |-> line])
          BY <1>1, <2>2
        <4> HIDE DEF type, line, more
        <4>2. NotedHolds(more, X, changes, type, line)
          BY <4>1, NotedOf
        <4> QED BY <4>2 DEF type, line
      <3> HIDE DEF more
      <3> QED BY <3>1 DEF NotedHolds
    <2> HIDE DEF more
    <2>4. Spells(Prompt!Lines(more, InNew), to, j)
      BY <1>1, <1>5, <2>2, <2>3, SpellsMore
    <2>5. next = t /\ t \in State /\ t.i = i /\ t.j = j + 1 /\ t.k = k /\ t.changes = more
      <3>1. next = t
        BY <1>4, <1>10 DEF more
      <3> QED BY <1>1, <1>2, <2>2, <2>3, <3>1 DEF State
    <2> HIDE DEF t
    <2>6. k <= size => i <= p[k] /\ j + 1 <= q[k]
      <3> SUFFICES ASSUME k <= size PROVE i <= p[k] /\ j + 1 <= q[k]
        OBVIOUS
      <3>1. k \in 1..size /\ i <= p[k] /\ j < q[k] /\ q[k] \in Nat
        BY <1>1, <1>3, <1>5, <2>1
      <3> QED BY <1>5, <3>1
    <2>7. Good(next)
      <3>1. (j + 1) - 1 = j
        BY <1>5
      <3> QED BY <1>1, <2>3, <2>4, <2>5, <2>6, <3>1
    <2>8. next.i + next.j > i + j
      BY <1>5, <2>5
    <2> HIDE DEF Good
    <2> QED BY <1>7, <2>1, <2>7, <2>8 DEF next
  <1> QED BY <1>6, <1>8, <1>9, <1>10

\* The diff of two contents.
DiffHolds(changes, from, to) ==
  /\ Prompt!Lines(changes, InOld) = from
  /\ Prompt!Lines(changes, InNew) = to
  /\ Len(from) * Len(to) <= MaxCells =>
       \A k \in Nat : Common(from, to, k, Len(from), Len(to)) => k <= Len(Prompt!Lines(changes, InBoth))

LEMMA SpellsAll ==
  ASSUME NEW X, NEW Y, NEW lines \in Seq(X), NEW text \in Seq(Y), Spells(lines, text, Len(text))
  PROVE  lines = text
  <1> DEFINE n == Len(text)
  <1>1. n \in Nat /\ Len(lines) = n /\ \A c \in 1..n : lines[c] = text[c]
    BY DEF Spells
  <1>2. lines = [c \in 1..n |-> lines[c]] /\ text = [c \in 1..n |-> text[c]]
    BY <1>1
  <1> HIDE DEF n
  <1> QED BY <1>1, <1>2

LEMMA DiffOf ==
  ASSUME NEW X, NEW from \in Seq(X), NEW to \in Seq(X)
  PROVE  DiffHolds(Prompt!Changes(from, to), from, to)
  <1> DEFINE m == Len(from)
             n == Len(to)
             lcs == Prompt!ComputeLCS(from, to)
             first == [i |-> 1, j |-> 1, k |-> 1, changes |-> <<>>]
             After(s) == Prompt!Compare(from, to, lcs, s)
             IsCompared(f) == f = [r \in 0..(m + n) |-> IF r = 0 THEN first ELSE After(f[r - 1])]
             compared == CHOOSE f : IsCompared(f)
             changes == Prompt!Changes(from, to)
  <1>1. m \in Nat /\ n \in Nat /\ m + n \in Nat
    OBVIOUS
  <1>2. changes = compared[m + n].changes
    BY DEF Prompt!Changes
  <1>3. /\ lcs \in Seq(X) /\ Found(lcs, from, 0) /\ Found(lcs, to, 0)
        /\ m * n <= MaxCells => \A k \in Nat : Common(from, to, k, m, n) => k <= Len(lcs)
    BY <1>1, LCSOf
  <1> HIDE DEF lcs, changes
  <1>4. PICK p : FitsIn(p, lcs, from) /\ \A c \in 1..Len(lcs) : 0 < p[c]
    BY <1>3 DEF Found, FitsIn
  <1>5. PICK q : FitsIn(q, lcs, to) /\ \A c \in 1..Len(lcs) : 0 < q[c]
    BY <1>3 DEF Found, FitsIn
  <1> DEFINE S == Comparing(X, from, to, lcs, p, q)
             nexts == [r \in 1..(m + n) |-> [s \in S |-> After(s)]]
  <1>6. first \in S
    <2> DEFINE none == <<>>
    <2>1. none \in Seq(Change(X)) /\ Len(none) = 0 /\ \A types : Prompt!Lines(none, types) = none
      BY LinesOfNone
    <2>2. /\ first \in [i : 1..(m + 1), j : 1..(n + 1), k : 1..(Len(lcs) + 1), changes : Seq(Change(X))]
          /\ first.i = 1 /\ first.j = 1 /\ first.k = 1 /\ first.changes = none
      <3>1. Len(lcs) \in Nat
        BY <1>3
      <3> QED BY <1>1, <2>1, <3>1
    <2> HIDE DEF first, none
    <2>3. \A text : Spells(none, text, 1 - 1)
      BY <2>1 DEF Spells
    <2>4. 1 <= Len(lcs) => 1 <= p[1] /\ 1 <= q[1]
      <3> SUFFICES ASSUME 1 <= Len(lcs) PROVE 1 <= p[1] /\ 1 <= q[1]
        OBVIOUS
      <3>1. Len(lcs) \in Nat
        BY <1>3
      <3>2. 1 \in 1..Len(lcs)
        BY <3>1
      <3>3. p[1] \in Nat /\ q[1] \in Nat
        BY <1>4, <1>5, <3>2 DEF FitsIn
      <3> QED BY <1>4, <1>5, <3>2, <3>3
    <2> QED BY <2>1, <2>2, <2>3, <2>4 DEF Comparing
  <1>7. \A s \in S : /\ After(s) \in S
                     /\ IF s.i > m /\ s.j > n THEN After(s) = s ELSE After(s).i + After(s).j > s.i + s.j
    BY <1>3, <1>4, <1>5, CompareOf
  <1>8. \A s \in S : /\ s.i \in 1..(m + 1) /\ s.j \in 1..(n + 1) /\ s.k \in 1..(Len(lcs) + 1)
                     /\ s.changes \in Seq(Change(X))
                     /\ s.k <= Len(lcs) => s.i <= p[s.k]
                     /\ Spells(Prompt!Lines(s.changes, InOld), from, s.i - 1)
                     /\ Spells(Prompt!Lines(s.changes, InNew), to, s.j - 1)
                     /\ Len(Prompt!Lines(s.changes, InBoth)) = s.k - 1
    BY DEF Comparing
  <1> HIDE DEF S, After, first, m, n
  <1>9. \E f : IsCompared(f)
    <2>1. nexts \in [1..(m + n) -> [S -> S]]
      BY <1>7
    <2>2. \A r \in 1..(m + n), s \in S : nexts[r][s] = After(s)
      OBVIOUS
    <2> HIDE DEF nexts
    <2>3. PICK f : Iterates(f, m + n, S, first, nexts)
      BY <1>1, <1>6, <2>1, Iterated
    <2>4. f \in [0..(m + n) -> S] /\ f[0] = first /\ \A r \in 1..(m + n) : f[r] = nexts[r][f[r - 1]]
      BY <2>3 DEF Iterates
    <2>5. \A r \in 1..(m + n) : f[r] = After(f[r - 1])
      <3> TAKE r \in 1..(m + n)
      <3>1. f[r - 1] \in S
        BY <1>1, <2>4
      <3> QED BY <2>2, <2>4, <3>1
    <2>6. IsCompared(f)
      BY <1>1, <2>4, <2>5
    <2> QED BY <2>6
  <1>10. IsCompared(compared)
    <2> HIDE DEF IsCompared
    <2> QED BY <1>9
  <1> HIDE DEF compared
  <1>11. compared[0] = first /\ \A r \in 1..(m + n) : compared[r] = After(compared[r - 1])
    BY <1>1, <1>10
  <1> HIDE DEF IsCompared
  <1>12. \A r \in 0..(m + n) : compared[r] \in S
    <2>1. compared[0] \in S /\ \A r \in 1..(m + n) : compared[r - 1] \in S => compared[r] \in S
      BY <1>6, <1>7, <1>11
    <2> QED BY <1>1, <2>1, IteratesStay
  <1> DEFINE Near(r) == (compared[r].i > m /\ compared[r].j > n) \/ compared[r].i + compared[r].j >= r + 2
             W == {r \in 0..(m + n) : Near(r)}
  <1>13. m + n \in W
    <2>1. 0 \in W
      <3>1. compared[0].i = 1 /\ compared[0].j = 1
        BY <1>11 DEF first
      <3> QED BY <1>1, <3>1
    <2>2. ASSUME NEW r \in 1..(m + n), r - 1 \in W PROVE r \in W
      <3> DEFINE s == compared[r - 1]
                 t == compared[r]
      <3>1. s \in S /\ t \in S /\ t = After(s)
        BY <1>1, <1>11, <1>12
      <3>2. /\ s.i \in Nat /\ s.j \in Nat /\ t.i \in Nat /\ t.j \in Nat
            /\ IF s.i > m /\ s.j > n THEN t = s ELSE t.i + t.j > s.i + s.j
        <4>1. s.i \in 1..(m + 1) /\ s.j \in 1..(n + 1) /\ t.i \in 1..(m + 1) /\ t.j \in 1..(n + 1)
          BY <1>8, <3>1
        <4>2. IF s.i > m /\ s.j > n THEN t = s ELSE t.i + t.j > s.i + s.j
          BY <1>7, <3>1
        <4> HIDE DEF s, t
        <4> QED BY <1>1, <4>1, <4>2
      <3>3. (s.i > m /\ s.j > n) \/ s.i + s.j >= (r - 1) + 2
        BY <2>2
      <3> HIDE DEF s, t
      <3>4. (t.i > m /\ t.j > n) \/ t.i + t.j >= r + 2
        BY <1>1, <3>2, <3>3
      <3>5. r \in 0..(m + n)
        BY <1>1
      <3> QED BY <3>4, <3>5 DEF t
    <2>3. m + n \in 0..(m + n)
      BY <1>1
    <2> HIDE DEF W
    <2>4. \A r \in 0..(m + n) : r \in W
      BY <1>1, <2>1, <2>2, UpFromZero
    <2> QED BY <2>3, <2>4
  <1> DEFINE last == compared[m + n]
  <1>14. last \in S /\ ((last.i > m /\ last.j > n) \/ last.i + last.j >= m + n + 2)
    BY <1>1, <1>12, <1>13
  <1>15. changes = last.changes
    BY <1>2
  <1> HIDE DEF last, W
  <1>16. last.i = m + 1 /\ last.j = n + 1
    <2>1. last.i \in 1..(m + 1) /\ last.j \in 1..(n + 1)
      BY <1>8, <1>14
    <2> QED BY <1>1, <1>14, <2>1
  <1>17. last.k = Len(lcs) + 1
    <2>1. last.k \in 1..(Len(lcs) + 1) /\ (last.k <= Len(lcs) => m + 1 <= p[last.k]) /\ Len(lcs) \in Nat
      BY <1>3, <1>8, <1>14, <1>16
    <2>2. \A c \in 1..Len(lcs) : p[c] \in Nat /\ p[c] <= m
      BY <1>4 DEF FitsIn, m
    <2>3. ~(last.k <= Len(lcs))
      <3> SUFFICES ASSUME last.k <= Len(lcs) PROVE FALSE
        OBVIOUS
      <3>1. last.k \in 1..Len(lcs)
        BY <2>1
      <3> QED BY <1>1, <2>1, <2>2, <3>1
    <2> QED BY <2>1, <2>3
  <1>18. /\ changes \in Seq(Change(X))
         /\ Spells(Prompt!Lines(changes, InOld), from, m) /\ Spells(Prompt!Lines(changes, InNew), to, n)
         /\ Len(Prompt!Lines(changes, InBoth)) = Len(lcs)
    <2>1. (m + 1) - 1 = m /\ (n + 1) - 1 = n /\ Len(lcs) \in Nat
      BY <1>1, <1>3
    <2>2. (Len(lcs) + 1) - 1 = Len(lcs)
      BY <2>1
    <2> QED BY <1>8, <1>14, <1>15, <1>16, <1>17, <2>1, <2>2
  <1>19. Prompt!Lines(changes, InOld) = from /\ Prompt!Lines(changes, InNew) = to
    <2>1. \A types : Prompt!Lines(changes, types) \in Seq(X)
      <3> TAKE types
      <3>1. PICK f : LinesHold(f, X, changes, types)
        BY <1>18, LinesUpTo
      <3>2. Len(changes) \in Nat
        BY <1>18
      <3> QED BY <3>1, <3>2 DEF LinesHold
    <2> QED BY <1>18, <2>1, SpellsAll DEF m, n
  <1> QED BY <1>3, <1>18, <1>19 DEF DiffHolds, changes, m, n

-----------------------------------------------------------------------------
\* A step of the platform is a step of the prompt versions, or leaves them alone.
LEMMA PromptStep == [Next]_vars => [Prompt!PromptNext]_(Prompt!promptVars)
  BY DEF Next, Others, vars, prompts, Prompt!promptVars

PromptVersion ==
  [label : VersionLabels, content : Contents, tags : SUBSET {"production", "experiment-winner"},
   score : PromptScores \cup {-1}]
PromptInv == versions \in Seq(PromptVersion)

LEMMA PromptInvStep == PromptInv /\ [Next]_vars => PromptInv'
  <1> SUFFICES ASSUME PromptInv, Prompt!PromptNext \/ UNCHANGED Prompt!promptVars PROVE PromptInv'
    BY PromptStep
  <1>0. \A k \in 1..Len(versions) : versions[k] \in PromptVersion
    BY DEF PromptInv
  <1>1. CASE UNCHANGED versions
    BY <1>1 DEF PromptInv
  <1>2. ASSUME NEW label \in VersionLabels, NEW text \in Contents, Prompt!Register(label, text) PROVE PromptInv'
    <2> DEFINE v == [label |-> label, content |-> text, tags |-> {}, score |-> -1]
    <2>1. v \in PromptVersion
      BY DEF PromptVersion
    <2>2. versions' = Append(versions, v)
      BY <1>2 DEF Prompt!Register
    <2> HIDE DEF v
    <2> QED BY <2>1, <2>2 DEF PromptInv
  <1>3. /\ \A v \in PromptVersion, tags \in SUBSET {"production", "experiment-winner"} :
             [v EXCEPT !.tags = tags] \in PromptVersion
        /\ \A v \in PromptVersion, score \in PromptScores : [v EXCEPT !.score = score] \in PromptVersion
    BY DEF PromptVersion
  <1>4. \A v \in PromptVersion : v.tags \in SUBSET {"production", "experiment-winner"}
    BY DEF PromptVersion
  <1>5. ASSUME NEW k \in 1..Len(versions), NEW v \in PromptVersion, versions' = [versions EXCEPT ![k] = v]
        PROVE  PromptInv'
    BY <1>5 DEF PromptInv
  <1>6. ASSUME NEW k \in 1..Len(versions), Prompt!Tag(k, "production") PROVE PromptInv'
    <2> DEFINE old == versions[k]
               more == old.tags \cup {"production"}
               less == old.tags \ {"production"}
    <2>1. old \in PromptVersion /\ more \in SUBSET {"production", "experiment-winner"}
          /\ less \in SUBSET {"production", "experiment-winner"}
      BY <1>0, <1>4
    <2>2. \/ versions' = [versions EXCEPT ![k] = [old EXCEPT !.tags = more]]
          \/ versions' = [versions EXCEPT ![k] = [old EXCEPT !.tags = less]]
      BY <1>6 DEF Prompt!Tag
    <2> HIDE DEF old, more, less
    <2> QED BY <1>3, <1>5, <2>1, <2>2
  <1>7. ASSUME NEW k \in 1..Len(versions), NEW score \in PromptScores, Prompt!RecordEvalScore(k, score)
        PROVE  PromptInv'
    <2> DEFINE old == versions[k]
    <2>1. old \in PromptVersion
      BY <1>0
    <2>2. versions' = [versions EXCEPT ![k] = [old EXCEPT !.score = score]]
      BY <1>7 DEF Prompt!RecordEvalScore
    <2> HIDE DEF old
    <2> QED BY <1>3, <1>4, <1>5, <2>1, <2>2
  <1>8. ASSUME NEW e, NEW control, NEW treatment, Prompt!CompleteExperiment(e, control, treatment) PROVE PromptInv'
    <2> DEFINE Won(v) == [v EXCEPT !.tags = v.tags \cup {"experiment-winner"}]
               winner == Prompt!Winner(control, treatment)
               label == IF winner = "treatment" THEN experiments[e].treatment ELSE experiments[e].control
               wins(k) == winner # "inconclusive" /\ versions[k].label = label
    <2>1. \A v \in PromptVersion : Won(v) \in PromptVersion
      <3> TAKE v \in PromptVersion
      <3>1. v.tags \cup {"experiment-winner"} \in SUBSET {"production", "experiment-winner"}
        BY <1>4
      <3> QED BY <3>1 DEF PromptVersion
    <2>2. versions' = [k \in 1..Len(versions) |-> IF wins(k) THEN Won(versions[k]) ELSE versions[k]]
      BY <1>8 DEF Prompt!CompleteExperiment
    <2> HIDE DEF Won, wins
    <2>3. versions' \in [1..Len(versions) -> PromptVersion]
      BY <1>0, <2>1, <2>2
    <2>4. Len(versions) \in Nat
      BY DEF PromptInv
    <2> QED BY <2>3, <2>4, SeqDef DEF PromptInv
  <1>9. CASE UNCHANGED Prompt!promptVars
    BY <1>1, <1>9 DEF Prompt!promptVars
  <1>10. ASSUME Prompt!PromptNext PROVE PromptInv'
    <2>1. CASE \E control, treatment \in VersionLabels : Prompt!CreateExperiment(control, treatment)
      BY <1>1, <2>1 DEF Prompt!CreateExperiment
    <2>2. CASE \E e \in 1..Len(experiments) : Prompt!StartExperiment(e)
      BY <1>1, <2>2 DEF Prompt!StartExperiment
    <2> QED BY <1>2, <1>6, <1>7, <1>8, <1>10, <2>1, <2>2 DEF Prompt!PromptNext
  <1> QED BY <1>9, <1>10

(* For any contents: the diff of two versions, without its additions, is the  *)
(* old content, without its deletions the new one, and, up to MaxCells pairs   *)
(* of lines, no longer common subsequence of the two exists.                *)
THEOREM DiffsAreMinimal == Spec => []DiffIsMinimal
  <1>1. Init => PromptInv
    BY DEF Init, Prompt!Init, PromptInv
  <1>2. PromptInv => DiffIsMinimal
    <2> SUFFICES ASSUME PromptInv, NEW k \in 1..Len(versions), NEW l \in 1..Len(versions)
                 PROVE  LET from == versions[k].content
                            to == versions[l].content
                            changes == Prompt!Changes(from, to)
                        IN  /\ Prompt!Lines(changes, {"context", "del"}) = from
                            /\ Prompt!Lines(changes, {"context", "add"}) = to
                            /\ Len(from) * Len(to) <= MaxCells =>
                                 \A n \in 1..Len(from) :
                                   \A p \in Prompt!Places(n, Len(from)), q \in Prompt!Places(n, Len(to)) :
                                     (\A c \in 1..n : from[p[c]] = to[q[c]]) =>
                                        n <= Len(Prompt!Lines(changes, {"context"}))
      BY DEF DiffIsMinimal, Prompt!DiffIsMinimal
    <2> DEFINE from == versions[k].content
               to == versions[l].content
               X == {from[i] : i \in DOMAIN from} \cup {to[i] : i \in DOMAIN to}
               changes == Prompt!Changes(from, to)
    <2>1. from \in Contents /\ to \in Contents
      <3>1. versions[k] \in PromptVersion /\ versions[l] \in PromptVersion
        BY DEF PromptInv
      <3> QED BY <3>1 DEF PromptVersion
    <2> HIDE DEF from, to, changes
    <2>2. from \in Seq(X) /\ to \in Seq(X)
      <3>1. from \in Seq({from[i] : i \in DOMAIN from}) /\ to \in Seq({to[i] : i \in DOMAIN to})
        BY <2>1, PromptAssumption
      <3>2. /\ Len(from) \in Nat /\ Len(to) \in Nat
            /\ from \in [1..Len(from) -> X] /\ to \in [1..Len(to) -> X]
        BY <3>1
      <3> QED BY ZenonT(30), <3>2, SeqDef
    <2> HIDE DEF X
    <2>3. DiffHolds(changes, from, to)
      BY <2>2, DiffOf DEF changes
    <2>4. Len(from) * Len(to) <= MaxCells =>
            \A n \in 1..Len(from) : \A p \in Prompt!Places(n, Len(from)), q \in Prompt!Places(n, Len(to)) :
              (\A c \in 1..n : from[p[c]] = to[q[c]]) => n <= Len(Prompt!Lines(changes, InBoth))
      BY <2>3 DEF DiffHolds, Common
    <2> QED BY <2>3, <2>4 DEF DiffHolds, InOld, InNew, InBoth, from, to, changes
  <1> QED BY <1>1, <1>2, PromptInvStep, PTL DEF Spec
=============================================================================
