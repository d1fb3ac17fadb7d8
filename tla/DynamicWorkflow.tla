-------------------------- MODULE DynamicWorkflow --------------------------
(***************************************************************************)
(* The dynamic mode of the workflow engine (packages/core/src/workflow/     *)
(* dynamic.ts) and the handoffs of its orchestrator (packages/core/src/     *)
(* agent/handoff.ts).                                                      *)
(*                                                                         *)
(* The orchestrator runs one turn; its model calls the handoff tool, one     *)
(* call at a time, and each accepted call runs a turn of a new runtime of     *)
(* the target.  Every event published, and every turn, may fail.             *)
(***************************************************************************)
EXTENDS Integers, Sequences

CONSTANTS
  MaxHandoffs,   \* maxHandoffs
  MaxToolCalls   \* bound on the handoff calls (maxToolRounds of the runtime)

VARIABLES
  dynAt,         \* execute: start, announce, turn, completing, failing, finally, resolved, threw
  orchestrator,  \* its runtime: none, initializing, running, stopped
  handoffAt,     \* the handoff tool: none, request, create, turn, accept, stop, reject
  target,        \* the runtime of this handoff's target: none, initializing, running, stopped
  accepted,      \* whether the result of the handoff is accepted so far
  verdicts,      \* the events of the handoff
  handoffCount,  \* handoffCount of the run
  results,       \* the results the orchestrator was given, with what had become of the handoff
  nodeEvents,    \* the events of the node "orchestrator"
  course         \* for the properties only: did the target run its turn, did its stop fail?

runtimeVars == <<orchestrator, target>>
handoffVars == <<handoffAt, accepted, verdicts, results, handoffCount, course>>
dynamicVars == <<dynAt, runtimeVars, handoffVars, nodeEvents>>

Init ==
  /\ dynAt = "start" /\ orchestrator = "none" /\ target = "none" /\ handoffAt = "none" /\ accepted = FALSE
  /\ verdicts = {} /\ handoffCount = 0 /\ results = <<>> /\ nodeEvents = {} /\ course = {}

-----------------------------------------------------------------------------
\* createAgentRuntime: initialize publishes two events; the runtime runs after the first.
CreateOrchestrator ==
  /\ dynAt = "start"
  /\ \/ orchestrator' = "running" /\ dynAt' = "announce"
     \/ orchestrator' \in {"initializing", "running"} /\ dynAt' = "threw"
  /\ UNCHANGED <<target, handoffVars, nodeEvents>>

\* Outside the try: when the announcement fails, nobody stops the orchestrator.
AnnounceNode ==
  /\ dynAt = "announce"
  /\ \/ nodeEvents' = {"started"} /\ dynAt' = "turn"
     \/ UNCHANGED nodeEvents /\ dynAt' = "threw"
  /\ UNCHANGED <<runtimeVars, handoffVars>>

TurnEnds ==
  /\ dynAt = "turn" /\ handoffAt = "none" /\ dynAt' \in {"completing", "failing"}
  /\ UNCHANGED <<runtimeVars, handoffVars, nodeEvents>>

CompleteNode ==
  /\ dynAt = "completing"
  /\ \/ nodeEvents' = nodeEvents \cup {"completed"} /\ dynAt' = "finally"
     \/ UNCHANGED nodeEvents /\ dynAt' = "failing"
  /\ UNCHANGED <<runtimeVars, handoffVars>>

FailNode ==
  /\ dynAt = "failing" /\ dynAt' = "finally"
  /\ nodeEvents' \in {nodeEvents, nodeEvents \cup {"failed"}}
  /\ UNCHANGED <<runtimeVars, handoffVars>>

\* The count is reset and the orchestrator stopped; stop may throw when its event fails.
Finally ==
  /\ dynAt = "finally" /\ handoffCount' = 0 /\ orchestrator' = "stopped"
  /\ dynAt' \in {"threw"} \cup IF "completed" \in nodeEvents THEN {"resolved"} ELSE {}
  /\ UNCHANGED <<target, handoffAt, accepted, verdicts, results, nodeEvents, course>>

-----------------------------------------------------------------------------
Answer(result) ==
  results' = Append(results, [accepted |-> result, events |-> verdicts', target |-> target', course |-> course'])

\* The handler: a target that is missing, not allowed or unknown is answered at once.
HandoffCalled ==
  /\ dynAt = "turn" /\ handoffAt = "none" /\ Len(results) < MaxToolCalls
  /\ accepted' = FALSE /\ target' = "none" /\ course' = {}
  /\ \/ handoffAt' = "request" /\ UNCHANGED <<results, verdicts>>
     \/ verdicts' = {} /\ Answer(FALSE) /\ UNCHANGED handoffAt
  /\ UNCHANGED <<dynAt, orchestrator, handoffCount, nodeEvents>>

\* The request's event is outside the try: its failure is the tool's.
HandoffRequested ==
  /\ handoffAt = "request"
  /\ UNCHANGED <<dynAt, runtimeVars, accepted, handoffCount, nodeEvents, course>>
  /\ \/ verdicts' = {"requested"} /\ handoffAt' = "create" /\ UNCHANGED results
     \/ verdicts' = {} /\ Answer(FALSE) /\ handoffAt' = "none"

CreateTarget ==
  /\ handoffAt = "create"
  /\ \/ target' = "running" /\ handoffAt' = "turn"
     \/ target' \in {"initializing", "running"} /\ handoffAt' = "reject"
  /\ UNCHANGED <<dynAt, orchestrator, accepted, verdicts, results, handoffCount, nodeEvents, course>>

TargetTurn ==
  /\ handoffAt = "turn"
  /\ \/ handoffAt' = "accept" /\ handoffCount' = handoffCount + 1
     \/ handoffAt' = "stop" /\ UNCHANGED handoffCount
  /\ course' = {"turn"}
  /\ UNCHANGED <<dynAt, runtimeVars, accepted, verdicts, results, nodeEvents>>

AcceptHandoff ==
  /\ handoffAt = "accept" /\ handoffAt' = "stop"
  /\ \/ accepted' = TRUE /\ verdicts' = verdicts \cup {"accepted"}
     \/ UNCHANGED <<accepted, verdicts>>
  /\ UNCHANGED <<dynAt, runtimeVars, results, handoffCount, nodeEvents, course>>

(* The finally: when stop throws, an accepted handoff is rejected after all; *)
(* after a failure the handoff is rejected whether stop throws or not.      *)
StopTarget_OnSuccess ==
  /\ handoffAt = "stop" /\ target' = IF accepted THEN "stopped" ELSE target
  /\ \/ /\ accepted /\ handoffAt' = "none" /\ UNCHANGED <<accepted, verdicts, course>>
        /\ Answer(TRUE)
     \/ /\ ~accepted /\ handoffAt' = "reject" /\ UNCHANGED <<accepted, verdicts, results, course>>
  /\ UNCHANGED <<dynAt, orchestrator, handoffCount, nodeEvents>>

StopTarget ==
  /\ handoffAt = "stop" /\ target' = "stopped"
  /\ \/ /\ accepted /\ handoffAt' = "none" /\ UNCHANGED <<accepted, verdicts, course>>
        /\ Answer(TRUE)
     \/ /\ ~accepted /\ handoffAt' = "reject" /\ UNCHANGED <<accepted, verdicts, results, course>>
     \/ /\ handoffAt' = "reject" /\ accepted' = FALSE /\ course' = course \cup {"stop failed"}
        /\ UNCHANGED <<verdicts, results>>
  /\ UNCHANGED <<dynAt, orchestrator, handoffCount, nodeEvents>>

RejectHandoff ==
  /\ handoffAt = "reject" /\ handoffAt' = "none"
  /\ UNCHANGED <<dynAt, runtimeVars, accepted, handoffCount, nodeEvents, course>>
  /\ verdicts' \in {verdicts, verdicts \cup {"rejected"}} /\ Answer(FALSE)

DynamicNext ==
  \/ CreateOrchestrator \/ AnnounceNode \/ TurnEnds \/ CompleteNode \/ FailNode \/ Finally
  \/ HandoffCalled \/ HandoffRequested \/ CreateTarget \/ TargetTurn \/ AcceptHandoff \/ StopTarget
  \/ RejectHandoff

Spec == Init /\ [][DynamicNext]_dynamicVars

-----------------------------------------------------------------------------
(* Whatever event, turn or stop failed: an orchestrator that was announced    *)
(* is stopped when execute settles.  When a handoff is answered, the target   *)
(* that was given its turn is stopped; the orchestrator sees the handoff as    *)
(* accepted exactly when it was announced so and the target's stop did not     *)
(* fail, and then it was announced as nothing else.                           *)
Closed(handoff) ==
  /\ "turn" \in handoff.course => handoff.target = "stopped"
  /\ (handoff.accepted <=> "accepted" \in handoff.events /\ "stop failed" \notin handoff.course)
  /\ handoff.accepted => handoff.events = {"requested", "accepted"} /\ "turn" \in handoff.course

HandoffsAreClosed ==
  /\ dynAt \in {"resolved", "threw"} /\ nodeEvents # {} => orchestrator = "stopped"
  /\ \A k \in DOMAIN results : Closed(results[k])

-----------------------------------------------------------------------------
(* What the code does not keep: the limit of types/src/workflow.ts:153, which *)
(* is only warned about, *)
HandoffsAreLimited == handoffCount <= MaxHandoffs

(* ... one verdict for a handoff (a stop that fails after the acceptance was  *)
(* announced makes it a rejection), *)
OneVerdict == ~({"accepted", "rejected"} \subseteq verdicts)

(* ... no target left when its handoff is answered (one whose initialization  *)
(* failed is not stopped), *)
TargetsAreStopped == \A k \in DOMAIN results : results[k].target \in {"none", "stopped"}

(* ... and no runtime left when execute has settled. *)
NothingIsLeft == dynAt \in {"resolved", "threw"} => orchestrator = "stopped"
=============================================================================
