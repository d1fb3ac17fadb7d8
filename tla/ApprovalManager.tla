-------------------------- MODULE ApprovalManager --------------------------
(***************************************************************************)
(* Human approval gates (packages/core/src/workflow/approval.ts) and their  *)
(* two clients: the approval nodes of the engine, which request an approval *)
(* and wait for it, and the HTTP API, whose callers approve and reject      *)
(* whatever is listed.  Timers and the event store interleave with both.    *)
(*                                                                         *)
(* A definition Def_Bug is a variant of Def with a plausible fault; it is   *)
(* not part of the specification.                                          *)
(***************************************************************************)
EXTENDS Naturals, Sequences

CONSTANTS
  Approvals,    \* the ids generateId may return
  Waiters,      \* bound on the calls of waitForApproval
  none,         \* no waiter, no approval
  AutoApprove,  \* timeoutAction = "approve"?
  StoreFaults   \* may the event bus throw?

ASSUME ApprovalAssumption ==
  /\ none \notin Waiters \cup Approvals
  /\ AutoApprove \in BOOLEAN /\ StoreFaults \in BOOLEAN

VARIABLES
  status,    \* approvals: the status of each request
  request,   \* where requestApproval is, per approval
  owner,     \* pending: whose promise a decision resolves, per approval
  announce,  \* where approve, reject or the timer is with its event
  log,       \* the decisions in the event store
  target,    \* the approval each waiter waits for
  timer,     \* each waiter's timer
  answer,    \* what each waiter's promise resolved to
  disposed   \* was dispose called?

gates   == <<status, owner, announce>>
waiting == <<target, timer, answer>>
vars    == <<gates, request, log, waiting, disposed>>

Decisions == {"approved", "rejected", "timed_out"}

Init ==
  /\ status = [a \in Approvals |-> "absent"]
  /\ request = [a \in Approvals |-> "idle"]
  /\ owner = [a \in Approvals |-> none]
  /\ announce = [a \in Approvals |-> "idle"]
  /\ log = <<>>
  /\ target = [w \in Waiters |-> none]
  /\ timer = [w \in Waiters |-> "off"]
  /\ answer = [w \in Waiters |-> "waiting"]
  /\ disposed = FALSE

-----------------------------------------------------------------------------
(* requestApproval: listed at once, then announced.  When the event is not  *)
(* persisted the call throws and the approval stays listed.                 *)
RequestApproval(a) ==
  /\ status[a] = "absent"
  /\ status' = [status EXCEPT ![a] = "pending"]
  /\ request' = [request EXCEPT ![a] = "announcing"]
  /\ UNCHANGED <<owner, announce, log, waiting, disposed>>

Requested(a) ==
  /\ request[a] = "announcing"
  /\ \/ request' = [request EXCEPT ![a] = "returned"]
     \/ StoreFaults /\ request' = [request EXCEPT ![a] = "threw"]
  /\ UNCHANGED <<gates, log, waiting, disposed>>

(* approve and reject: the status, the waiter's promise and its timer are   *)
(* settled before the event is published.                                   *)
Settle(a, d) ==
  /\ status' = [status EXCEPT ![a] = d]
  /\ owner' = [owner EXCEPT ![a] = none]
  /\ timer' = [w \in Waiters |-> IF w = owner[a] THEN "off" ELSE timer[w]]
  /\ answer' = [w \in Waiters |-> IF w = owner[a] THEN d ELSE answer[w]]

Decide_Unchecked(a, d) ==
  /\ status[a] # "absent" /\ announce[a] = "idle"
  /\ Settle(a, d)
  /\ announce' = [announce EXCEPT ![a] = d]
  /\ UNCHANGED <<request, log, target, disposed>>

Decide(a, d) ==
  /\ status[a] = "pending"
  /\ Settle(a, d)
  /\ announce' = [announce EXCEPT ![a] = d]
  /\ UNCHANGED <<request, log, target, disposed>>

Approve(a) == Decide(a, "approved")
Reject(a)  == Decide(a, "rejected")

\* The event of the decision is persisted, or the caller gets the error of a
\* decision that stands.
Record(a, d) ==
  /\ \/ log' = Append(log, <<a, d>>)
     \/ StoreFaults /\ UNCHANGED log
  /\ announce' = [announce EXCEPT ![a] = "done"]

Announced(a) ==
  /\ announce[a] \in {"approved", "rejected"}
  /\ Record(a, announce[a])
  /\ UNCHANGED <<status, owner, request, waiting, disposed>>

-----------------------------------------------------------------------------
(* waitForApproval, after requestApproval returned the id.  A second wait    *)
(* on the same approval takes the place of the first.                       *)
Calls(w, a) ==
  /\ request[a] = "returned" /\ target[w] = none
  /\ target' = [target EXCEPT ![w] = a]

WaitDecided_Unchecked(w, a) ==
  /\ Calls(w, a)
  /\ answer' = [answer EXCEPT ![w] = status[a]]
  /\ UNCHANGED <<gates, request, log, timer, disposed>>

WaitDecided(w, a) ==
  /\ Calls(w, a) /\ status[a] # "pending"
  /\ answer' = [answer EXCEPT ![w] = status[a]]
  /\ UNCHANGED <<gates, request, log, timer, disposed>>

WaitPending_NotRegistered(w, a) ==
  /\ Calls(w, a) /\ status[a] = "pending"
  /\ \E t \in {"off", "armed"} :
       /\ timer' = [timer EXCEPT ![w] = t]
       /\ owner' = [owner EXCEPT ![a] = IF t = "off" THEN w ELSE @]
  /\ UNCHANGED <<status, announce, request, log, answer, disposed>>

WaitPending(w, a) ==
  /\ Calls(w, a) /\ status[a] = "pending"
  /\ owner' = [owner EXCEPT ![a] = w]
  /\ \E t \in {"off", "armed"} : timer' = [timer EXCEPT ![w] = t]
  /\ UNCHANGED <<status, announce, request, log, answer, disposed>>

\* The timer fires, too late or in time; the waiter is answered only after
\* the event.
FireLate(w) ==
  /\ timer[w] = "armed" /\ status[target[w]] # "pending"
  /\ timer' = [timer EXCEPT ![w] = "off"]
  /\ UNCHANGED <<gates, request, log, target, answer, disposed>>

Fire_Unchecked(w) ==
  /\ timer[w] = "armed"
  /\ timer' = [timer EXCEPT ![w] = "announcing"]
  /\ status' = [status EXCEPT ![target[w]] = "timed_out"]
  /\ owner' = [owner EXCEPT ![target[w]] = none]
  /\ UNCHANGED <<announce, request, log, target, answer, disposed>>

Fire(w) ==
  /\ timer[w] = "armed" /\ status[target[w]] = "pending"
  /\ timer' = [timer EXCEPT ![w] = "announcing"]
  /\ status' = [status EXCEPT ![target[w]] = "timed_out"]
  /\ owner' = [owner EXCEPT ![target[w]] = none]
  /\ UNCHANGED <<announce, request, log, target, answer, disposed>>

Expired_OnlyIfPublished(w) ==
  /\ timer[w] = "announcing"
  /\ Record(target[w], "timed_out")
  /\ timer' = [timer EXCEPT ![w] = "off"]
  /\ answer' = [answer EXCEPT ![w] = IF log' = log THEN @ ELSE "timed_out"]
  /\ UNCHANGED <<status, owner, request, target, disposed>>

Expired(w) ==
  /\ timer[w] = "announcing"
  /\ Record(target[w], "timed_out")
  /\ timer' = [timer EXCEPT ![w] = "off"]
  /\ answer' = [answer EXCEPT ![w] = "timed_out"]
  /\ UNCHANGED <<status, owner, request, target, disposed>>

\* dispose: the timers of the registered waiters are cleared, nobody is told.
Dispose ==
  /\ ~disposed /\ disposed' = TRUE
  /\ owner' = [a \in Approvals |-> none]
  /\ timer' = [w \in Waiters |-> IF \E a \in Approvals : owner[a] = w THEN "off" ELSE timer[w]]
  /\ UNCHANGED <<status, announce, request, log, target, answer>>

-----------------------------------------------------------------------------
TimerStep(w) == Fire(w) \/ FireLate(w) \/ Expired(w)

Next ==
  \/ \E a \in Approvals : RequestApproval(a) \/ Requested(a) \/ Approve(a) \/ Reject(a) \/ Announced(a)
  \/ \E w \in Waiters : TimerStep(w) \/ \E a \in Approvals : WaitDecided(w, a) \/ WaitPending(w, a)
  \/ Dispose

Spec == Init /\ [][Next]_vars

\* A timer that is not cleared fires and an event write ends, well or badly.
\* Nobody is obliged to approve, reject, wait or dispose.
FairSpec == Spec /\ \A w \in Waiters : WF_vars(TimerStep(w))

-----------------------------------------------------------------------------
\* executeApprovalNode: what the node makes of the answer.
NodePasses(w) ==
  \/ answer[w] = "approved"
  \/ answer[w] = "timed_out" /\ AutoApprove

Alone(w) == \A v \in Waiters \ {w} : target[v] # target[w]
Waiting(w) == target[w] # none /\ answer[w] = "waiting"

GatesOK ==
  /\ status \in [Approvals -> {"absent", "pending"} \cup Decisions]
  /\ request \in [Approvals -> {"idle", "announcing", "returned", "threw"}]
  /\ owner \in [Approvals -> Waiters \cup {none}]
  /\ announce \in [Approvals -> {"idle", "approved", "rejected", "done"}]

WaitersOK ==
  /\ target \in [Waiters -> Approvals \cup {none}]
  /\ timer \in [Waiters -> {"off", "armed", "announcing"}]
  /\ answer \in [Waiters -> {"waiting"} \cup Decisions]

TypeOK == GatesOK /\ WaitersOK /\ log \in Seq(Approvals \X Decisions) /\ disposed \in BOOLEAN

(* The first of approve, reject and timeout wins: what was decided is never *)
(* decided again, whichever of them is in flight.                           *)
DecisionIsFinal ==
  [][\A a \in Approvals : status[a] \in Decisions => status'[a] = status[a]]_vars

(* The answer a node gets is the decision the API shows: a node passes only *)
(* when its gate was approved, or timed out with auto-approval.             *)
AnswerIsTheDecision ==
  \A w \in Waiters : answer[w] # "waiting" =>
    /\ answer[w] = status[target[w]]
    /\ NodePasses(w) => status[target[w]] \in {"approved"} \cup (IF AutoApprove THEN {"timed_out"} ELSE {})

(* The audit trail tells one decision per approval, the one that stands,    *)
(* although the event is written after the decision.                        *)
LogTellsTheDecision ==
  /\ \A i \in DOMAIN log : log[i][2] = status[log[i][1]]
  /\ \A i, j \in DOMAIN log : i # j => log[i][1] # log[j][1]

(* No waiter is lost: the only waiter of a gate that has no answer yet is   *)
(* the one a decision will resolve, or its timer is about to answer it.     *)
NoLostWaiter ==
  \A w \in Waiters : Waiting(w) /\ Alone(w) /\ ~disposed =>
    \/ status[target[w]] = "pending" /\ owner[target[w]] = w
    \/ timer[w] = "announcing"

(* A gate with a timeout does not hold its workflow for ever: its only      *)
(* waiter is answered, unless the manager is disposed.                      *)
TimeoutAnswers ==
  \A w \in Waiters :
    timer[w] # "off" ~> answer[w] # "waiting" \/ ~Alone(w) \/ disposed
=============================================================================
