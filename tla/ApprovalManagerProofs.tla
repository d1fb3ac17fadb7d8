----------------------- MODULE ApprovalManagerProofs -----------------------
(***************************************************************************)
(* Theorems about ApprovalManager, for any sets of approvals and waiters.   *)
(*                                                                         *)
(* One inductive invariant, GateInv, carries them all: who owns a gate is   *)
(* waiting for it (Owned), who is about to report a timeout caused it and   *)
(* is the only one (Expiring), and a decision whose event is still to be    *)
(* written is not in the log yet (Unlogged).                                *)
(***************************************************************************)
EXTENDS ApprovalManager, TLAPS

\* The entry of the pending map is that of a waiter without an answer.
Owned ==
  \A a \in Approvals, w \in Waiters : owner[a] = w =>
    target[w] = a /\ answer[w] = "waiting" /\ status[a] = "pending" /\ timer[w] # "announcing"

\* Waiters wait for approvals that were requested.
Targets ==
  \A w \in Waiters :
    /\ target[w] = none => timer[w] = "off" /\ answer[w] = "waiting"
    /\ target[w] # none => status[target[w]] # "absent"

\* request returned: the approval is in the map.
Listed == \A a \in Approvals : request[a] # "idle" => status[a] # "absent"

\* The decision being announced is the one that was taken.
Announcing ==
  \A a \in Approvals :
    /\ announce[a] \in {"approved", "rejected"} => status[a] = announce[a]
    /\ announce[a] # "idle" => status[a] \in Decisions

\* The waiter about to report a timeout is the one whose timer expired.
Expiring ==
  /\ \A w \in Waiters : timer[w] = "announcing" =>
       status[target[w]] = "timed_out" /\ answer[w] = "waiting"
  /\ \A v, w \in Waiters :
       timer[v] = "announcing" /\ timer[w] = "announcing" /\ target[v] = target[w] => v = w

\* A decision whose event is not written yet is not in the log.
Unlogged ==
  \A i \in DOMAIN log :
    /\ announce[log[i][1]] \notin {"approved", "rejected"}
    /\ \A w \in Waiters : timer[w] = "announcing" => target[w] # log[i][1]

GateInv ==
  /\ TypeOK /\ Owned /\ Targets /\ Listed /\ Announcing /\ Expiring /\ Unlogged
  /\ AnswerIsTheDecision /\ LogTellsTheDecision /\ NoLostWaiter

\* What the entries of the log are.
LEMMA LogEntries ==
  ASSUME TypeOK
  PROVE  GatesOK /\ WaitersOK /\ \A i \in DOMAIN log : log[i][1] \in Approvals /\ log[i][2] \in Decisions
BY DEF TypeOK

LEMMA InitInv == Init => GateInv
<1> SUFFICES ASSUME Init PROVE GateInv
  OBVIOUS
<1> USE ApprovalAssumption DEF Init, Decisions
<1>1. TypeOK
  <2>1. GatesOK
    BY DEF TypeOK, GatesOK, WaitersOK
  <2>2. WaitersOK
    BY DEF TypeOK, GatesOK, WaitersOK
  <2>3. log \in Seq(Approvals \X Decisions)
    <3> HIDE DEF Decisions
    <3> QED BY DEF Init
  <2>4. disposed \in BOOLEAN
    BY DEF Init
  <2> QED
    BY <2>1, <2>2, <2>3, <2>4 DEF TypeOK
<1>2. Owned /\ Targets /\ Listed /\ Announcing /\ Expiring /\ Unlogged
  BY DEF Owned, Targets, Listed, Announcing, Expiring, Unlogged
<1>3. AnswerIsTheDecision /\ LogTellsTheDecision /\ NoLostWaiter
  BY DEF AnswerIsTheDecision, LogTellsTheDecision, NoLostWaiter, NodePasses, Waiting
<1> QED
  BY <1>1, <1>2, <1>3 DEF GateInv

(* Each action preserves the invariant.                                     *)
LEMMA RequestInv ==
  ASSUME GateInv, NEW a \in Approvals, RequestApproval(a) \/ Requested(a)
  PROVE  GateInv'
<1> USE ApprovalAssumption DEF GateInv, RequestApproval, Requested, gates, waiting, Decisions
<1>1. TypeOK'
  <2>1. GatesOK'
    BY DEF TypeOK, GatesOK, WaitersOK
  <2>2. WaitersOK'
    BY DEF TypeOK, GatesOK, WaitersOK
  <2> HIDE DEF Decisions
  <2>3. log' \in Seq(Approvals \X Decisions) /\ disposed' \in BOOLEAN
    BY DEF TypeOK
  <2> QED
    BY <2>1, <2>2, <2>3 DEF TypeOK
<1>2. (Owned /\ Targets /\ Listed /\ Announcing /\ Expiring /\ Unlogged)'
  BY DEF TypeOK, GatesOK, WaitersOK, Owned, Targets, Listed, Announcing, Expiring, Unlogged
<1>3. AnswerIsTheDecision'
  BY DEF TypeOK, GatesOK, WaitersOK, AnswerIsTheDecision, NodePasses, Targets
<1>4. LogTellsTheDecision'
  BY LogEntries DEF GatesOK, LogTellsTheDecision
<1>5. NoLostWaiter'
  BY DEF TypeOK, GatesOK, WaitersOK, NoLostWaiter, Waiting, Alone, Targets
<1> QED
  BY <1>1, <1>2, <1>3, <1>4, <1>5

LEMMA DecideInv ==
  ASSUME GateInv, NEW a \in Approvals, NEW d \in {"approved", "rejected"}, Decide(a, d)
  PROVE  GateInv'
<1> USE ApprovalAssumption DEF GateInv, Decide, Settle, Decisions
<1>1. TypeOK'
  <2>1. GatesOK'
    BY DEF TypeOK, GatesOK, WaitersOK
  <2>2. WaitersOK'
    BY DEF TypeOK, GatesOK, WaitersOK
  <2> HIDE DEF Decisions
  <2>3. log' \in Seq(Approvals \X Decisions) /\ disposed' \in BOOLEAN
    BY DEF TypeOK
  <2> QED
    BY <2>1, <2>2, <2>3 DEF TypeOK
<1>2. Owned' /\ Targets' /\ Listed' /\ Announcing'
  BY DEF TypeOK, GatesOK, WaitersOK, Owned, Targets, Listed, Announcing
<1>3. Expiring'
  BY DEF TypeOK, GatesOK, WaitersOK, Owned, Expiring
<1>4. Unlogged'
  BY LogEntries DEF GatesOK, WaitersOK, Unlogged, LogTellsTheDecision, Expiring
<1>5. AnswerIsTheDecision'
  BY DEF TypeOK, GatesOK, WaitersOK, AnswerIsTheDecision, NodePasses, Owned
<1>6. LogTellsTheDecision'
  BY LogEntries DEF GatesOK, LogTellsTheDecision
<1>7. NoLostWaiter'
  BY DEF TypeOK, GatesOK, WaitersOK, NoLostWaiter, Waiting, Alone, Owned, Targets
<1> QED
  BY <1>1, <1>2, <1>3, <1>4, <1>5, <1>6, <1>7

\* Writing the event of a decision that stands and is not in the log.
LEMMA RecordInv ==
  ASSUME GateInv, NEW a \in Approvals, NEW d \in Decisions, Record(a, d), UNCHANGED status,
         status[a] = d, \A i \in DOMAIN log : log[i][1] # a
  PROVE  /\ log' \in Seq(Approvals \X Decisions)
         /\ LogTellsTheDecision'
         /\ \A i \in DOMAIN log' : log'[i][1] = a \/ (i \in DOMAIN log /\ log'[i] = log[i])
<1>1. log \in Seq(Approvals \X Decisions)
  BY DEF GateInv, TypeOK, GatesOK, WaitersOK
<1>2. LogTellsTheDecision
  BY DEF GateInv
<1>3. CASE log' = Append(log, <<a, d>>)
  <2>0. log' \in Seq(Approvals \X Decisions)
    BY <1>1, <1>3
  <2>1. DOMAIN log' = DOMAIN log \cup {Len(log) + 1} /\ Len(log) + 1 \notin DOMAIN log
    BY <1>1, <1>3
  <2>2. \A i \in DOMAIN log : log'[i] = log[i]
    BY <1>1, <1>3
  <2>3. log'[Len(log) + 1] = <<a, d>>
    BY <1>1, <1>3
  <2>4. \A i \in DOMAIN log' : log'[i][1] = a \/ (i \in DOMAIN log /\ log'[i] = log[i])
    BY <2>1, <2>2, <2>3
  <2>5. LogTellsTheDecision'
    BY <1>2, <2>1, <2>2, <2>3 DEF LogTellsTheDecision
  <2> QED
    BY <2>0, <2>4, <2>5
<1>4. CASE log' = log
  BY <1>1, <1>2, <1>4 DEF LogTellsTheDecision
<1> QED
  BY <1>3, <1>4 DEF Record

LEMMA AnnouncedInv ==
  ASSUME GateInv, NEW a \in Approvals, Announced(a)
  PROVE  GateInv'
<1> USE ApprovalAssumption DEF GateInv, Announced, Decisions, waiting
<1>1. /\ announce[a] \in Decisions /\ Record(a, announce[a]) /\ status' = status
      /\ status[a] = announce[a] /\ \A i \in DOMAIN log : log[i][1] # a
  BY DEF Announcing, Unlogged
<1>2. /\ log' \in Seq(Approvals \X Decisions)
      /\ LogTellsTheDecision'
      /\ \A i \in DOMAIN log' : log'[i][1] = a \/ (i \in DOMAIN log /\ log'[i] = log[i])
  <2> HIDE DEF Decisions
  <2> QED BY <1>1, RecordInv
<1>3. announce' = [announce EXCEPT ![a] = "done"]
  BY DEF Record
<1>4. TypeOK'
  <2>1. GatesOK'
    BY <1>1, <1>3 DEF TypeOK, GatesOK, WaitersOK, Record
  <2>2. WaitersOK'
    BY <1>1, <1>3 DEF TypeOK, GatesOK, WaitersOK, Record
  <2>3. disposed' \in BOOLEAN
    BY DEF TypeOK
  <2> HIDE DEF Decisions
  <2> QED
    BY <1>2, <2>1, <2>2, <2>3 DEF TypeOK
<1>5. Owned' /\ Targets' /\ Listed' /\ Announcing' /\ Expiring'
  BY <1>1, <1>3 DEF TypeOK, GatesOK, WaitersOK, Owned, Targets, Listed, Announcing, Expiring
<1>6. Unlogged'
  BY <1>1, <1>2, <1>3 DEF TypeOK, GatesOK, WaitersOK, Unlogged, Expiring
<1>7. AnswerIsTheDecision' /\ NoLostWaiter'
  BY DEF AnswerIsTheDecision, NodePasses, NoLostWaiter, Waiting, Alone
<1> QED
  BY <1>2, <1>4, <1>5, <1>6, <1>7

LEMMA WaitInv ==
  ASSUME GateInv, NEW w \in Waiters, NEW a \in Approvals, WaitDecided(w, a) \/ WaitPending(w, a)
  PROVE  GateInv'
<1> USE ApprovalAssumption DEF GateInv, Calls, Decisions, gates
<1>1. CASE WaitDecided(w, a)
  <2> USE <1>1 DEF WaitDecided
  <2>1. TypeOK'
    <3>1. GatesOK'
      BY DEF TypeOK, GatesOK, WaitersOK, Listed
    <3>2. WaitersOK'
      BY DEF TypeOK, GatesOK, WaitersOK, Listed
    <3> HIDE DEF Decisions
    <3>3. log' \in Seq(Approvals \X Decisions) /\ disposed' \in BOOLEAN
      BY DEF TypeOK, Listed
    <3> QED
      BY <3>1, <3>2, <3>3 DEF TypeOK
  <2>2. Owned' /\ Targets' /\ Listed' /\ Announcing'
    BY DEF TypeOK, GatesOK, WaitersOK, Owned, Targets, Listed, Announcing
  <2>3. Expiring' /\ Unlogged'
    BY DEF TypeOK, GatesOK, WaitersOK, Targets, Expiring, Unlogged
  <2>4. AnswerIsTheDecision'
    BY DEF TypeOK, GatesOK, WaitersOK, AnswerIsTheDecision, NodePasses, Listed
  <2>5. LogTellsTheDecision'
    BY DEF LogTellsTheDecision
  <2>6. NoLostWaiter'
    BY DEF TypeOK, GatesOK, WaitersOK, NoLostWaiter, Waiting, Alone, Listed
  <2> QED
    BY <2>1, <2>2, <2>3, <2>4, <2>5, <2>6
<1>2. CASE WaitPending(w, a)
  <2> USE <1>2 DEF WaitPending
  <2>1. TypeOK'
    <3>1. GatesOK'
      BY DEF TypeOK, GatesOK, WaitersOK
    <3>2. WaitersOK'
      BY DEF TypeOK, GatesOK, WaitersOK
    <3> HIDE DEF Decisions
    <3>3. log' \in Seq(Approvals \X Decisions) /\ disposed' \in BOOLEAN
      BY DEF TypeOK
    <3> QED
      BY <3>1, <3>2, <3>3 DEF TypeOK
  <2>2. Owned' /\ Targets' /\ Listed' /\ Announcing'
    BY DEF TypeOK, GatesOK, WaitersOK, Owned, Targets, Listed, Announcing
  <2>3. Expiring' /\ Unlogged'
    BY DEF TypeOK, GatesOK, WaitersOK, Targets, Expiring, Unlogged
  <2>4. AnswerIsTheDecision'
    BY DEF TypeOK, GatesOK, WaitersOK, AnswerIsTheDecision, NodePasses, Targets
  <2>5. LogTellsTheDecision'
    BY DEF LogTellsTheDecision
  <2>6. NoLostWaiter'
    BY DEF TypeOK, GatesOK, WaitersOK, NoLostWaiter, Waiting, Alone
  <2> QED
    BY <2>1, <2>2, <2>3, <2>4, <2>5, <2>6
<1> QED
  BY <1>1, <1>2

LEMMA FireInv ==
  ASSUME GateInv, NEW w \in Waiters, Fire(w) \/ FireLate(w)
  PROVE  GateInv'
<1> USE ApprovalAssumption DEF GateInv, Decisions, gates
<1>1. CASE FireLate(w)
  <2> USE <1>1 DEF FireLate
  <2>1. TypeOK'
    <3>1. GatesOK'
      BY DEF TypeOK, GatesOK, WaitersOK
    <3>2. WaitersOK'
      BY DEF TypeOK, GatesOK, WaitersOK
    <3> HIDE DEF Decisions
    <3>3. log' \in Seq(Approvals \X Decisions) /\ disposed' \in BOOLEAN
      BY DEF TypeOK
    <3> QED
      BY <3>1, <3>2, <3>3 DEF TypeOK
  <2>2. Owned' /\ Targets' /\ Listed' /\ Announcing' /\ Expiring' /\ Unlogged'
    BY DEF TypeOK, GatesOK, WaitersOK, Owned, Targets, Listed, Announcing, Expiring, Unlogged
  <2>3. AnswerIsTheDecision' /\ LogTellsTheDecision' /\ NoLostWaiter'
    BY DEF TypeOK, GatesOK, WaitersOK, AnswerIsTheDecision, NodePasses, LogTellsTheDecision, NoLostWaiter, Waiting, Alone
  <2> QED
    BY <2>1, <2>2, <2>3
<1>2. CASE Fire(w)
  <2> USE <1>2 DEF Fire
  <2>0. target[w] \in Approvals /\ target[w] # none
    BY DEF TypeOK, GatesOK, WaitersOK, Targets
  <2>1. TypeOK'
    <3>1. GatesOK'
      BY <2>0 DEF TypeOK, GatesOK, WaitersOK
    <3>2. WaitersOK'
      BY <2>0 DEF TypeOK, GatesOK, WaitersOK
    <3> HIDE DEF Decisions
    <3>3. log' \in Seq(Approvals \X Decisions) /\ disposed' \in BOOLEAN
      BY <2>0 DEF TypeOK
    <3> QED
      BY <3>1, <3>2, <3>3 DEF TypeOK
  <2>2. Owned' /\ Targets' /\ Listed' /\ Announcing'
    BY <2>0 DEF TypeOK, GatesOK, WaitersOK, Owned, Targets, Listed, Announcing
  <2>3. answer[w] = "waiting"
    BY <2>0 DEF TypeOK, GatesOK, WaitersOK, AnswerIsTheDecision
  <2>4. Expiring'
    BY <2>0, <2>3 DEF TypeOK, GatesOK, WaitersOK, Expiring
  <2>5. Unlogged'
    BY <2>0, LogEntries DEF GatesOK, WaitersOK, Unlogged, LogTellsTheDecision
  <2>6. AnswerIsTheDecision'
    BY <2>0 DEF TypeOK, GatesOK, WaitersOK, AnswerIsTheDecision, NodePasses
  <2>7. LogTellsTheDecision'
    BY <2>0 DEF TypeOK, GatesOK, WaitersOK, LogTellsTheDecision
  <2>8. NoLostWaiter'
    BY <2>0 DEF TypeOK, GatesOK, WaitersOK, NoLostWaiter, Waiting, Alone, Targets
  <2> QED
    BY <2>1, <2>2, <2>4, <2>5, <2>6, <2>7, <2>8
<1> QED
  BY <1>1, <1>2

LEMMA ExpiredInv ==
  ASSUME GateInv, NEW w \in Waiters, Expired(w)
  PROVE  GateInv'
<1> USE ApprovalAssumption DEF GateInv, Expired, Decisions
<1> DEFINE a == target[w]
<1>1. /\ a \in Approvals /\ Record(a, "timed_out") /\ status' = status
      /\ status[a] = "timed_out" /\ "timed_out" \in Decisions /\ \A i \in DOMAIN log : log[i][1] # a
  BY DEF TypeOK, GatesOK, WaitersOK, Targets, Expiring, Unlogged
<1>2. /\ log' \in Seq(Approvals \X Decisions)
      /\ LogTellsTheDecision'
      /\ \A i \in DOMAIN log' : log'[i][1] = a \/ (i \in DOMAIN log /\ log'[i] = log[i])
  <2> HIDE DEF Decisions
  <2> QED BY <1>1, RecordInv
<1>3. announce' = [announce EXCEPT ![a] = "done"]
  BY DEF Record
<1>4. TypeOK'
  <2>1. GatesOK'
    BY <1>1, <1>3 DEF TypeOK, GatesOK, WaitersOK, Record
  <2>2. WaitersOK'
    BY <1>1, <1>3 DEF TypeOK, GatesOK, WaitersOK, Record
  <2>3. disposed' \in BOOLEAN
    BY DEF TypeOK
  <2> HIDE DEF Decisions
  <2> QED
    BY <1>2, <2>1, <2>2, <2>3 DEF TypeOK
<1>5. Owned' /\ Targets' /\ Listed' /\ Announcing' /\ Expiring'
  BY <1>1, <1>3 DEF TypeOK, GatesOK, WaitersOK, Owned, Targets, Listed, Announcing, Expiring
<1>6. Unlogged'
  BY <1>1, <1>2, <1>3 DEF TypeOK, GatesOK, WaitersOK, Unlogged, Expiring
<1>7. AnswerIsTheDecision'
  BY <1>1 DEF TypeOK, GatesOK, WaitersOK, AnswerIsTheDecision, NodePasses
<1>8. NoLostWaiter'
  BY <1>1 DEF TypeOK, GatesOK, WaitersOK, NoLostWaiter, Waiting, Alone
<1> QED
  BY <1>2, <1>4, <1>5, <1>6, <1>7, <1>8

LEMMA DisposeInv == GateInv /\ Dispose => GateInv'
<1> SUFFICES ASSUME GateInv, Dispose PROVE GateInv'
  OBVIOUS
<1> USE ApprovalAssumption DEF GateInv, Dispose, Decisions
<1>1. TypeOK'
  <2>1. GatesOK'
    BY DEF TypeOK, GatesOK, WaitersOK
  <2>2. WaitersOK'
    BY DEF TypeOK, GatesOK, WaitersOK
  <2> HIDE DEF Decisions
  <2>3. log' \in Seq(Approvals \X Decisions) /\ disposed' \in BOOLEAN
    BY DEF TypeOK
  <2> QED
    BY <2>1, <2>2, <2>3 DEF TypeOK
<1>2. Owned' /\ Targets' /\ Listed' /\ Announcing' /\ Unlogged'
  BY DEF TypeOK, GatesOK, WaitersOK, Owned, Targets, Listed, Announcing, Unlogged
<1>3. Expiring'
  BY DEF TypeOK, GatesOK, WaitersOK, Expiring
<1>4. AnswerIsTheDecision' /\ LogTellsTheDecision' /\ NoLostWaiter'
  BY DEF AnswerIsTheDecision, NodePasses, LogTellsTheDecision, NoLostWaiter
<1> QED
  BY <1>1, <1>2, <1>3, <1>4

LEMMA StutterInv == GateInv /\ UNCHANGED vars => GateInv'
BY DEF GateInv, vars, gates, waiting, TypeOK, GatesOK, WaitersOK, Owned, Targets, Listed, Announcing, Expiring,
       Unlogged, AnswerIsTheDecision, NodePasses, LogTellsTheDecision, NoLostWaiter, Waiting, Alone

LEMMA NextInv == GateInv /\ [Next]_vars => GateInv'
BY RequestInv, DecideInv, AnnouncedInv, WaitInv, FireInv, ExpiredInv, DisposeInv, StutterInv
   DEF Next, TimerStep, Approve, Reject

LEMMA Invariance == Spec => []GateInv
BY InitInv, NextInv, PTL DEF Spec

-----------------------------------------------------------------------------
(* Every reachable state has the types of the model.                        *)
THEOREM TypeCorrect == Spec => []TypeOK
<1>1. GateInv => TypeOK
  BY DEF GateInv
<1> QED
  BY <1>1, Invariance, PTL

(* The node's answer is the decision the API shows, and only consent lets   *)
(* the node pass.                                                           *)
THEOREM AnswersAgree == Spec => []AnswerIsTheDecision
<1>1. GateInv => AnswerIsTheDecision
  BY DEF GateInv
<1> QED
  BY <1>1, Invariance, PTL

(* The event store tells one decision per approval, the one that stands.    *)
THEOREM LogAgrees == Spec => []LogTellsTheDecision
<1>1. GateInv => LogTellsTheDecision
  BY DEF GateInv
<1> QED
  BY <1>1, Invariance, PTL

(* approve or reject, before or after the wait, reach the waiter.           *)
THEOREM WaitersAreReached == Spec => []NoLostWaiter
<1>1. GateInv => NoLostWaiter
  BY DEF GateInv
<1> QED
  BY <1>1, Invariance, PTL

(* The first of approve, reject and timeout wins.                           *)
THEOREM FirstDecisionWins == Spec => DecisionIsFinal
<1>1. GateInv /\ [Next]_vars =>
        [\A a \in Approvals : status[a] \in Decisions => status'[a] = status[a]]_vars
  <2> SUFFICES ASSUME GateInv, Next, NEW a \in Approvals, status[a] \in Decisions
               PROVE  status'[a] = status[a]
    OBVIOUS
  <2>1. ASSUME NEW b \in Approvals, RequestApproval(b) \/ Requested(b) \/ Announced(b)
        PROVE  status'[a] = status[a]
    BY <2>1 DEF GateInv, TypeOK, GatesOK, WaitersOK, RequestApproval, Requested, Announced, gates, Decisions
  <2>2. ASSUME NEW b \in Approvals, Approve(b) \/ Reject(b)
        PROVE  status'[a] = status[a]
    BY <2>2 DEF GateInv, TypeOK, GatesOK, WaitersOK, Approve, Reject, Decide, Settle, Decisions
  <2>3. ASSUME NEW w \in Waiters, TimerStep(w) \/ \E b \in Approvals : WaitDecided(w, b) \/ WaitPending(w, b)
        PROVE  status'[a] = status[a]
    BY <2>3 DEF GateInv, TypeOK, GatesOK, WaitersOK, TimerStep, Fire, FireLate, Expired, WaitDecided, WaitPending, gates, Decisions
  <2>4. CASE Dispose
    BY <2>4 DEF Dispose
  <2> QED
    BY <2>1, <2>2, <2>3, <2>4 DEF Next
<1> QED
  BY <1>1, Invariance, PTL DEF Spec, DecisionIsFinal
=============================================================================
