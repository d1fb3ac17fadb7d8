-------------------------- MODULE TokenPoolProofs --------------------------
(***************************************************************************)
(* Theorems about TokenPool, for any providers, adapters, budgets and       *)
(* bounds.                                                                 *)
(*                                                                         *)
(* The budget is kept by consume alone (Consumed).  The charges need to     *)
(* know what each call has been charged so far: nothing while it chats      *)
(* (InFlight), and less than a threshold short of its output whenever the    *)
(* stream goes back to the provider (UnchargedIsBounded).                   *)
(***************************************************************************)
EXTENDS TokenPool, FiniteSetTheorems, TLAPS

Calling == {"chatting", "streaming", "yielded"}

\* What is known of a call that has not ended.
InFlight ==
  \A r \in Adapters :
    /\ pc[r] \in Calling => outcome[r] = "none"
    /\ pc[r] = "chatting" => output[r] = 0 /\ charged[r] = 0

Charges == ChargedExactly /\ UnchargedIsBounded /\ InFlight

RestOK == rest \in [Adapters -> Seq(Providers)]

PoolInv == TypeOK /\ RestOK /\ BudgetHolds /\ Charges

-----------------------------------------------------------------------------
LEMMA Numbers ==
  /\ none \notin Providers /\ none \notin Budgets /\ Budgets \subseteq Nat \ {0}
  /\ Input \in Nat \ {0} /\ MaxAnswer \in Nat \ {0} /\ Threshold \in Nat \ {0}
  /\ MaxOutput \in Nat \ {0} /\ MaxCalls \in Nat \ {0} /\ Allowed \subseteq Providers
BY TokenAssumption

LEMMA InitInv == Init => PoolInv
<1> SUFFICES ASSUME Init PROVE PoolInv
  OBVIOUS
<1> USE Numbers
<1>1. UsageOK
  <2>1. used \in Int /\ breakdown \in [Providers -> Int]
    BY DEF Init
  <2>2. budget \in Budgets \cup {none} /\ periodOver \in BOOLEAN
    BY Zenon DEF Init
  <2> QED BY <2>1, <2>2 DEF UsageOK
<1>2. requests \in [Providers -> Nat] /\ tokens \in [Providers -> Int]
  BY DEF Init
<1>3. minuteOver \in [Providers -> BOOLEAN]
  BY Zenon DEF Init
<1>4. LimitsOK
  BY <1>2, <1>3 DEF LimitsOK
<1>5. RoutingOK
  BY DEF Init, RoutingOK
<1>6. CallsOK
  BY DEF Init, CallsOK
<1>7. RestOK
  BY DEF Init, RestOK
<1>8. BudgetHolds /\ Charges
  BY DEF Init, BudgetHolds, Charges, ChargedExactly, UnchargedIsBounded, InFlight, Calling
<1> QED BY <1>1, <1>4, <1>5, <1>6, <1>7, <1>8 DEF PoolInv, TypeOK

-----------------------------------------------------------------------------
(* consume.                                                                *)

LEMMA UsageType ==
  ASSUME UsageOK, BudgetHolds
  PROVE  /\ Usage.total \in Int /\ Usage.of \in [Providers -> Int]
         /\ budget # none => Usage.total <= budget
<1>1. budget # none => budget \in Nat
  BY Numbers DEF UsageOK
<1> QED BY <1>1 DEF Usage, UsageOK, BudgetHolds

LEMMA Consumed ==
  ASSUME UsageOK, LimitsOK, BudgetHolds, NEW p \in Providers, NEW n \in Int,
         Accept(p, n) \/ Refuse(p, n)
  PROVE  UsageOK' /\ LimitsOK' /\ BudgetHolds'
<1>1. CASE UNCHANGED <<usage, limits>>
  BY <1>1 DEF usage, limits, UsageOK, LimitsOK, BudgetHolds
<1>2. CASE /\ budget # none /\ Fits(n) /\ used' = Usage.total + n
           /\ breakdown' = [Usage.of EXCEPT ![p] = @ + n]
           /\ periodOver' = FALSE /\ CountRequest(p, n) /\ UNCHANGED budget
  <2>1. used' \in Int /\ breakdown' \in [Providers -> Int]
    BY <1>2, UsageType
  <2>2. UsageOK'
    BY <1>2, <2>1 DEF UsageOK
  <2>3. BudgetHolds'
    BY <1>2 DEF BudgetHolds, Fits
  <2>4. requests' \in [Providers -> Nat] /\ tokens' \in [Providers -> Int]
    BY <1>2 DEF CountRequest, LimitsOK
  <2>5. minuteOver' \in [Providers -> BOOLEAN]
    BY <1>2, Zenon DEF CountRequest, LimitsOK
  <2> QED BY <2>2, <2>3, <2>4, <2>5 DEF LimitsOK
<1>3. CASE /\ budget # none /\ UNCHANGED <<budget, limits>>
           /\ UNCHANGED <<used, breakdown, periodOver>>
  BY <1>3, <1>1 DEF usage
<1>4. CASE /\ budget # none /\ UNCHANGED <<budget, limits>>
           /\ used' = Usage.total /\ breakdown' = Usage.of /\ periodOver' = FALSE
  BY <1>4, UsageType DEF UsageOK, LimitsOK, BudgetHolds, limits
<1> QED BY <1>1, <1>2, <1>3, <1>4 DEF Accept, Refuse

-----------------------------------------------------------------------------
(* getAdapter.                                                             *)

LEMMA Looked ==
  ASSUME LimitsOK, NEW ps, LookAt(ps)
  PROVE  LimitsOK'
<1>1. requests' \in [Providers -> Nat] /\ tokens' \in [Providers -> Int]
  BY DEF LookAt, LimitsOK
<1>2. minuteOver' \in [Providers -> BOOLEAN]
  BY Zenon DEF LookAt, LimitsOK
<1> QED BY <1>1, <1>2 DEF LimitsOK

LEMMA Routed ==
  ASSUME LimitsOK, RoutingOK, RestOK, NEW r \in Adapters, NEW order \in Seq(Providers),
         RouteTo(r, order)
  PROVE  /\ LimitsOK' /\ RoutingOK' /\ RestOK'
         /\ Goto(r, "failed") \/ Goto(r, "creating")
<1>1. ASSUME NEW k \in DOMAIN order, Take(r, order, k)
      PROVE  LimitsOK' /\ RoutingOK' /\ RestOK' /\ Goto(r, "creating")
  <2>1. order[k] \in Providers /\ SubSeq(order, k + 1, Len(order)) \in Seq(Providers)
    OBVIOUS
  <2>2. LimitsOK'
    BY <1>1, Looked DEF Take
  <2>3. RoutingOK'
    BY <1>1, <2>1 DEF Take, Goto, RoutingOK
  <2>4. RestOK'
    BY <1>1, <2>1 DEF Take, RestOK
  <2> QED BY <1>1, <2>2, <2>3, <2>4 DEF Take
<1>2. ASSUME Goto(r, "failed"), UNCHANGED routing, LookAt({order[i] : i \in DOMAIN order})
      PROVE  LimitsOK' /\ RoutingOK' /\ RestOK' /\ Goto(r, "failed")
  <2>1. LimitsOK'
    BY <1>2, Looked
  <2>2. RoutingOK' /\ RestOK'
    BY <1>2 DEF Goto, routing, RoutingOK, RestOK
  <2> QED BY <1>2, <2>1, <2>2
<1> QED BY <1>1, <1>2 DEF RouteTo

\* The orders getAdapter may try, and what it has left to try.
LEMMA OrdersOK ==
  ASSUME NEW order \in Orders
  PROVE  order \in Seq(Providers)
<1>1. Cardinality(Providers) \in Nat
  BY TokenAssumption, FS_CardinalityType
<1> QED BY <1>1 DEF Orders

-----------------------------------------------------------------------------
(* The calls.                                                              *)

\* A step of adapter r alone leaves what is known of the others.
LEMMA ChargesStep ==
  ASSUME Charges, NEW r \in Adapters,
         \A q \in Adapters \ {r} : /\ pc'[q] = pc[q] /\ outcome'[q] = outcome[q]
                                   /\ output'[q] = output[q] /\ charged'[q] = charged[q],
         outcome'[r] = "ok" => charged'[r] = Input + output'[r],
         pc'[r] \in Calling => outcome'[r] = "none",
         pc'[r] = "chatting" => output'[r] = 0 /\ charged'[r] = 0,
         pc'[r] = "streaming" \/ outcome'[r] \in {"ok", "failed"} => output'[r] - charged'[r] < Threshold
  PROVE  Charges'
<1>1. ChargedExactly'
  BY DEF Charges, ChargedExactly
<1>2. UnchargedIsBounded'
  BY DEF Charges, UnchargedIsBounded
<1>3. InFlight'
  BY DEF Charges, InFlight
<1> QED BY <1>1, <1>2, <1>3 DEF Charges

\* Charging n tokens: the budget and the limits, the adapter, its accounts.
LEMMA ChargedStep ==
  ASSUME PoolInv, NEW r \in Adapters, provider[r] \in Providers, NEW n \in Int,
         NEW next \in {"ready", "streaming"}, Charge(r, n, next)
  PROVE  /\ UsageOK' /\ LimitsOK' /\ BudgetHolds'
         /\ charged' \in [Adapters -> Int]
         /\ \A q \in Adapters \ {r} :
              pc'[q] = pc[q] /\ outcome'[q] = outcome[q] /\ charged'[q] = charged[q]
         /\ \/ /\ pc' = [pc EXCEPT ![r] = next] /\ charged'[r] = charged[r] + n
               /\ outcome' = [outcome EXCEPT ![r] = IF next = "ready" THEN "ok" ELSE @]
            \/ /\ pc' = [pc EXCEPT ![r] = "ready"] /\ charged' = charged
               /\ outcome' = [outcome EXCEPT ![r] = "refused"]
<1> USE DEF PoolInv, TypeOK
<1>1. UsageOK' /\ LimitsOK' /\ BudgetHolds'
  BY Consumed DEF Charge
<1>2. CASE /\ charged' = [charged EXCEPT ![r] = @ + n]
           /\ IF next = "ready" THEN End(r, "ok") ELSE Goto(r, next) /\ UNCHANGED outcome
  BY <1>1, <1>2 DEF End, Goto, CallsOK, RoutingOK
<1>3. CASE End(r, "refused") /\ UNCHANGED charged
  BY <1>1, <1>3 DEF End, Goto, CallsOK, RoutingOK
<1> QED BY <1>2, <1>3 DEF Charge

\* An adapter that goes where no call is in flight, its accounts untouched.
LEMMA MovedStep ==
  ASSUME PoolInv, NEW r \in Adapters, NEW place \in {"failed", "creating", "ready"},
         Goto(r, place), UNCHANGED call
  PROVE  CallsOK' /\ Charges'
<1> USE DEF PoolInv, TypeOK
<1>1. CallsOK'
  BY DEF CallsOK, call
<1>2. Charges'
  BY ChargesStep DEF Goto, call, RoutingOK, Calling, Charges, ChargedExactly, UnchargedIsBounded
<1> QED BY <1>1, <1>2

\* A call starts with clean accounts.
LEMMA StartStep ==
  ASSUME PoolInv, NEW r \in Adapters, NEW place \in {"chatting", "streaming"}, Call(r, place)
  PROVE  PoolInv'
<1> USE DEF PoolInv, TypeOK
<1>1. UsageOK' /\ LimitsOK' /\ RestOK' /\ BudgetHolds'
  BY DEF Call, usage, limits, routing, UsageOK, LimitsOK, RestOK, BudgetHolds
<1>2. RoutingOK' /\ CallsOK'
  BY Numbers DEF Call, Goto, routing, RoutingOK, CallsOK
<1>3. Charges'
  BY ChargesStep, Numbers DEF Call, Goto, RoutingOK, CallsOK, Calling
<1> QED BY <1>1, <1>2, <1>3

LEMMA AnsweredStep ==
  ASSUME PoolInv, NEW r \in Adapters, Answered(r)
  PROVE  PoolInv'
<1> USE DEF PoolInv, TypeOK
<1>1. PICK n \in 1..MaxAnswer : /\ pc[r] = "chatting"
                            /\ output' = [output EXCEPT ![r] = n]
                            /\ Charge(r, Input + n, "ready")
                            /\ UNCHANGED <<routing, calls>>
  BY DEF Answered
<1>2. provider[r] \in Providers /\ n \in Nat /\ Input + n \in Int
  BY <1>1, Numbers DEF RoutingOK
<1>3. UsageOK' /\ LimitsOK' /\ BudgetHolds' /\ charged' \in [Adapters -> Int]
  BY <1>1, <1>2, ChargedStep
<1>4. \A q \in Adapters \ {r} :
        pc'[q] = pc[q] /\ outcome'[q] = outcome[q] /\ charged'[q] = charged[q]
  BY <1>1, <1>2, ChargedStep
<1>5. /\ pc' = [pc EXCEPT ![r] = "ready"]
      /\ \/ /\ outcome' = [outcome EXCEPT ![r] = "ok"] /\ charged'[r] = charged[r] + Input + n
         \/ /\ outcome' = [outcome EXCEPT ![r] = "refused"] /\ charged' = charged
  BY <1>1, <1>2, ChargedStep, Numbers DEF CallsOK
<1>6. RoutingOK' /\ RestOK' /\ CallsOK'
  BY <1>1, <1>2, <1>3, <1>5 DEF routing, RoutingOK, RestOK, CallsOK
<1>7. output[r] = 0 /\ charged[r] = 0 /\ output'[r] = n
  BY <1>1 DEF Charges, InFlight, CallsOK
<1>8. Charges'
  BY <1>1, <1>2, <1>4, <1>5, <1>7, ChargesStep, Numbers DEF RoutingOK, CallsOK, Calling
<1> QED BY <1>3, <1>6, <1>8

LEMMA YieldStep ==
  ASSUME PoolInv, NEW r \in Adapters, Yield(r)
  PROVE  PoolInv'
<1> USE DEF PoolInv, TypeOK
<1>1. PICK estimate \in {output[r]} \cup 1..MaxOutput : output' = [output EXCEPT ![r] = estimate]
  BY DEF Yield
<1>2. estimate \in Nat
  BY <1>1, Numbers DEF CallsOK
<1>3. UsageOK' /\ LimitsOK' /\ RestOK' /\ BudgetHolds'
  BY DEF Yield, usage, limits, routing, UsageOK, LimitsOK, RestOK, BudgetHolds
<1>4. RoutingOK' /\ CallsOK'
  BY <1>1, <1>2 DEF Yield, Goto, routing, RoutingOK, CallsOK
<1>5. outcome[r] = "none"
  BY DEF Yield, Charges, InFlight, Calling
<1>7. Charges'
  BY <1>1, <1>2, <1>5, ChargesStep DEF Yield, Goto, RoutingOK, CallsOK, Calling
<1> QED BY <1>3, <1>4, <1>7

(* Charging an instalment settles the stream; not charging it leaves less   *)
(* than a threshold, so the next chunk starts from a small debt.            *)
LEMMA PulledStep ==
  ASSUME PoolInv, NEW r \in Adapters, Pulled(r)
  PROVE  PoolInv'
<1> USE DEF PoolInv, TypeOK
<1>1. /\ pc[r] = "yielded" /\ provider[r] \in Providers /\ outcome[r] = "none"
      /\ output[r] \in Nat /\ charged[r] \in Int /\ Untracked(r) \in Int
      /\ UNCHANGED <<routing, calls, output>>
  <2>1. pc[r] = "yielded" /\ UNCHANGED <<routing, calls, output>>
    BY Zenon DEF Pulled
  <2>2. provider[r] \in Providers /\ outcome[r] = "none"
    BY <2>1 DEF RoutingOK, Charges, InFlight, Calling
  <2>3. output[r] \in Nat /\ charged[r] \in Int
    BY DEF CallsOK
  <2> QED BY <2>1, <2>2, <2>3 DEF Untracked
<1>2. CASE Untracked(r) >= Threshold /\ Charge(r, Untracked(r), "streaming")
  <2>1. UsageOK' /\ LimitsOK' /\ BudgetHolds' /\ charged' \in [Adapters -> Int]
    BY <1>1, <1>2, ChargedStep
  <2>2. \A q \in Adapters \ {r} :
          pc'[q] = pc[q] /\ outcome'[q] = outcome[q] /\ charged'[q] = charged[q]
    BY <1>1, <1>2, ChargedStep
  <2>3. \/ /\ pc' = [pc EXCEPT ![r] = "streaming"] /\ outcome' = [outcome EXCEPT ![r] = @]
           /\ charged'[r] = output[r]
        \/ /\ pc' = [pc EXCEPT ![r] = "ready"] /\ outcome' = [outcome EXCEPT ![r] = "refused"]
           /\ charged' = charged
    BY <1>1, <1>2, ChargedStep DEF Untracked, CallsOK
  <2>4. RoutingOK' /\ RestOK' /\ CallsOK'
    BY <1>1, <2>1, <2>3 DEF routing, RoutingOK, RestOK, CallsOK
  <2>6. Charges'
    BY <1>1, <2>2, <2>3, ChargesStep, Numbers DEF RoutingOK, CallsOK, Calling
  <2> QED BY <2>1, <2>4, <2>6
<1>3. CASE /\ Untracked(r) < Threshold /\ Goto(r, "streaming")
           /\ UNCHANGED <<usage, limits, charged, outcome>>
  <2>1. UsageOK' /\ LimitsOK' /\ RestOK' /\ BudgetHolds'
    BY <1>1, <1>3 DEF usage, limits, routing, UsageOK, LimitsOK, RestOK, BudgetHolds
  <2>2. RoutingOK' /\ CallsOK'
    BY <1>1, <1>3 DEF Goto, routing, RoutingOK, CallsOK
  <2>3. Charges'
    BY <1>1, <1>3, ChargesStep, Numbers DEF Goto, Untracked, RoutingOK, CallsOK, Calling
  <2> QED BY <2>1, <2>2, <2>3
<1> QED BY <1>2, <1>3 DEF Pulled

LEMMA StreamEndsStep ==
  ASSUME PoolInv, NEW r \in Adapters, StreamEnds(r)
  PROVE  PoolInv'
<1> USE DEF PoolInv, TypeOK
<1>1. /\ pc[r] = "streaming" /\ provider[r] \in Providers
      /\ output[r] \in Nat /\ charged[r] \in Int /\ Input + Untracked(r) \in Int
      /\ Charge(r, Input + Untracked(r), "ready") /\ UNCHANGED <<routing, calls, output>>
  BY Numbers DEF StreamEnds, Untracked, RoutingOK, CallsOK
<1>2. UsageOK' /\ LimitsOK' /\ BudgetHolds' /\ charged' \in [Adapters -> Int]
  BY <1>1, ChargedStep
<1>3. \A q \in Adapters \ {r} :
        pc'[q] = pc[q] /\ outcome'[q] = outcome[q] /\ charged'[q] = charged[q]
  BY <1>1, ChargedStep
<1>4. /\ pc' = [pc EXCEPT ![r] = "ready"]
      /\ \/ /\ outcome' = [outcome EXCEPT ![r] = "ok"] /\ charged'[r] = Input + output[r]
         \/ /\ outcome' = [outcome EXCEPT ![r] = "refused"] /\ charged' = charged
  BY <1>1, ChargedStep, Numbers DEF Untracked
<1>5. RoutingOK' /\ RestOK' /\ CallsOK'
  BY <1>1, <1>2, <1>4 DEF routing, RoutingOK, RestOK, CallsOK
<1>6. output[r] - charged[r] < Threshold
  BY <1>1 DEF Charges, UnchargedIsBounded
<1>7. Charges'
  BY <1>1, <1>3, <1>4, <1>6, ChargesStep, Numbers DEF RoutingOK, CallsOK, Calling
<1> QED BY <1>2, <1>5, <1>7

LEMMA CallFailsStep ==
  ASSUME PoolInv, NEW r \in Adapters, CallFails(r)
  PROVE  PoolInv'
<1> USE DEF PoolInv, TypeOK
<1>1. PICK how \in {"abandoned", "failed"} : pc[r] \in Calling /\ End(r, how)
  <2>1. CASE pc[r] = "yielded" /\ End(r, "abandoned")
    BY <2>1 DEF Calling
  <2>2. CASE pc[r] \in {"chatting", "streaming"} /\ End(r, "failed")
    BY <2>2 DEF Calling
  <2> QED BY <2>1, <2>2 DEF CallFails
<1>2. UsageOK' /\ LimitsOK' /\ RestOK' /\ BudgetHolds'
  BY DEF CallFails, usage, limits, routing, UsageOK, LimitsOK, RestOK, BudgetHolds
<1>3. RoutingOK' /\ CallsOK'
  BY <1>1 DEF CallFails, Calling, End, Goto, routing, RoutingOK, CallsOK
<1>4. pc[r] \in {"chatting", "streaming"} => output[r] - charged[r] < Threshold
  BY Numbers DEF Charges, UnchargedIsBounded, InFlight
<1>6. pc[r] = "yielded" => outcome' = [outcome EXCEPT ![r] = "abandoned"]
  BY DEF CallFails, End
<1>5. Charges'
  BY <1>1, <1>4, <1>6, ChargesStep DEF CallFails, Calling, End, Goto, RoutingOK, CallsOK
<1> QED BY <1>2, <1>3, <1>5

-----------------------------------------------------------------------------
LEMMA NextInv == PoolInv /\ [Next]_vars => PoolInv'
<1> SUFFICES ASSUME PoolInv, [Next]_vars PROVE PoolInv'
  OBVIOUS
<1> USE DEF PoolInv, TypeOK
<1>1. CASE UNCHANGED vars
  <2>1. UsageOK' /\ LimitsOK' /\ BudgetHolds'
    BY <1>1 DEF vars, usage, limits, UsageOK, LimitsOK, BudgetHolds
  <2>2. RoutingOK' /\ RestOK' /\ CallsOK' /\ Charges'
    BY <1>1 DEF vars, routing, call, RoutingOK, RestOK, CallsOK, Charges, ChargedExactly,
                UnchargedIsBounded, InFlight
  <2> QED BY <2>1, <2>2
<1>2. ASSUME UNCHANGED <<pc, routing, call>>, UsageOK', LimitsOK', BudgetHolds'
      PROVE  PoolInv'
  BY <1>2 DEF routing, call, RoutingOK, RestOK, CallsOK, Charges, ChargedExactly,
              UnchargedIsBounded, InFlight
<1>3. ASSUME NEW b \in Budgets, Allocate(b) PROVE PoolInv'
  <2>1. used' \in Int /\ breakdown' \in [Providers -> Int] /\ BudgetHolds'
    BY <1>3, Numbers DEF Allocate, BudgetHolds
  <2>2. UsageOK' /\ LimitsOK'
    BY <1>3, <2>1 DEF Allocate, limits, UsageOK, LimitsOK
  <2> QED BY <1>2, <1>3, <2>1, <2>2 DEF Allocate
<1>4. CASE ResetUsage
  <2>1. used' \in Int /\ breakdown' \in [Providers -> Int]
    BY <1>4 DEF ResetUsage
  <2>2. BudgetHolds'
    BY <1>4, Numbers DEF ResetUsage, UsageOK, BudgetHolds
  <2>3. UsageOK' /\ LimitsOK'
    BY <1>4, <2>1 DEF ResetUsage, limits, UsageOK, LimitsOK
  <2> QED BY <1>2, <1>4, <2>2, <2>3 DEF ResetUsage
<1>5. CASE PeriodElapses
  <2>1. UsageOK' /\ LimitsOK' /\ BudgetHolds'
    BY <1>5 DEF PeriodElapses, limits, UsageOK, LimitsOK, BudgetHolds
  <2> QED BY <1>2, <1>5, <2>1 DEF PeriodElapses
<1>6. ASSUME NEW p \in Providers, MinuteElapses(p) PROVE PoolInv'
  <2>1. minuteOver' \in [Providers -> BOOLEAN]
    BY <1>6, Zenon DEF MinuteElapses, LimitsOK
  <2>2. UsageOK' /\ LimitsOK' /\ BudgetHolds'
    BY <1>6, <2>1 DEF MinuteElapses, usage, UsageOK, LimitsOK, BudgetHolds
  <2> QED BY <1>2, <1>6, <2>2 DEF MinuteElapses
<1>7. ASSUME NEW r \in Adapters, NEW order \in Seq(Providers), RouteTo(r, order),
             UNCHANGED <<usage, call>>
      PROVE  PoolInv'
  <2>1. LimitsOK' /\ RoutingOK' /\ RestOK' /\ (Goto(r, "failed") \/ Goto(r, "creating"))
    BY <1>7, Routed
  <2>2. CallsOK' /\ Charges'
    BY <1>7, <2>1, MovedStep
  <2> QED BY <1>7, <2>1, <2>2 DEF usage, UsageOK, BudgetHolds
<1>8. ASSUME NEW r \in Adapters, NEW place \in {"failed", "ready"}, pc[r] = "creating",
             Goto(r, place), UNCHANGED <<usage, limits, routing, call>>
      PROVE  PoolInv'
  <2>1. CallsOK' /\ Charges'
    BY <1>8, MovedStep
  <2>2. RoutingOK' /\ RestOK'
    BY <1>8 DEF Goto, routing, RoutingOK, RestOK
  <2> QED BY <1>8, <2>1, <2>2 DEF usage, limits, UsageOK, LimitsOK, BudgetHolds
<1>9. ASSUME NEW r \in Adapters, GetAdapter(r) PROVE PoolInv'
  BY <1>7, <1>9, OrdersOK DEF GetAdapter
<1>10. ASSUME NEW r \in Adapters, Creation(r) PROVE PoolInv'
  <2>1. rest[r] \in Seq(Providers)
    BY DEF RestOK
  <2> QED BY <1>7, <1>8, <1>10, <2>1 DEF Creation, Created, CreateFails, NextProvider
<1>11. ASSUME NEW r \in Adapters, Chat(r) \/ ChatStream(r) PROVE PoolInv'
  BY <1>11, StartStep DEF Chat, ChatStream
<1> QED BY <1>1, <1>3, <1>4, <1>5, <1>6, <1>9, <1>10, <1>11, AnsweredStep, YieldStep,
           PulledStep, StreamEndsStep, CallFailsStep DEF Next

LEMMA Invariant == Spec => []PoolInv
BY InitInv, NextInv, PTL DEF Spec

-----------------------------------------------------------------------------
(* Every state is well typed: in particular, an adapter that was handed out *)
(* has a provider, and failover never leaves one half made.                 *)
THEOREM TypeCorrect == Spec => []TypeOK
BY Invariant, PTL DEF PoolInv

(* However many adapters of an owner chat and stream at once, and whatever  *)
(* resets fall between their calls, a budget is never overdrawn.            *)
THEOREM BudgetKept == Spec => []BudgetHolds
BY Invariant, PTL DEF PoolInv

(* A call that returned normally was charged its prompt and its output      *)
(* once, in however many instalments.                                      *)
THEOREM ChargesAreExact == Spec => []ChargedExactly
BY Invariant, PTL DEF PoolInv, Charges

(* A stream goes on only while it owes less than the threshold, and owes no   *)
(* more when it is broken off, however a chunk has its text rated anew; only   *)
(* the last chunk before a refusal or an abandonment may add to that.         *)
THEOREM EvasionIsBounded == Spec => []UnchargedIsBounded
BY Invariant, PTL DEF PoolInv, Charges
=============================================================================
