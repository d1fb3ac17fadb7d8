----------------------------- MODULE TokenPool -----------------------------
(***************************************************************************)
(* Token governance: TokenPool (packages/providers/src/pool.ts) and the     *)
(* router in front of the model providers (router.ts), which picks a        *)
(* provider, fails over to the next one, and charges every call of the      *)
(* adapters it handed out to the owner's budget, streams bit by bit.        *)
(*                                                                         *)
(* One owner, whose adapters work concurrently.  Its budget is limited: an  *)
(* unlimited one only adds up.  Time is two facts a clock may establish at  *)
(* any moment: a provider's minute is over, the budget's period is over.    *)
(* A definition Def_Bug is a variant of Def with a plausible fault; it is   *)
(* not part of the specification.                                          *)
(***************************************************************************)
EXTENDS Integers, Sequences, FiniteSets, FiniteSetsExt

CONSTANTS
  Providers,      \* the configured providers
  Allowed,        \* budget.providers
  Adapters,       \* bound on the adapters asked for
  Budgets,        \* the values maxTokens may be given
  none,           \* no budget, no provider
  Rpm, Tpm, Cap,  \* the rate limit: rpm, tpm and maxConcurrent
  Failover,       \* config.failover
  Input,          \* the tokens of a prompt
  MaxAnswer,      \* bound on the tokens of a chat's answer
  Threshold,      \* the tokens a stream may deliver before it is charged (100)
  MaxOutput,      \* bound on the estimate for a stream's text
  MaxCalls        \* bound on the calls of an adapter

ASSUME TokenAssumption ==
  /\ IsFiniteSet(Providers) /\ Allowed \subseteq Providers /\ none \notin Providers
  /\ Budgets \subseteq Nat \ {0} /\ none \notin Budgets
  /\ {Rpm, Tpm, Cap, Input, MaxAnswer, Threshold, MaxOutput, MaxCalls} \subseteq Nat \ {0}
  /\ Failover \in BOOLEAN

VARIABLES
  budget,      \* maxTokens of the owner's budget, or none
  used,        \* usage.totalTokens
  breakdown,   \* usage.breakdown, per provider
  periodOver,  \* has the budget's period elapsed?
  requests,    \* requestsInWindow, per provider
  tokens,      \* tokensInWindow, per provider
  minuteOver,  \* has the provider's window elapsed?
  pc,          \* where each adapter is
  provider,    \* the provider of each adapter
  rest,        \* the providers getAdapter has not tried yet
  calls,       \* the calls of each adapter
  output,      \* the tokens the current call of each adapter delivered
  charged,     \* those consume accepted (a ghost of chat, a local of chatStream)
  outcome      \* how the last call of each adapter ended

usage   == <<budget, used, breakdown, periodOver>>
limits  == <<requests, tokens, minuteOver>>
routing == <<provider, rest>>
call    == <<calls, output, charged, outcome>>
vars    == <<usage, limits, pc, routing, call>>

Goto(r, place) == pc' = [pc EXCEPT ![r] = place]

Init ==
  /\ budget = none /\ used = 0 /\ periodOver = FALSE
  /\ breakdown = [p \in Providers |-> 0]
  /\ requests = [p \in Providers |-> 0] /\ tokens = [p \in Providers |-> 0]
  /\ minuteOver = [p \in Providers |-> FALSE]
  /\ pc = [r \in Adapters |-> "new"] /\ provider = [r \in Adapters |-> none]
  /\ rest = [r \in Adapters |-> <<>>]
  /\ calls = [r \in Adapters |-> 0] /\ output = [r \in Adapters |-> 0]
  /\ charged = [r \in Adapters |-> 0] /\ outcome = [r \in Adapters |-> "none"]

-----------------------------------------------------------------------------
(* allocate replaces the entry; resetUsage and an elapsed period empty it.  *)
Allocate(b) ==
  /\ budget' = b /\ used' = 0 /\ periodOver' = FALSE
  /\ breakdown' = [p \in Providers |-> 0]
  /\ UNCHANGED <<limits, pc, routing, call>>

ResetUsage_KeepsBreakdown ==
  /\ budget # none
  /\ used' = 0 /\ periodOver' = FALSE
  /\ UNCHANGED <<budget, breakdown, limits, pc, routing, call>>

ResetUsage ==
  /\ budget # none
  /\ used' = 0 /\ periodOver' = FALSE
  /\ breakdown' = [p \in Providers |-> 0]
  /\ UNCHANGED <<budget, limits, pc, routing, call>>

PeriodElapses ==
  /\ budget # none /\ ~periodOver /\ periodOver' = TRUE
  /\ UNCHANGED <<budget, used, breakdown, limits, pc, routing, call>>

MinuteElapses(p) ==
  /\ ~minuteOver[p] /\ minuteOver' = [minuteOver EXCEPT ![p] = TRUE]
  /\ UNCHANGED <<usage, requests, tokens, pc, routing, call>>

-----------------------------------------------------------------------------
(* consume.  All of it is one synchronous step: the budget is checked and    *)
(* the tokens are committed with no await in between.                       *)
Usage == IF periodOver THEN [total |-> 0, of |-> [p \in Providers |-> 0]]
                       ELSE [total |-> used, of |-> breakdown]

Fits_Stale(n) == Usage.total < budget

Fits(n) == Usage.total + n <= budget

CountRequest(p, n) ==
  /\ requests' = [requests EXCEPT ![p] = IF minuteOver[p] THEN 1 ELSE @ + 1]
  /\ tokens' = [tokens EXCEPT ![p] = IF minuteOver[p] THEN n ELSE @ + n]
  /\ minuteOver' = [minuteOver EXCEPT ![p] = FALSE]

Accept(p, n) ==
  \/ budget = none /\ UNCHANGED <<usage, limits>>
  \/ /\ budget # none /\ p \in Allowed /\ Fits(n)
     /\ used' = Usage.total + n
     /\ breakdown' = [Usage.of EXCEPT ![p] = @ + n]
     /\ periodOver' = FALSE
     /\ CountRequest(p, n)
     /\ UNCHANGED budget

\* A disallowed provider is refused before the period is looked at.
Refuse(p, n) ==
  /\ budget # none /\ UNCHANGED <<budget, limits>>
  /\ \/ p \notin Allowed /\ UNCHANGED <<used, breakdown, periodOver>>
     \/ /\ p \in Allowed /\ ~Fits(n)
        /\ used' = Usage.total /\ breakdown' = Usage.of /\ periodOver' = FALSE

-----------------------------------------------------------------------------
(* getAdapter: the first provider of the order that canRequest lets pass.   *)

\* Nobody calls acquireConcurrent.
concurrentRequests(p) == 0

CanRequest(p) ==
  \/ minuteOver[p] /\ concurrentRequests(p) < Cap
  \/ requests[p] < Rpm /\ tokens[p] < Tpm /\ concurrentRequests(p) < Cap

\* canRequest opens a new window for the providers it looks at.
LookAt(ps) ==
  /\ requests' = [p \in Providers |-> IF p \in ps /\ minuteOver[p] THEN 0 ELSE requests[p]]
  /\ tokens' = [p \in Providers |-> IF p \in ps /\ minuteOver[p] THEN 0 ELSE tokens[p]]
  /\ minuteOver' = [p \in Providers |-> minuteOver[p] /\ p \notin ps]

\* The first k - 1 providers were full.
Full(order, k) == \A i \in 1..(k - 1) : ~CanRequest(order[i])

Take(r, order, k) ==
  /\ Goto(r, "creating")
  /\ provider' = [provider EXCEPT ![r] = order[k]]
  /\ rest' = [rest EXCEPT ![r] = SubSeq(order, k + 1, Len(order))]
  /\ LookAt({order[i] : i \in 1..k})

RouteTo_NoThrow(r, order) ==
  \/ \E k \in DOMAIN order : CanRequest(order[k]) /\ Full(order, k) /\ Take(r, order, k)
  \/ /\ Full(order, Len(order) + 1)
     /\ Goto(r, "creating") /\ provider' = [provider EXCEPT ![r] = none] /\ UNCHANGED rest
     /\ LookAt({order[i] : i \in DOMAIN order})

RouteTo(r, order) ==
  \/ \E k \in DOMAIN order : CanRequest(order[k]) /\ Full(order, k) /\ Take(r, order, k)
  \/ /\ Full(order, Len(order) + 1)
     /\ Goto(r, "failed") /\ UNCHANGED routing
     /\ LookAt({order[i] : i \in DOMAIN order})

\* Any order: the strategy decides it (priority, round-robin, cost, latency).
Orders == {o \in [1..Cardinality(Providers) -> Providers] :
             \A i, j \in DOMAIN o : i # j => o[i] # o[j]}

GetAdapter(r) ==
  /\ pc[r] = "new"
  /\ \E order \in Orders : RouteTo(r, order)
  /\ UNCHANGED <<usage, call>>

Created(r) ==
  /\ pc[r] = "creating" /\ Goto(r, "ready")
  /\ UNCHANGED <<usage, limits, routing, call>>

\* The secret, the authorisation or the plugin failed: the next one.
NextProvider_Same(r) == RouteTo(r, <<provider[r]>> \o rest[r])

NextProvider(r) == RouteTo(r, rest[r])

CreateFails(r) ==
  /\ pc[r] = "creating"
  /\ \/ Failover /\ NextProvider(r)
     \/ ~Failover /\ Goto(r, "failed") /\ UNCHANGED <<routing, limits>>
  /\ UNCHANGED <<usage, call>>

-----------------------------------------------------------------------------
(* TrackedAdapter.  A call ends in "ready", with its outcome.               *)
Call(r, place) ==
  /\ pc[r] = "ready" /\ calls[r] < MaxCalls
  /\ calls' = [calls EXCEPT ![r] = @ + 1]
  /\ output' = [output EXCEPT ![r] = 0] /\ charged' = [charged EXCEPT ![r] = 0]
  /\ outcome' = [outcome EXCEPT ![r] = "none"]
  /\ Goto(r, place)
  /\ UNCHANGED <<usage, limits, routing>>

Chat(r)       == Call(r, "chatting")
ChatStream(r) == Call(r, "streaming")

End(r, how) == Goto(r, "ready") /\ outcome' = [outcome EXCEPT ![r] = how]

\* Charge n tokens of adapter r: go on at "next", or end refused.
Charge(r, n, next) ==
  \/ /\ Accept(provider[r], n)
     /\ charged' = [charged EXCEPT ![r] = @ + n]
     /\ IF next = "ready" THEN End(r, "ok") ELSE Goto(r, next) /\ UNCHANGED outcome
  \/ /\ Refuse(provider[r], n)
     /\ End(r, "refused") /\ UNCHANGED charged

\* chat: the provider answered, then the answer is charged; a refusal throws
\* the answer away.
Answered(r) ==
  /\ pc[r] = "chatting"
  /\ \E n \in 1..MaxAnswer : output' = [output EXCEPT ![r] = n] /\ Charge(r, Input + n, "ready")
  /\ UNCHANGED <<routing, calls>>

\* chatStream: a chunk is yielded, and looked at when the consumer comes back.
\* output is the estimate for the whole text so far.  A chunk may have the text rated
\* anew, as more or less CJK, so the estimate may rise or fall by any amount.
Yield(r) ==
  /\ pc[r] = "streaming"
  /\ \E estimate \in {output[r]} \cup 1..MaxOutput : output' = [output EXCEPT ![r] = estimate]
  /\ Goto(r, "yielded")
  /\ UNCHANGED <<usage, limits, routing, calls, charged, outcome>>

Untracked(r) == output[r] - charged[r]

Pulled_NeverCharged(r) ==
  /\ pc[r] = "yielded" /\ Goto(r, "streaming")
  /\ UNCHANGED <<usage, limits, charged, outcome, routing, calls, output>>

Pulled(r) ==
  /\ pc[r] = "yielded"
  /\ \/ Untracked(r) >= Threshold /\ Charge(r, Untracked(r), "streaming")
     \/ /\ Untracked(r) < Threshold /\ Goto(r, "streaming")
        /\ UNCHANGED <<usage, limits, charged, outcome>>
  /\ UNCHANGED <<routing, calls, output>>

StreamEnds_ChargesAll(r) ==
  /\ pc[r] = "streaming" /\ Charge(r, Input + output[r], "ready")
  /\ UNCHANGED <<routing, calls, output>>

StreamEnds(r) ==
  /\ pc[r] = "streaming" /\ Charge(r, Input + Untracked(r), "ready")
  /\ UNCHANGED <<routing, calls, output>>

\* The consumer leaves its loop, or the provider fails: what is not charged
\* yet never is.
CallFails(r) ==
  /\ \/ pc[r] = "yielded" /\ End(r, "abandoned")
     \/ pc[r] \in {"chatting", "streaming"} /\ End(r, "failed")
  /\ UNCHANGED <<usage, limits, routing, calls, output, charged>>

-----------------------------------------------------------------------------
Creation(r) == Created(r) \/ CreateFails(r)

Next ==
  \/ \E b \in Budgets : Allocate(b)
  \/ ResetUsage \/ PeriodElapses \/ \E p \in Providers : MinuteElapses(p)
  \/ \E r \in Adapters :
       \/ GetAdapter(r) \/ Creation(r) \/ Chat(r) \/ ChatStream(r)
       \/ Answered(r) \/ Yield(r) \/ Pulled(r) \/ StreamEnds(r) \/ CallFails(r)

Spec == Init /\ [][Next]_vars

\* prepareRuntimeAuth and the secret manager answer, well or badly.
FairSpec == Spec /\ \A r \in Adapters : WF_vars(Creation(r))

-----------------------------------------------------------------------------
UsageOK ==
  /\ budget \in Budgets \cup {none} /\ used \in Int /\ periodOver \in BOOLEAN
  /\ breakdown \in [Providers -> Int]

LimitsOK ==
  /\ requests \in [Providers -> Nat] /\ tokens \in [Providers -> Int]
  /\ minuteOver \in [Providers -> BOOLEAN]

RoutingOK ==
  /\ pc \in [Adapters -> {"new", "creating", "failed", "ready", "chatting", "streaming", "yielded"}]
  /\ provider \in [Adapters -> Providers \cup {none}]
  /\ \A r \in Adapters : pc[r] \notin {"new", "failed"} => provider[r] \in Providers

CallsOK ==
  /\ calls \in [Adapters -> 0..MaxCalls] /\ output \in [Adapters -> Nat] /\ charged \in [Adapters -> Int]
  /\ outcome \in [Adapters -> {"none", "ok", "refused", "failed", "abandoned"}]

TypeOK == UsageOK /\ LimitsOK /\ RoutingOK /\ CallsOK

(* Concurrent callers cannot overdraw a budget together, whatever resets or *)
(* re-allocations fall between their calls.                                 *)
BudgetHolds == budget # none => used <= budget

(* The total and the breakdown by provider tell the same story, across      *)
(* resets, elapsed periods and refusals.                                    *)
BreakdownAddsUp == used = MapThenSumSet(LAMBDA p : breakdown[p], Providers)

(* A call that returned normally was charged its prompt and its output,     *)
(* once: the instalments of a stream and its final charge add up.           *)
ChargedExactly ==
  \A r \in Adapters : outcome[r] = "ok" => charged[r] = Input + output[r]

(* A stream goes on only while it owes less than the threshold, and that is   *)
(* all it owes when the provider breaks it off: only the last chunk of a        *)
(* stream that is refused or abandoned may add to it.                         *)
UnchargedIsBounded ==
  \A r \in Adapters :
    pc[r] = "streaming" \/ outcome[r] \in {"ok", "failed"} => output[r] - charged[r] < Threshold

(* Failover ends: every provider is asked at most once per adapter.         *)
FailoverEnds == \A r \in Adapters : pc[r] = "creating" ~> pc[r] \in {"ready", "failed"}

-----------------------------------------------------------------------------
(* A statement of the repository that the code does not keep.               *)

(* docs/product-design.md:387, "Resource limits (token budgets, concurrent  *)
(* request caps, rate limits) are enforced before execution": no more than  *)
(* maxConcurrent requests of a provider are in flight.                      *)
CapEnforced ==
  \A p \in Providers :
    Cardinality({r \in Adapters : provider[r] = p /\ pc[r] \in {"chatting", "streaming", "yielded"}}) <= Cap
=============================================================================
