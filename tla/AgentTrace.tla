------------------------------ MODULE AgentTrace ------------------------------
(***************************************************************************)
(* The trace of one agent's work (core/src/agent/trace.ts): spans that open   *)
(* and close, nested by a stack of the open ones.  What runs side by side    *)
(* closes in any order, and a span may be closed twice or not at all.        *)
(***************************************************************************)
EXTENDS Integers, Sequences

CONSTANTS
  Types,        \* of spans: "tool-call" and others
  Tokens,       \* tokens a result may report
  MaxSpans, MaxEnds    \* bounds: calls of startSpan and endSpan

VARIABLES
  spans,        \* spans[i]: type, parent (0 for a root), children, result
  rootSpans,
  spanStack,    \* the ids of the open spans, the current parent last
  ends          \* calls of endSpan

traceVars == <<spans, rootSpans, spanStack, ends>>

Open == [status |-> "open", tokens |-> 0]

\* The ids of a set, oldest first.
ListedByAge(ids, set) ==
  /\ {ids[k] : k \in DOMAIN ids} = set
  /\ \A k, l \in DOMAIN ids : k < l => ids[k] < ids[l]

\* The sum of a list of numbers.
Total(numbers) ==
  LET sum[n \in 0..Len(numbers)] == IF n = 0 THEN 0 ELSE sum[n - 1] + numbers[n] IN sum[Len(numbers)]

-----------------------------------------------------------------------------
Init == spans = <<>> /\ rootSpans = <<>> /\ spanStack = <<>> /\ ends = 0

\* The span becomes a child of the one on top of the stack.
StartSpan(type) ==
  LET id     == Len(spans) + 1
      parent == IF spanStack = <<>> THEN 0 ELSE spanStack[Len(spanStack)]
      span   == [type |-> type, parent |-> parent, children |-> <<>>, result |-> Open]
      known  == IF parent = 0 THEN spans ELSE [spans EXCEPT ![parent].children = Append(@, id)]
  IN  /\ id <= MaxSpans
      /\ spans' = Append(known, span)
      /\ rootSpans' = IF parent = 0 THEN Append(rootSpans, id) ELSE rootSpans
      /\ spanStack' = Append(spanStack, id)
      /\ UNCHANGED ends

Removed(idx) == [k \in 1..(Len(spanStack) - 1) |-> spanStack[IF k < idx THEN k ELSE k + 1]]

Unstacked_Top(id) == IF \E k \in DOMAIN spanStack : spanStack[k] = id THEN Removed(Len(spanStack)) ELSE spanStack

\* `lastIndexOf' and `splice': out-of-order closes take the span from the middle.
Unstacked(id) ==
  LET found == {k \in DOMAIN spanStack : spanStack[k] = id}
  IN  IF found = {} THEN spanStack ELSE Removed(CHOOSE k \in found : \A l \in found : l <= k)

\* A span closed before gets its new result all the same.
EndSpan(id, status, tokens) ==
  /\ ends < MaxEnds /\ ends' = ends + 1
  /\ spans' = [spans EXCEPT ![id].result = [status |-> status, tokens |-> tokens]]
  /\ spanStack' = Unstacked(id)
  /\ UNCHANGED rootSpans

TraceNext ==
  \/ \E type \in Types : StartSpan(type)
  \/ \E id \in DOMAIN spans, status \in {"success", "error"}, tokens \in Tokens : EndSpan(id, status, tokens)

\* What each span adds to the totals.
TokensUsed == [i \in DOMAIN spans |-> spans[i].result.tokens]
ToolCalls == [i \in DOMAIN spans |-> IF spans[i].type = "tool-call" THEN 1 ELSE 0]

\* walkSpans adds up the tree from the roots.  A child is younger than its parent, so
\* the walk of a span is defined over the younger ones.
WalkSpans(amounts) ==
  LET walk[id \in DOMAIN spans] ==
        amounts[id] + Total([k \in DOMAIN spans[id].children |-> walk[spans[id].children[k]]])
  IN  Total([k \in DOMAIN rootSpans |-> walk[rootSpans[k]]])

GetTrace == [totalTokens |-> WalkSpans(TokensUsed), totalToolCalls |-> WalkSpans(ToolCalls)]

-----------------------------------------------------------------------------
(* In whatever order spans close, a new one goes under the latest that is     *)
(* still open: the stack holds the open spans, oldest first; and the totals   *)
(* count every span once, open or closed, wherever it hangs.                 *)
TraceIsWhole ==
  /\ ListedByAge(spanStack, {i \in DOMAIN spans : spans[i].result.status = "open"})
  /\ GetTrace.totalToolCalls = Total(ToolCalls)
  /\ GetTrace.totalTokens = Total(TokensUsed)

(* Not kept: of two tools called side by side the second one's span hangs     *)
(* under the first one's, and outlives it.                                    *)
ParentsOutliveChildren ==
  \A i \in DOMAIN spans : (spans[i].parent # 0 /\ spans[i].result.status = "open") =>
                            spans[spans[i].parent].result.status = "open"
=============================================================================
