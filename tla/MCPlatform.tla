----------------------------- MODULE MCPlatform -----------------------------
(***************************************************************************)
(* Small instances of Platform for TLC.  A condition, a machine or a         *)
(* content is there when it makes a case of the code happen that the others  *)
(* do not.                                                                  *)
(***************************************************************************)
EXTENDS Platform

OverflowsChecked == {"throw", "drop-oldest"}
Timestamps == <<1, 1, 2>>

Definition(condition, durationMs, cooldownMs, enabled) ==
  [condition |-> condition, durationMs |-> durationMs, cooldownMs |-> cooldownMs, enabled |-> enabled]
DefinitionsChecked ==
  {Definition("over", 2, 2, TRUE), Definition("under", 1, 0, TRUE), Definition("over", 2, 2, FALSE)}

ModesOfLoop == {"single-turn", "loop", "plan-and-execute"}
PlansChecked == {<<{}, {1}>>, <<{2}, {}>>, <<{}, {}, {1, 2}>>}

Machine1 ==
  [type |-> [a |-> "task", b |-> "choice", c |-> "wait", d |-> "succeed"], initial |-> "a",
   next |-> [a |-> {"b", "end"}, b |-> {"a", "c", "unknown"}, c |-> {"d", "a"}, d |-> {}],
   retries |-> [a |-> 1, b |-> 0, c |-> 0, d |-> 0]]
Machine2 ==
  [type |-> [a |-> "choice", b |-> "fail"], initial |-> "a", next |-> [a |-> {"b", "a"}, b |-> {}],
   retries |-> [a |-> 0, b |-> 0]]
MachinesChecked == {Machine1, Machine2}

Rule(operator, value) == [channel |-> "slack", enabled |-> TRUE, operator |-> operator, value |-> value]
RulesOfTriggers == {Rule("matches", <<"text", "a">>), Rule("gt", <<"number", 1>>)}
FieldsChecked   == {<<"text", "ab">>, <<"number", 2>>}
Texts           == {<<"a", "ab">>}

Roles == [k1 |-> "viewer", k2 |-> "developer"]

Guardrail(type, kind, action) == [type |-> type, kind |-> kind, action |-> action]
Item(text)  == <<"string", text>>
AList(text) == <<"object", [a |-> <<"array", {Item(text)}>>]>>
Schema ==
  [type |-> "object", required |-> {"a"},
   properties |-> [a |-> [type |-> "array", items |-> [type |-> "string", enum |-> {Item("x")}]]]]
SchemasChecked == {Schema}
OutputsChecked == {<<"invalid">>, AList("x"), AList("y"), Item("x")}
ListsChecked ==
  {<<Guardrail("both", "custom", "block"), Guardrail("both", "custom", "rewrite")>>,
   <<Guardrail("both", "custom", "rewrite"), Guardrail("both", "custom", "rewrite"),
     Guardrail("input", "custom", "block")>>,
   <<Guardrail("input", "builtin", "rewrite"), Guardrail("both", "schema", "block"),
     Guardrail("output", "none", "warn")>>}

ContentsChecked == {<<"b", "a", "c", "d">>, <<"a", "b", "c">>, <<"c", "a", "b">>, <<"a", "a", "b">>, <<>>}

Draft(type, tags, time) == [agentId |-> "a", type |-> type, tags |-> tags, timestamp |-> time]
DraftsChecked == {Draft("question", {"t"}, 1), Draft("answer", {"u"}, 2)}
Filters == [s1 |-> <<>>, s2 |-> [agentId |-> "a", tags |-> {"t"}], s3 |-> [type |-> "question", since |-> 2]]

Life(who, outcome, summary, tools, importance) ==
  [agent |-> who, outcome |-> outcome, summary |-> summary, tools |-> tools, importance |-> importance]
Lives ==
  {Life("a", "success", "s", 2, 2), Life("b", "success", "st", 2, 1), Life("a", "failure", "s", 3, 1)}
Contained == [s |-> {"s", "st"}, st |-> {"st"}]
Halved    == [i \in 0..2 |-> i \div 2]

\* Years of two months, of three and two days; the second one is a leap year.
Month(m, length) == [d \in 1..length |-> [month |-> m, day |-> d]]
Year     == Month(1, 3) \o Month(2, 2)
LeapYear == Month(1, 3) \o Month(2, 3)
Every    == << [kind |-> "*"] >>
Value(n) == [kind |-> "value", from |-> n]
Cron(minute, hour, dayOfMonth, month, dayOfWeek) ==
  [minute |-> minute, hour |-> hour, dayOfMonth |-> dayOfMonth, month |-> month, dayOfWeek |-> dayOfWeek]
Always == Cron(Every, Every, Every, Every, Every)
Calendar == Year \o LeapYear \o Year \o Year \o Year \o Year
ExpressionsChecked ==
  {Always,
   Cron(<<Value(1)>>, << [kind |-> "step", step |-> 2] >>, << [kind |-> "range", from |-> 2, to |-> 3] >>, Every, <<Value(1)>>),
   Cron(<<Value(0)>>, <<Value(0), Value(1)>>, <<Value(3)>>, <<Value(2)>>, Every),
   Cron(<< [kind |-> "step", from |-> 1, step |-> 3] >>, Every, Every, Every, << [kind |-> "range", from |-> 1, to |-> 2] >>),
   Cron(<<Value(2)>>, Every, Every, Every, Every)}

ConfigsChecked ==
  {[cleanup |-> TRUE, valid |-> TRUE], [cleanup |-> FALSE, valid |-> TRUE], [cleanup |-> TRUE, valid |-> FALSE]}

Case(metric, score, latency) == [scores |-> [m \in {metric} |-> score], latencyMs |-> latency, tokenCount |-> 5]
RunsChecked ==
  {<<Case("x", 11, 1), Case("x", 10, 1)>>, <<Case("x", 11, 1), Case("x", 11, 1)>>,
   <<Case("x", 12, 3), Case("x", 12, 1)>>, <<Case("x", 12, 3), Case("x", 9, 1)>>,
   <<Case("x", 8, 9), Case("x", 12, 1)>>, <<Case("y", 15, 1)>>, <<>>}
=============================================================================
