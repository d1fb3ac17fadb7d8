----------------------------- MODULE Guardrails -----------------------------
(***************************************************************************)
(* One run of the guardrails over an input or an output of an agent          *)
(* (packages/core/src/guardrails): GuardrailRunner goes through the           *)
(* guardrails in order, and a custom one asks a model, may have the content   *)
(* rewritten and has the rewritten content judged again.                     *)
(*                                                                         *)
(* A content is a number: 1 is the one given, the next ones are rewritten.     *)
(* What the patterns and the model find in it is a choice.                  *)
(***************************************************************************)
EXTENDS Naturals, Sequences, FiniteSets

CONSTANTS
  Lists,       \* the lists of guardrails: type (input, output, both), kind (builtin, schema, custom, none), action
  HasAdapter,  \* is a model configured?
  Outputs,     \* the structured outputs to validate, <<"invalid">> where it is no JSON
  Schemas      \* the schemas of schema-validation

VARIABLES
  guardrails,   \* the applicable guardrails
  at,           \* the guardrail that is evaluated; past the last when the run is done
  step,         \* what is awaited: evaluate, judge, rewrite; or done
  depth,        \* rewriteDepth of the judge call that is in flight
  content,      \* the content shown to this guardrail
  candidate,    \* the content the call in flight is about
  judgements,     \* of this guardrail: the verdict at each depth
  rewritten,    \* rewrittenInput or rewrittenOutput, 0 for none
  passed,
  approved,     \* <<guardrail, content>> that were judged to pass
  made          \* the number of contents so far, the given one included

guardVars == <<guardrails, at, step, depth, content, candidate, judgements, rewritten, passed, approved, made>>

MaxRewriteDepth == 3

-----------------------------------------------------------------------------
(* OutputValidator.  A schema names a type and may name values, required       *)
(* fields and properties, or the schema of the items; a value is a pair of    *)
(* its type and what it is made of.                                         *)
CheckType(value, type) ==
  \/ type = "any" \/ value[1] = type
  \/ type = "number" /\ value[1] = "integer"

\* What validateValue goes on to below a value: its properties, or its items.
Below(value, schema) ==
  CASE schema.type = "object" /\ value[1] = "object" ->
         {<<value[2][key], schema.properties[key]>> : key \in DOMAIN schema.properties \cap DOMAIN value[2]}
    [] schema.type = "array" /\ value[1] = "array" -> {<<item, schema.items>> : item \in value[2]}
    [] OTHER -> {}

ValidateValue(value, schema) ==
  /\ CheckType(value, schema.type)
  /\ "enum" \in DOMAIN schema => value \in schema.enum
  /\ (schema.type = "object" /\ value[1] = "object") => schema.required \subseteq DOMAIN value[2]

\* Every value down to MaxDepth is valid, and nothing is nested deeper.
MaxDepth == 20
ValidateStructuredOutput(output, schema) ==
  LET level[n \in 0..MaxDepth + 1] ==
        IF n = 0 THEN {<<output, schema>>} ELSE UNION {Below(part[1], part[2]) : part \in level[n - 1]}
  IN  /\ output[1] # "invalid"
      /\ \A n \in 0..MaxDepth : \A part \in level[n] : ValidateValue(part[1], part[2])
      /\ level[MaxDepth + 1] = {}

-----------------------------------------------------------------------------
Applicable(list, direction) == SelectSeq(list, LAMBDA g : g.type \in {direction, "both"})

Init ==
  /\ \E list \in Lists, direction \in {"input", "output"} : guardrails = Applicable(list, direction)
  /\ at = 1 /\ step = (IF 1 \in DOMAIN guardrails THEN "evaluate" ELSE "done")
  /\ depth = 0 /\ content = 1 /\ candidate = 1 /\ judgements = <<>> /\ rewritten = 0 /\ passed = TRUE
  /\ approved = {} /\ made = 1

(* What the run makes of the verdict of a guardrail: block ends the run, warn  *)
(* and a rewrite without a new content let the content through.             *)
Judged(ok, new) ==
  LET g == guardrails[at]
      blocked == ~ok /\ g.action = "block"
      replaces == ~ok /\ g.action = "rewrite" /\ new # 0
  IN  /\ passed' = ~blocked
      /\ rewritten' = IF replaces THEN new ELSE rewritten
      /\ content' = IF replaces THEN new ELSE content
      /\ candidate' = content'
      /\ IF ~blocked /\ at + 1 \in DOMAIN guardrails THEN step' = "evaluate" /\ at' = at + 1
         ELSE step' = "done" /\ UNCHANGED at
      /\ depth' = 0 /\ judgements' = <<>>

\* evaluateGuardrail: the built-in checks answer at once; a custom one without a model, or a
\* guardrail with nothing to evaluate, passes.
CheckPatterns ==
  /\ guardrails[at].kind = "builtin"
  /\ \E found \in BOOLEAN :
       Judged(~found, 0) /\ approved' = IF found THEN approved ELSE approved \cup {<<at, content>>}

CheckSchemaValidation ==
  /\ guardrails[at].kind = "schema"
  /\ \E output \in Outputs, schema \in Schemas :
       LET ok == ValidateStructuredOutput(output, schema)
       IN  Judged(ok, 0) /\ approved' = IF ok THEN approved \cup {<<at, content>>} ELSE approved

Skip ==
  /\ guardrails[at].kind = "none" \/ (guardrails[at].kind = "custom" /\ ~HasAdapter)
  /\ Judged(TRUE, 0) /\ UNCHANGED approved

AskModel ==
  /\ guardrails[at].kind = "custom" /\ HasAdapter
  /\ step' = "judge"
  /\ UNCHANGED <<at, depth, content, candidate, judgements, rewritten, passed, approved>>

EvaluateGuardrail ==
  /\ step = "evaluate"
  /\ CheckPatterns \/ CheckSchemaValidation \/ Skip \/ AskModel
  /\ UNCHANGED <<guardrails, made>>

\* The calls of checkCustomLlm return one into the other: the content rewritten at depth 0 is
\* kept when the judge passed it, and what deeper calls had rewritten is dropped.
Kept_Unchecked(vs) == IF Len(vs) >= 2 THEN 2 ELSE 0
Kept(vs) == IF Len(vs) >= 2 /\ vs[2].ok THEN 2 ELSE 0

Returned(vs, judged) ==
  Judged(vs[1].ok, IF Kept(vs) = 0 THEN 0 ELSE vs[2].of)
  /\ approved' = judged

RewritesAgain(ok) == ~ok /\ guardrails[at].action = "rewrite" /\ depth < MaxRewriteDepth

\* The model's verdict: it passes or does not; an answer that is no JSON, one without a
\* verdict and a call that throws count as not passed and are not rewritten.
JudgeAnswers ==
  /\ step = "judge"
  /\ \E verdict \in {"passes", "fails", "broken"} :
       LET ok == verdict = "passes"
           vs == Append(judgements, [ok |-> ok, of |-> candidate])
           judged == IF ok THEN approved \cup {<<at, candidate>>} ELSE approved
       IN  IF verdict # "broken" /\ RewritesAgain(ok)
           THEN /\ step' = "rewrite" /\ judgements' = vs /\ approved' = judged
                /\ UNCHANGED <<at, depth, content, candidate, rewritten, passed>>
           ELSE Returned(vs, judged)
  /\ UNCHANGED <<guardrails, made>>

\* rewriteContent: a new content, judged one level deeper; an empty answer or an error is none.
RewriteContent ==
  /\ step = "rewrite"
  /\ \/ /\ step' = "judge" /\ depth' = depth + 1 /\ made' = made + 1
        /\ candidate' = made + 1
        /\ UNCHANGED <<at, content, judgements, rewritten, passed, approved>>
     \/ Returned(judgements, approved) /\ UNCHANGED made
  /\ UNCHANGED guardrails

GuardrailsNext == EvaluateGuardrail \/ JudgeAnswers \/ RewriteContent

Spec == Init /\ [][GuardrailsNext]_guardVars

-----------------------------------------------------------------------------
(* A rewritten content that replaces the given one was judged to pass by the   *)
(* guardrail that had it rewritten, however deep the rewriting went before     *)
(* (checkCustomLlm's re-validation and its discarded rewrites).             *)
RewritesAreJudged ==
  rewritten # 0 => \E g \in DOMAIN guardrails :
                     guardrails[g].action = "rewrite" /\ <<g, rewritten>> \in approved

-----------------------------------------------------------------------------
(* Statements of the repository that the code does not keep.                *)

(* guardrails/index.ts:479 "Fail closed on evaluation errors - blocking is      *)
(* safer than allowing unchecked content": what a guardrail did not accept    *)
(* does not get through.  With the actions warn and rewrite it does.         *)
FailsClosed ==
  (step = "done" /\ passed) =>
    \A g \in 1..Len(guardrails) : guardrails[g].kind = "custom" /\ HasAdapter
       => \E c \in 1..made : <<g, c>> \in approved

(* The content a run lets through was approved by every guardrail: what a      *)
(* later one rewrites is not shown to the earlier ones again.               *)
AcceptedByAll ==
  (step = "done" /\ passed /\ rewritten # 0) =>
    \A g \in 1..Len(guardrails) : guardrails[g].action = "block" => <<g, rewritten>> \in approved
=============================================================================
