--------------------------- MODULE CognitiveMemory ---------------------------
(***************************************************************************)
(* The three layers of an agent's memory (core/src/memory/cognitive.ts): the *)
(* episodes, the facts and preferences, the procedures; their decay, and the *)
(* consolidation that turns successful episodes into procedures.  SQLite is  *)
(* called synchronously, so every method is one step, except consolidate:    *)
(* it awaits between looking for a pattern and recording one.               *)
(***************************************************************************)
EXTENDS Naturals, Sequences, FiniteSets, Functions

CONSTANTS
  Episodes,       \* what an agent may live through: agent, outcome, summary, tools, importance
  Goals,          \* summaries and goals
  Within,         \* Within[g]: the texts that contain the text g
  Facts,          \* subject, predicate, object and namespace as one
  Consolidations, \* calls of consolidate that may overlap
  BatchLimit,     \* 50 in the code
  DecayTo,        \* DecayTo[i]: the importance i times the factor
  MinImportance, RecallFloor, TopK,
  MaxCalls        \* bound: calls of the methods

VARIABLES
  episodes,       \* the rows of episodic_memory, oldest first
  calls,          \* calls so far, which number the episodes
  facts,          \* the rows of semantic_facts
  preferences,    \* the value of every key that has one
  patterns,       \* the rows of procedural_patterns, oldest first
  batch           \* batch[c]: the episodes consolidation c has left, what it found

cogMemoryVars == <<episodes, calls, facts, preferences, patterns, batch>>

Idle == [agent |-> "none", todo |-> <<>>, at |-> "idle"]

-----------------------------------------------------------------------------
Init ==
  /\ episodes = <<>> /\ calls = 0 /\ facts = {} /\ preferences = <<>> /\ patterns = <<>>
  /\ batch = [c \in Consolidations |-> Idle]

Call == calls < MaxCalls /\ calls' = calls + 1

RecordEpisode(e) ==
  /\ Call
  /\ episodes' = Append(episodes, [life |-> e, id |-> calls', importance |-> e.importance, accessCount |-> 0])
  /\ UNCHANGED <<facts, preferences, patterns, batch>>

\* The rows `ORDER BY importance DESC ... LIMIT topK' may return: among rows
\* of one importance any of them, the time of the last access is left out.
Recalled(rows, k) ==
  {r \in SUBSET rows :
     /\ Cardinality(r) = (IF Cardinality(rows) < k THEN Cardinality(rows) ELSE k)
     /\ \A x \in r, y \in rows \ r : x.importance >= y.importance}

\* An empty query matches every summary; the rows returned are touched.
RecallEpisodes(query, agent, floor, k) ==
  \E r \in Recalled({e \in Range(episodes) : /\ e.life.agent = agent /\ e.importance >= floor
                                             /\ query # "" => e.life.summary \in Within[query]}, k) :
    /\ Call /\ r # {}
    /\ episodes' = [n \in DOMAIN episodes |->
                      IF episodes[n] \in r THEN [episodes[n] EXCEPT !.accessCount = @ + 1] ELSE episodes[n]]
    /\ UNCHANGED <<facts, preferences, patterns, batch>>

\* The procedures and facts that go into the answer are only read.
ProactiveRecall(task, agent) == RecallEpisodes(task, agent, RecallFloor, TopK)

\* An upsert written as a SELECT and an UPDATE or INSERT: MAX(confidence, ?).
StoreFact(f, confidence) ==
  /\ Call
  /\ facts' = IF \E row \in facts : row.fact = f
              THEN {IF row.fact = f /\ row.confidence < confidence THEN [row EXCEPT !.confidence = confidence] ELSE row
                      : row \in facts}
              ELSE facts \cup {[fact |-> f, confidence |-> confidence]}
  /\ UNCHANGED <<episodes, preferences, patterns, batch>>

\* The last value wins, however sure its source is.
StorePreference(key, value) ==
  /\ Call
  /\ preferences' = [k \in DOMAIN preferences \cup {key} |-> IF k = key THEN value ELSE preferences[k]]
  /\ UNCHANGED <<episodes, facts, patterns, batch>>

-----------------------------------------------------------------------------
(* A pattern starts with success rate 1 and one use; the rate is kept here   *)
(* as the number of successes.                                              *)
Recorded(goal, name) == Append(patterns, [goal |-> goal, name |-> name, uses |-> 1, successes |-> 1])

RecordProcedure(goal) ==
  /\ Call /\ patterns' = Recorded(goal, "given")
  /\ UNCHANGED <<episodes, facts, preferences, batch>>

FindProcedures(goal) == {n \in DOMAIN patterns : patterns[n].goal \in Within[goal]}

\* The average duration is left out: an invalid one is clamped to 0.
UpdateProcedureStats(n, success) ==
  /\ Call
  /\ patterns' = [patterns EXCEPT ![n].uses = @ + 1, ![n].successes = IF success THEN @ + 1 ELSE @]
  /\ UNCHANGED <<episodes, facts, preferences, batch>>

\* UPDATE and DELETE in one transaction.  Without an agent it is everybody's.
Faded(agents) ==
  LET fade(e) == IF e.life.agent \in agents THEN [e EXCEPT !.importance = DecayTo[@]] ELSE e
      kept(e) == e.life.agent \in agents => e.importance >= MinImportance
  IN  SelectSeq([n \in DOMAIN episodes |-> fade(episodes[n])], kept)

Decay(agents) ==
  /\ Call /\ episodes # <<>> /\ episodes' = Faded(agents)
  /\ UNCHANGED <<facts, preferences, patterns, batch>>

-----------------------------------------------------------------------------
NewestFirst == [n \in DOMAIN episodes |-> episodes[Len(episodes) + 1 - n]]

\* The newest successes come first.  Nothing marks an episode as processed:
\* the next consolidation selects it again.
Consolidate(c, agent) ==
  /\ Call /\ batch[c].at = "idle" /\ episodes # <<>>
  /\ LET good == SelectSeq(NewestFirst, LAMBDA e : e.life.agent = agent /\ e.life.outcome = "success") IN
     batch' = [batch EXCEPT ![c] = [agent |-> agent, at |-> "next",
                 todo |-> SelectSeq(SubSeq(good, 1, IF Len(good) < BatchLimit THEN Len(good) ELSE BatchLimit),
                                    LAMBDA e : e.life.tools >= 2)]]
  /\ UNCHANGED <<episodes, facts, preferences, patterns>>

LookForPattern_Before(c) ==    \* patterns looked up before the loop
  /\ batch[c].at = "next" /\ batch[c].todo # <<>>
  /\ batch' = [batch EXCEPT ![c].at = "missing"]
  /\ UNCHANGED <<episodes, calls, facts, preferences, patterns>>

\* The search runs in the call, its answer is looked at after the await.
LookForPattern(c) ==
  /\ batch[c].at = "next" /\ batch[c].todo # <<>>
  /\ batch' = [batch EXCEPT ![c].at =
                  IF FindProcedures(Head(batch[c].todo).life.summary) = {} THEN "missing" ELSE "known"]
  /\ UNCHANGED <<episodes, calls, facts, preferences, patterns>>

\* An episode whose pattern is known is skipped; one the database refuses to
\* record is skipped with a warning.
RecordPattern(c) ==
  /\ batch[c].at \in {"missing", "known"}
  /\ \/ batch[c].at = "missing" /\ patterns' = Recorded(Head(batch[c].todo).life.summary, "auto")
     \/ UNCHANGED patterns
  /\ batch' = [batch EXCEPT ![c].at = "next", ![c].todo = Tail(@)]
  /\ UNCHANGED <<episodes, calls, facts, preferences>>

ConsolidationDecays(c) ==
  /\ batch[c].at = "next" /\ batch[c].todo = <<>>
  /\ episodes' = Faded({batch[c].agent})
  /\ batch' = [batch EXCEPT ![c] = Idle]
  /\ UNCHANGED <<calls, facts, preferences, patterns>>

Agents == {e.agent : e \in Episodes}

CognitiveMemoryNext ==
  \/ \E e \in Episodes : RecordEpisode(e)
  \/ \E a \in Agents, g \in Goals \cup {""} : ProactiveRecall(g, a)
  \/ \E f \in Facts, n \in 1..2 : StoreFact(f, n) \/ StorePreference(f, n)
  \/ \E g \in Goals : RecordProcedure(g)
  \/ \E n \in DOMAIN patterns, success \in BOOLEAN : UpdateProcedureStats(n, success)
  \/ Decay(Agents) \/ \E a \in Agents : Decay({a})
  \/ \E c \in Consolidations :
       \/ \E a \in Agents : Consolidate(c, a)
       \/ LookForPattern(c) \/ RecordPattern(c) \/ ConsolidationDecays(c)

-----------------------------------------------------------------------------
(* Episodes are consolidated again and again, yet a goal never has more      *)
(* patterns of its own than there were consolidations to overlap: only two   *)
(* that searched before either recorded can both record.                    *)
PatternsAreFew ==
  \A g \in Goals :
    Cardinality({n \in DOMAIN patterns : patterns[n].name = "auto" /\ patterns[n].goal = g}) <= Cardinality(Consolidations)

(* Not kept: consolidations of two agents that had the same success, or of    *)
(* one agent called twice, do overlap.                                       *)
OnePatternPerGoal ==
  \A g \in Goals : Cardinality({n \in DOMAIN patterns : patterns[n].name = "auto" /\ patterns[n].goal = g}) <= 1
=============================================================================
