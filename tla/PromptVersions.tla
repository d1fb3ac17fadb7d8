--------------------------- MODULE PromptVersions ---------------------------
(***************************************************************************)
(* The prompt versions of one agent: PromptVersionManager                    *)
(* (packages/core/src/agent/prompt-versioning.ts), its experiments between     *)
(* two versions, and the diff of two contents.  Contents are sequences of      *)
(* lines; scores are in hundredths.                                         *)
(***************************************************************************)
EXTENDS Integers, Sequences

CONSTANTS
  Labels,          \* the labels of versions
  Contents,        \* the prompts
  Scores,          \* evaluation scores
  Context,         \* CONTEXT, the lines shown around a change (3 in the code)
  MaxCells,        \* the largest m * n that is compared (250000 in the code)
  MaxExperiments   \* bound on the experiments

VARIABLES
  versions,     \* the versions in the order they were registered: label, content, tags, score (-1 for none)
  experiments   \* control, treatment, status, winner

promptVars == <<versions, experiments>>

Init == versions = <<>> /\ experiments = <<>>

-----------------------------------------------------------------------------
(* computeLCS: the table of lengths, and the way back through it.            *)
Larger(x, y) == IF x >= y THEN x ELSE y

\* One row of the table, from the row above it.
NextRow(a, b, i, above) ==
  LET row[j \in 0..Len(b)] ==
        IF j = 0 THEN 0
        ELSE IF a[i] = b[j] THEN above[j - 1] + 1 ELSE Larger(above[j], row[j - 1])
  IN  row

Lengths(a, b) ==
  LET dp[i \in 0..Len(a)] ==
        IF i = 0 THEN [j \in 0..Len(b) |-> 0] ELSE NextRow(a, b, i, dp[i - 1])
  IN  dp

\* One step of the way back: from the cell s.i, s.j, with s.lcs found so far.
StepBack_Swapped(a, b, dp, s) ==
  IF s.i = 0 \/ s.j = 0 THEN s
  ELSE IF a[s.i] = b[s.j] THEN [i |-> s.i - 1, j |-> s.j - 1, lcs |-> <<a[s.i]>> \o s.lcs]
  ELSE IF dp[s.i - 1][s.j] < dp[s.i][s.j - 1] THEN [s EXCEPT !.i = @ - 1] ELSE [s EXCEPT !.j = @ - 1]

StepBack(a, b, dp, s) ==
  IF s.i = 0 \/ s.j = 0 THEN s
  ELSE IF a[s.i] = b[s.j] THEN [i |-> s.i - 1, j |-> s.j - 1, lcs |-> <<a[s.i]>> \o s.lcs]
  ELSE IF dp[s.i - 1][s.j] > dp[s.i][s.j - 1] THEN [s EXCEPT !.i = @ - 1] ELSE [s EXCEPT !.j = @ - 1]

ComputeLCS(a, b) ==
  LET dp == Lengths(a, b)
      back[n \in 0..(Len(a) + Len(b))] ==
        IF n = 0 THEN [i |-> Len(a), j |-> Len(b), lcs |-> <<>>] ELSE StepBack(a, b, dp, back[n - 1])
  IN  IF Len(a) * Len(b) > MaxCells THEN <<>> ELSE back[Len(a) + Len(b)].lcs

\* One round of the loop that compares: the next lines of the two contents and of the
\* subsequence, and the changes so far.
Compare(from, to, lcs, s) ==
  LET hasFrom == s.i <= Len(from)
      hasTo == s.j <= Len(to)
      common == hasFrom /\ hasTo /\ s.k <= Len(lcs) /\ from[s.i] = lcs[s.k] /\ to[s.j] = lcs[s.k]
      Noted(type, line) == Append(s.changes, [type |-> type, line |-> line])
  IN  IF ~hasFrom /\ ~hasTo THEN s
      ELSE IF common
        THEN [i |-> s.i + 1, j |-> s.j + 1, k |-> s.k + 1, changes |-> Noted("context", from[s.i])]
      ELSE IF hasFrom /\ (s.k > Len(lcs) \/ from[s.i] # lcs[s.k])
        THEN [i |-> s.i + 1, j |-> s.j, k |-> s.k, changes |-> Noted("del", from[s.i])]
      ELSE [i |-> s.i, j |-> s.j + 1, k |-> s.k, changes |-> Noted("add", to[s.j])]

\* The changes that lead from one content to the other: context, del and add lines.
Changes(from, to) ==
  LET lcs == ComputeLCS(from, to)
      compared[n \in 0..(Len(from) + Len(to))] ==
        IF n = 0 THEN [i |-> 1, j |-> 1, k |-> 1, changes |-> <<>>] ELSE Compare(from, to, lcs, compared[n - 1])
  IN  compared[Len(from) + Len(to)].changes

\* The hunks that are shown: the first and the last change of each.  One begins Context lines
\* before its first change and goes on Context lines after the last of its first run.
Hunks(changes) ==
  LET N == Len(changes)
      IsContext(k) == changes[k].type = "context"
      from[i \in 1..(N + 1)] ==
        IF \A k \in i..N : IsContext(k) THEN <<>>
        ELSE LET start == CHOOSE k \in i..N : ~IsContext(k) /\ \A l \in i..(k - 1) : IsContext(l)
                 runs == {k \in start..N : \A l \in start..k : ~IsContext(l)}
                 end == CHOOSE k \in runs : \A l \in runs : l <= k
                 last == IF end + Context > N THEN N ELSE end + Context
             IN  <<[first |-> Larger(1, start - Context), last |-> last]>> \o from[last + 1]
  IN  from[1]

-----------------------------------------------------------------------------
Version(label) == {k \in 1..Len(versions) : versions[k].label = label}

\* register refuses a label that is taken.
Register(label, content) ==
  /\ Version(label) = {}
  /\ versions' = Append(versions, [label |-> label, content |-> content, tags |-> {}, score |-> -1])
  /\ UNCHANGED experiments

\* tag and untag.
Tag(k, tag) ==
  /\ k \in 1..Len(versions)
  /\ \/ versions' = [versions EXCEPT ![k].tags = @ \cup {tag}]
     \/ versions' = [versions EXCEPT ![k].tags = @ \ {tag}]
  /\ UNCHANGED experiments

RecordEvalScore(k, score) ==
  /\ k \in 1..Len(versions)
  /\ versions' = [versions EXCEPT ![k].score = score]
  /\ UNCHANGED experiments

\* bestVersion: the first of those with the highest score.
BestVersion ==
  CHOOSE k \in 1..Len(versions) :
    /\ versions[k].score >= 0
    /\ \A l \in 1..Len(versions) : versions[l].score <= versions[k].score
                                   /\ (l < k => versions[l].score < versions[k].score)

CreateExperiment(control, treatment) ==
  /\ Len(experiments) < MaxExperiments
  /\ Version(control) # {} /\ Version(treatment) # {}
  /\ experiments' = Append(experiments, [control |-> control, treatment |-> treatment,
                                         status |-> "draft", winner |-> "none"])
  /\ UNCHANGED versions

StartExperiment(e) ==
  /\ e \in 1..Len(experiments) /\ experiments[e].status = "draft"
  /\ experiments' = [experiments EXCEPT ![e].status = "running"]
  /\ UNCHANGED versions

\* The variant of a routing key, by its bucket of a hundred: the treatment's share is in percent.
GetVariant(e, bucket, share) ==
  IF experiments[e].status = "running" /\ bucket < share THEN "treatment" ELSE "control"

\* More than five percent better wins; nothing is better than a control that scored nothing.
Winner(control, treatment) ==
  IF control <= 0 THEN "inconclusive"
  ELSE IF 20 * (treatment - control) > control THEN "treatment"
  ELSE IF 20 * (control - treatment) > control THEN "control" ELSE "inconclusive"

CompleteExperiment(e, control, treatment) ==
  /\ e \in 1..Len(experiments) /\ experiments[e].status = "running"
  /\ LET winner == Winner(control, treatment)
         label == IF winner = "treatment" THEN experiments[e].treatment ELSE experiments[e].control
     IN  /\ experiments' = [experiments EXCEPT ![e].status = "completed", ![e].winner = winner]
         /\ versions' = [k \in 1..Len(versions) |->
                           IF winner # "inconclusive" /\ versions[k].label = label
                           THEN [versions[k] EXCEPT !.tags = @ \cup {"experiment-winner"}] ELSE versions[k]]

PromptNext ==
  \/ \E label \in Labels, content \in Contents : Register(label, content)
  \/ \E k \in 1..Len(versions) : Tag(k, "production") \/ \E score \in Scores : RecordEvalScore(k, score)
  \/ \E control, treatment \in Labels : CreateExperiment(control, treatment)
  \/ \E e \in 1..Len(experiments) :
       StartExperiment(e) \/ \E control, treatment \in Scores : CompleteExperiment(e, control, treatment)

Spec == Init /\ [][PromptNext]_promptVars

-----------------------------------------------------------------------------
\* The lines of a sequence of changes of some types.
Lines(changes, types) ==
  LET upTo[n \in 0..Len(changes)] ==
        IF n = 0 THEN <<>>
        ELSE IF changes[n].type \in types THEN Append(upTo[n - 1], changes[n].line) ELSE upTo[n - 1]
  IN  upTo[Len(changes)]

\* The ways to take n of the numbers 1..top, in their order.
Places(n, top) == {p \in [1..n -> 1..top] : \A k, l \in 1..n : k < l => p[k] < p[l]}

(* The diff of two versions is right and minimal: without its additions it is  *)
(* the old content, without its deletions the new one, and, for contents of at *)
(* most MaxCells pairs of lines, no longer common subsequence of the two       *)
(* exists (computeUnifiedDiff over computeLCS; larger ones are cut).        *)
DiffIsMinimal ==
  \A k, l \in 1..Len(versions) :
    LET from == versions[k].content
        to == versions[l].content
        changes == Changes(from, to)
    IN  /\ Lines(changes, {"context", "del"}) = from
        /\ Lines(changes, {"context", "add"}) = to
        /\ Len(from) * Len(to) <= MaxCells =>
             \A n \in 1..Len(from) : \A p \in Places(n, Len(from)), q \in Places(n, Len(to)) :
               (\A c \in 1..n : from[p[c]] = to[q[c]]) => n <= Len(Lines(changes, {"context"}))

-----------------------------------------------------------------------------
(* Statements of the repository that the code does not keep.                *)

(* prompt-versioning.ts:49 "Line-level diff as unified diff format": each       *)
(* change is in one hunk.  A hunk's trailing context may cut a later run of    *)
(* changes, whose head the next hunk then shows again.                      *)
HunksAreDisjoint ==
  \A k, l \in 1..Len(versions) :
    LET changes == Changes(versions[k].content, versions[l].content)
        hunks == Hunks(changes)
    IN  \A g, h \in 1..Len(hunks) : g # h =>
          \A c \in (hunks[g].first..hunks[g].last) \cap (hunks[h].first..hunks[h].last) :
            changes[c].type = "context"
=============================================================================
