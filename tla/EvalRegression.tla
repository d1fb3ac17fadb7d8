---------------------------- MODULE EvalRegression ----------------------------
(***************************************************************************)
(* Did an agent get worse?  The history of evaluation runs and the verdict    *)
(* on two of them (eval/src/regression.ts, eval/src/reporter.ts).  A run is a *)
(* list of cases; an average is kept as its sum and count and compared by     *)
(* cross-multiplication, where the code divides.                             *)
(***************************************************************************)
EXTENDS Integers, Sequences, FiniteSets

CONSTANTS
  Runs,           \* lists of cases: scores (of the metrics that apply), latencyMs, tokenCount
  Labels,
  FullScore,      \* a score of 1, in the units of the scores and deltas
  PassScore,      \* the default threshold of a metric, 0.5
  WarningDelta, CriticalDelta, MaxLatencyIncrease,
  MaxRuns         \* bound: saved runs

VARIABLE history  \* the entries of one agent and suite, oldest first

-----------------------------------------------------------------------------
\* The sums of the first numbers of a list.
Sums(numbers) ==
  LET sum[n \in 0..Len(numbers)] == IF n = 0 THEN 0 ELSE sum[n - 1] + numbers[n] IN sum

Total(numbers) == Sums(numbers)[Len(numbers)]

Average(numbers, count) == [sum |-> Total(numbers), count |-> IF count = 0 THEN 1 ELSE count]

Passes(c) == \A m \in DOMAIN c.scores : c.scores[m] >= PassScore

Metrics(cases) == UNION {DOMAIN cases[i].scores : i \in DOMAIN cases}

\* A metric is averaged over the cases that have it, to which the others add nothing.
MetricAverage(cases, m) ==
  Average([i \in DOMAIN cases |-> IF m \in DOMAIN cases[i].scores THEN cases[i].scores[m] ELSE 0],
          Cardinality({i \in DOMAIN cases : m \in DOMAIN cases[i].scores}))

PassRate(cases) == Average([i \in DOMAIN cases |-> IF Passes(cases[i]) THEN FullScore ELSE 0], Len(cases))

Latency(cases) == Average([i \in DOMAIN cases |-> cases[i].latencyMs], Len(cases))

\* maxPassRateDrop is read from the options and used nowhere.
Summary(cases) ==
  [metrics |-> [m \in Metrics(cases) |-> MetricAverage(cases, m)], passRate |-> PassRate(cases),
   latency |-> Latency(cases), tokens |-> Total([i \in DOMAIN cases |-> cases[i].tokenCount])]

\* The sign of (b - c) - d for averages b and c and a number d.
Drop(b, c, d) == b.sum * c.count - c.sum * b.count - d * b.count * c.count

ScoreSeverity_Swapped(b, c) ==
  CASE Drop(c, b, CriticalDelta) >= 0 -> "critical"
    [] Drop(c, b, CriticalDelta) < 0 /\ Drop(c, b, WarningDelta) >= 0 -> "warning"
    [] Drop(c, b, 0 - WarningDelta) <= 0 -> "improvement"
    [] OTHER -> "unchanged"

ScoreSeverity(b, c) ==
  CASE Drop(b, c, CriticalDelta) >= 0 -> "critical"
    [] Drop(b, c, CriticalDelta) < 0 /\ Drop(b, c, WarningDelta) >= 0 -> "warning"
    [] Drop(b, c, 0 - WarningDelta) <= 0 -> "improvement"
    [] OTHER -> "unchanged"

\* A metric the candidate lost is skipped, a new one is an improvement.
CompareMetrics(b, c) ==
  [m \in DOMAIN c.metrics |-> IF m \in DOMAIN b.metrics THEN ScoreSeverity(b.metrics[m], c.metrics[m]) ELSE "improvement"]

\* Here more is worse.  An improvement takes half of the increase that warns.
CompareLatency(b, c) ==
  CASE Drop(c, b, 2 * MaxLatencyIncrease) > 0 -> "critical"
    [] Drop(c, b, 2 * MaxLatencyIncrease) <= 0 /\ Drop(c, b, MaxLatencyIncrease) > 0 -> "warning"
    [] 2 * Drop(c, b, 0) < 0 - MaxLatencyIncrease * b.count * c.count -> "improvement"
    [] OTHER -> "unchanged"

\* A fifth more warns, a tenth less improves; no verdict looks at it.
CompareTokens(b, c) ==
  CASE b > 0 /\ 5 * (c - b) > b     -> "warning"
    [] b > 0 /\ 10 * (c - b) < 0 - b -> "improvement"
    [] OTHER                        -> "unchanged"

\* Everything that is judged.
Judged(b, c) ==
  {CompareMetrics(b, c)[m] : m \in DOMAIN c.metrics} \cup
  {ScoreSeverity(b.passRate, c.passRate), CompareLatency(b.latency, c.latency)}

Verdict(judged) ==
  CASE judged \cap {"critical", "warning"} # {} -> "fail"
    [] judged \cap {"critical", "warning"} = {} /\ "improvement" \in judged -> "improved"
    [] OTHER -> "pass"

Compare(baseline, candidate) ==
  LET b == Summary(baseline)  c == Summary(candidate)
  IN  [tokens |-> CompareTokens(b.tokens, c.tokens), verdict |-> Verdict(Judged(b, c))]

-----------------------------------------------------------------------------
Init == history = <<>>

Save(label, results) ==
  Len(history) < MaxRuns /\ history' = Append(history, [label |-> label, results |-> results])

EvalNext == \E label \in Labels, results \in Runs : Save(label, results)

Enough == Len(history) >= 2

Latest == history[Len(history)]

CompareLatestToPrevious == Compare(history[Len(history) - 1].results, Latest.results)

\* `find': the oldest entry that has the label.
Baseline(label) ==
  history[CHOOSE i \in DOMAIN history : history[i].label = label /\ \A j \in 1..(i - 1) : history[j].label # label]

CompareToBaseline(label, candidate) == Compare(Baseline(label).results, candidate)

-----------------------------------------------------------------------------
\* The same cases, each at least as good in every metric, and as fast.
NoWorse(better, worse) ==
  /\ DOMAIN better = DOMAIN worse
  /\ \A i \in DOMAIN worse :
       /\ better[i].latencyMs <= worse[i].latencyMs /\ DOMAIN better[i].scores = DOMAIN worse[i].scores
       /\ \A m \in DOMAIN worse[i].scores : better[i].scores[m] >= worse[i].scores[m]

(* Getting better never turns a verdict into a failure: the verdict on the     *)
(* latest run fails only if a run that is no better than it, against the same  *)
(* baseline, fails too.                                                       *)
BetterNeverFails ==
  Enough =>
    \A label \in {history[i].label : i \in DOMAIN history}, i \in DOMAIN history :
      /\ NoWorse(Latest.results, history[i].results) =>
           (CompareToBaseline(label, Latest.results).verdict = "fail" =>
              CompareToBaseline(label, history[i].results).verdict = "fail")
      /\ NoWorse(Latest.results, history[Len(history) - 1].results) => CompareLatestToPrevious.verdict # "fail"

(* Not kept: a run saved again under the label of a baseline is never compared *)
(* with; the first one stays the baseline.                                    *)
BaselineIsTheLatest ==
  \A i \in DOMAIN history : (\A j \in DOMAIN history : history[j].label = history[i].label => j <= i) =>
                              Baseline(history[i].label) = history[i]

(* Not kept: runs that each lose less than the warning pass one after another,  *)
(* however much was lost since the first.                                     *)
NoSilentDrift ==
  (\A i \in 2..Len(history) : Compare(history[i - 1].results, history[i].results).verdict # "fail") /\ Enough =>
    Compare(history[1].results, Latest.results).verdict # "fail"

(* Not kept: a metric the candidate no longer has is no regression, so two      *)
(* runs with different metrics are each an improvement on the other.           *)
ImprovementIsOneWay ==
  \A i, j \in DOMAIN history :
    Compare(history[i].results, history[j].results).verdict = "improved" =>
      Compare(history[j].results, history[i].results).verdict # "improved"
=============================================================================
