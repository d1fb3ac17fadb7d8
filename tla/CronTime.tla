------------------------------ MODULE CronTime ------------------------------
(***************************************************************************)
(* When a cron job fires (scheduler/src/cron.ts): the parsed expression, the *)
(* scan for the next minute that matches it, and the timer set for it.      *)
(* Scheduler.tla models which jobs have timers; this module is one job's     *)
(* clock, in a calendar as small as the constants say.  A minute has         *)
(* MinuteTicks ticks; time zones only move the calendar and are left out.    *)
(***************************************************************************)
EXTENDS Integers, Sequences, Functions, FiniteSetsExt

CONSTANTS
  Expressions,    \* cron expressions: a list of parts for each of the five fields
  Minutes, Hours, WeekDays,
  Days,           \* the month and day of every day from the epoch on
  LongestMonth, MonthsPerYear,
  MinuteTicks,
  Horizon,        \* minutes scanned: 366 * 24 * 60 in the code
  MaxDelay,       \* the longest delay setTimeout can keep: 2^31 - 1 ms
  MaxLate,        \* bound: ticks the event loop may be behind a timer
  MaxTime         \* bound: the clock, in ticks

VARIABLES
  cron,           \* the expression of the job
  now, running,
  timer,          \* the tick the job's timer is due at, or None
  since,          \* the minute start was called in
  fired,          \* the minutes the job fired in since then
  overflowed      \* a delay was too long for setTimeout

cronVars == <<cron, now, running, timer, since, fired, overflowed>>

None == -1

-----------------------------------------------------------------------------
(* A field is a list of parts: "*", a value, a range or steps.  A part that   *)
(* is no such thing, or out of range, makes parseField throw.               *)
PartRange(part, min, max) ==
  CASE part.kind = "*"                         -> <<min, max, 1>>
    [] part.kind = "value"                     -> <<part.from, part.from, 1>>
    [] part.kind = "range"                     -> <<part.from, part.to, 1>>
    [] part.kind = "step" /\ "to" \in DOMAIN part   -> <<part.from, part.to, part.step>>
    [] part.kind = "step" /\ "from" \in DOMAIN part -> <<part.from, max, part.step>>
    [] part.kind = "step"                      -> <<min, max, part.step>>

ValidField(parts, min, max) ==
  \A part \in Range(parts) :
    LET r == PartRange(part, min, max) IN r[3] > 0 /\ min <= r[1] /\ r[1] <= r[2] /\ r[2] <= max

ParseField(parts, min, max) ==
  UNION {LET r == PartRange(part, min, max) IN {v \in r[1]..r[2] : (v - r[1]) % r[3] = 0} : part \in Range(parts)}

FieldRange ==
  [minute |-> <<0, Minutes - 1>>, hour |-> <<0, Hours - 1>>, dayOfMonth |-> <<1, LongestMonth>>,
   month |-> <<1, MonthsPerYear>>, dayOfWeek |-> <<0, WeekDays - 1>>]

ValidCron(expression) ==
  \A f \in DOMAIN FieldRange : ValidField(expression[f], FieldRange[f][1], FieldRange[f][2])

ParseCron(expression) ==
  [f \in DOMAIN FieldRange |-> ParseField(expression[f], FieldRange[f][1], FieldRange[f][2])]

-----------------------------------------------------------------------------
(* What Date says of a minute since the epoch, which is a weekday 0.         *)
Date(m) ==
  LET d == m \div (Minutes * Hours) IN
  [minute |-> m % Minutes, hour |-> (m \div Minutes) % Hours, dayOfMonth |-> Days[d + 1].day,
   month |-> Days[d + 1].month, dayOfWeek |-> d % WeekDays]

\* Both day fields given: either may match.  A field with every value is "*".
DayMatch(parsed, date) ==
  LET monthWild == Cardinality(parsed.dayOfMonth) = LongestMonth
      weekWild  == Cardinality(parsed.dayOfWeek) = WeekDays
  IN  \/ monthWild /\ weekWild
      \/ ~monthWild /\ date.dayOfMonth \in parsed.dayOfMonth
      \/ ~weekWild /\ date.dayOfWeek \in parsed.dayOfWeek

Matches(expression, m) ==
  LET parsed == ParseCron(expression)  date == Date(m) IN
  /\ date.month \in parsed.month /\ DayMatch(parsed, date)
  /\ date.hour \in parsed.hour /\ date.minute \in parsed.minute

MinuteOf(t) == t \div MinuteTicks

FirstCandidate_Now(t) == MinuteOf(t)

FirstCandidate(t) == MinuteOf(t) + 1     \* seconds dropped, one minute on

RunTimes(expression, t) ==
  {m \in FirstCandidate(t)..(FirstCandidate(t) + Horizon - 1) : Matches(expression, m)}

-----------------------------------------------------------------------------
Init ==
  /\ cron \in Expressions /\ now = 0 /\ running = FALSE
  /\ timer = None /\ since = 0 /\ fired = <<>> /\ overflowed = FALSE

\* getNextRunTime throws when the scan finds nothing: no timer is set.  A
\* delay that does not fit into 31 bits makes setTimeout fire at once.
ScheduleNext ==
  LET found == RunTimes(cron, now)
      delay == Min(found) * MinuteTicks - now
  IN  IF found = {} THEN timer' = None /\ UNCHANGED overflowed
      ELSE /\ timer' = now + (IF delay > MaxDelay THEN 1 ELSE delay)
           /\ overflowed' = (overflowed \/ delay > MaxDelay)

\* A job whose expression does not parse was refused by addJob.  Starting a
\* running scheduler again is Scheduler.tla's.
Start ==
  /\ ~running /\ ValidCron(cron)
  /\ running' = TRUE /\ since' = MinuteOf(now) /\ fired' = <<>>
  /\ ScheduleNext
  /\ UNCHANGED <<cron, now>>

Stop ==
  /\ running /\ running' = FALSE /\ timer' = None
  /\ UNCHANGED <<cron, now, since, fired, overflowed>>

Fire ==
  /\ timer # None /\ now >= timer
  /\ fired' = Append(fired, MinuteOf(now))
  /\ ScheduleNext
  /\ UNCHANGED <<cron, now, running, since>>

Tick ==
  /\ now < MaxTime /\ (timer # None => now < timer + MaxLate)
  /\ now' = now + 1
  /\ UNCHANGED <<cron, running, timer, since, fired, overflowed>>

CronTimeNext == Start \/ Stop \/ Fire \/ Tick

-----------------------------------------------------------------------------
(* With timers less than a minute late and no delay over the limit, the job   *)
(* fires once in every minute its expression names since the scheduler was   *)
(* started, and in no other.                                                 *)
DueMinutesFireOnce ==
  (timer # None /\ ~overflowed) =>
    /\ \A i \in DOMAIN fired : Matches(cron, fired[i]) /\ (i > 1 => fired[i - 1] < fired[i])
    /\ \A m \in (since + 1)..MinuteOf(now) :
         Matches(cron, m) => m \in Range(fired) \/ timer = m * MinuteTicks

(* Not kept: a job whose next run is more than 2^31 ms away fires at once,     *)
(* and again each time its timer is set.                                     *)
FiresOnlyWhenDue == \A m \in Range(fired) : Matches(cron, m)

(* Not kept: the comment says the scan covers about two years, the loop ends  *)
(* after one; 29 February is not found in most.                              *)
NextRunIsFound ==
  (running /\ timer = None) => ~\E m \in FirstCandidate(now)..(FirstCandidate(now) + 2 * Horizon - 1) : Matches(cron, m)
=============================================================================
