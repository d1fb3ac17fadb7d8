----------------------------- MODULE Scheduler -----------------------------
(***************************************************************************)
(* The scheduler (packages/scheduler/src): cron jobs with their timers      *)
(* (cron.ts), trigger rules with their cooldowns (trigger.ts, manager.ts)   *)
(* and the bounded history of executions (store.ts), which the concurrency  *)
(* limits are computed from.                                                *)
(*                                                                         *)
(* addJob makes a new job object, and a timer belongs to the object that     *)
(* armed it; start may be called again.  When a timer fires is not           *)
(* modelled: it may at any moment.  A definition Def_Bug is a variant of Def *)
(* with a plausible fault; it is not part of the specification.             *)
(***************************************************************************)
EXTENDS Naturals, Sequences, FiniteSets, SequencesExt

CONSTANTS
  Jobs, Rules,    \* the ids of cron schedules and of trigger rules
  Limited,        \* the sources with a maxConcurrent
  MaxConcurrent,  \* that limit
  Cooled,         \* the rules with a cooldownMs
  MaxHistory,     \* maxHistorySize
  Executions,     \* bound on the executions in the history or in flight
  MaxAdds,        \* bound on addJob, per id
  MaxStarts,      \* bound on start
  none

Sources == Jobs \cup Rules

ASSUME SchedulerAssumption ==
  /\ Jobs \cap Rules = {} /\ Limited \subseteq Sources /\ Cooled \subseteq Rules
  /\ {MaxConcurrent, MaxHistory, MaxAdds, MaxStarts} \subseteq Nat \ {0}
  /\ IsFiniteSet(Executions) /\ none \notin Sources

VARIABLES
  running,   \* CronScheduler.running
  starts,    \* the calls of start
  doubled,   \* was start called while running?
  added,     \* the job objects made so far, per id
  job,       \* jobs: the current object of each id, 0 for none
  enabled,   \* the objects that are enabled
  timers,    \* the live timers of each object
  handle,    \* does the object's timer field hold a live one of them?
  missed,    \* for the properties only: the current objects whose last scan for a next run threw
  rules,     \* the enabled trigger rules
  cooling,   \* the rules whose lastTriggerTimes is within their cooldown
  history,   \* ScheduleStore.executions: id and source while "triggered", none
             \* once "completed" or "failed" (nothing asks which)
  callback   \* each execution's onWorkflowTrigger: its source while in flight

cron  == <<running, starts, doubled, added, job, enabled, timers, handle, missed>>
store == <<cooling, history, callback>>
vars  == <<cron, rules, store>>

Objects == Jobs \X (1..MaxAdds)

Init ==
  /\ running = FALSE /\ starts = 0 /\ doubled = FALSE
  /\ added = [j \in Jobs |-> 0] /\ job = [j \in Jobs |-> 0] /\ enabled = {}
  /\ timers = [o \in Objects |-> 0] /\ handle = [o \in Objects |-> FALSE]
  /\ missed = {} /\ rules = {} /\ cooling = {} /\ history = <<>>
  /\ callback = [e \in Executions |-> none]

Current == {<<j, job[j]>> : j \in {i \in Jobs : job[i] # 0}}

-----------------------------------------------------------------------------
(* The timers.                                                             *)

\* clearTimeout of the timers that the objects os hold.
Clear(os) ==
  /\ timers' = [o \in Objects |-> IF o \in os /\ handle[o] THEN timers[o] - 1 ELSE timers[o]]
  /\ handle' = [o \in Objects |-> handle[o] /\ o \notin os]

\* scheduleNext, which forgets the timer that the object held.
Arm(os) ==
  /\ timers' = [o \in Objects |-> IF o \in os THEN timers[o] + 1 ELSE timers[o]]
  /\ handle' = [o \in Objects |-> handle[o] \/ o \in os]

(* start: arms the enabled jobs one after another, whether they are armed     *)
(* already or not.  getNextRunTime throws when it finds no next run, which     *)
(* depends on the date; start throws then, and the jobs that follow it in the   *)
(* map, whose order is left open, are not armed, while the scheduler counts    *)
(* as running.                                                              *)
Start ==
  /\ starts < MaxStarts /\ starts' = starts + 1
  /\ running' = TRUE /\ doubled' = (doubled \/ running)
  /\ \E armed \in SUBSET (Current \cap enabled) :
       Arm(armed) /\ missed' = (Current \cap enabled) \ armed
  /\ UNCHANGED <<added, job, enabled, rules, store>>

Stop_KeepsTimers ==
  /\ running /\ running' = FALSE
  /\ UNCHANGED <<starts, doubled, added, job, enabled, timers, handle, missed, rules, store>>

Stop ==
  /\ running /\ running' = FALSE
  /\ Clear(Current) /\ missed' = {}
  /\ UNCHANGED <<starts, doubled, added, job, enabled, rules, store>>

\* Also what addJob does, before it throws, with a schedule that is not valid.
RemoveJob(j) ==
  /\ job[j] # 0 /\ job' = [job EXCEPT ![j] = 0]
  /\ Clear({<<j, job[j]>>}) /\ missed' = missed \ {<<j, job[j]>>}
  /\ UNCHANGED <<running, starts, doubled, added, enabled, rules, store>>

(* addJob: removes the job of this id, adds the new one and arms it; when the *)
(* scan for its next run throws, it has been added all the same.             *)
AddJob(j) ==
  LET old == <<j, job[j]>>
      new == <<j, added[j] + 1>>
  IN  /\ added[j] < MaxAdds
      /\ added' = [added EXCEPT ![j] = @ + 1]
      /\ job' = [job EXCEPT ![j] = added[j] + 1]
      /\ enabled' \in {enabled, enabled \cup {new}}
      /\ \E armed \in SUBSET (enabled' \cap {new}) :
           /\ armed # {} => running
           /\ timers' = [o \in Objects |->
                CASE o = old /\ handle[o] -> timers[o] - 1
                  [] o = new -> IF new \in armed THEN 1 ELSE 0
                  [] OTHER -> timers[o]]
           /\ handle' = [o \in Objects |->
                CASE o = old -> FALSE
                  [] o = new -> new \in armed
                  [] OTHER -> handle[o]]
           /\ missed' = (missed \ {old}) \cup ((enabled' \cap {new}) \ armed)
      /\ UNCHANGED <<running, starts, doubled, rules, store>>

-----------------------------------------------------------------------------
(* The history.  s is a triple of its state: history, callback, cooling.    *)

Fresh(s) == {e \in Executions : s.callback[e] = none}

IsOf(e, entry) == entry # none /\ entry.id = e

\* getRunningCount, of what the history still holds.
RunningCount(s, source) ==
  Cardinality({i \in DOMAIN s.history : s.history[i] # none /\ s.history[i].source = source})

Busy_OffByOne(s, source) == source \in Limited /\ RunningCount(s, source) > MaxConcurrent

Busy(s, source) == source \in Limited /\ RunningCount(s, source) >= MaxConcurrent

\* addExecution: the oldest is forgotten, running or not.
AddExecution_OffByOne(h, e, source) ==
  LET all == Append(h, [id |-> e, source |-> source])
  IN  IF Len(h) > MaxHistory THEN Tail(all) ELSE all

AddExecution(h, e, source) ==
  LET all == Append(h, [id |-> e, source |-> source])
  IN  IF Len(all) > MaxHistory THEN Tail(all) ELSE all

\* One rule or job: skipped, or recorded and its callback queued.
Trigger(s, source) ==
  IF source \in s.cooling \/ Busy(s, source) \/ Fresh(s) = {} THEN s ELSE
  LET e == CHOOSE x \in Fresh(s) : TRUE
  IN  [history  |-> AddExecution(s.history, e, source),
       callback |-> [s.callback EXCEPT ![e] = source],
       cooling  |-> s.cooling \cup ({source} \cap Cooled)]

Store == [history |-> history, callback |-> callback, cooling |-> cooling]
Become(s) == history' = s.history /\ callback' = s.callback /\ cooling' = s.cooling

(* handleEvent: every rule that matches, in the order of the rules.         *)
HandleEvent ==
  /\ \E matched \in SUBSET rules : \E order \in SetToSeqs(matched) :
       Become(FoldLeft(Trigger, Store, order))
  /\ UNCHANGED <<cron, rules>>

(* A timer fires: nothing when stopped; otherwise handleCronFire, whether   *)
(* the job is still in the map or not, and the next timer.                  *)
Fire_Unchecked(o) ==
  /\ timers[o] > 0 /\ o \in enabled
  /\ handle' = [handle EXCEPT ![o] = TRUE]
  /\ Become(Trigger(Store, o[1]))
  /\ UNCHANGED <<timers, running, starts, doubled, added, job, enabled, missed, rules>>

Fire_NoRearmWhenBusy(o) ==
  /\ timers[o] > 0 /\ running /\ o \in enabled
  /\ IF Busy(Store, o[1])
     THEN handle' = [handle EXCEPT ![o] = FALSE] /\ timers' = [timers EXCEPT ![o] = @ - 1]
     ELSE handle' = [handle EXCEPT ![o] = TRUE] /\ UNCHANGED timers
  /\ Become(Trigger(Store, o[1]))
  /\ UNCHANGED <<running, starts, doubled, added, job, enabled, missed, rules>>

Fire(o) ==
  /\ timers[o] > 0 /\ running /\ o \in enabled
  /\ \/ handle' = [handle EXCEPT ![o] = TRUE] /\ missed' = missed \ {o} /\ UNCHANGED timers
     \/ /\ handle' = [handle EXCEPT ![o] = FALSE] /\ missed' = missed \cup ({o} \cap Current)
        /\ timers' = [timers EXCEPT ![o] = @ - 1]
  /\ Become(Trigger(Store, o[1]))
  /\ UNCHANGED <<running, starts, doubled, added, job, enabled, rules>>

FireStopped(o) ==
  /\ timers[o] > 0 /\ ~running
  /\ timers' = [timers EXCEPT ![o] = @ - 1]
  /\ handle' = [handle EXCEPT ![o] = FALSE]
  /\ UNCHANGED <<running, starts, doubled, added, job, enabled, missed, rules, store>>

(* onWorkflowTrigger returned or threw: updateExecution, if the history still has it. *)
Settled_OnlyCompleted(e) ==
  /\ callback[e] # none
  /\ callback' = [callback EXCEPT ![e] = none]
  /\ \/ UNCHANGED history
     \/ history' = [i \in DOMAIN history |-> IF IsOf(e, history[i]) THEN none ELSE history[i]]
  /\ UNCHANGED <<cron, rules, cooling>>

Settled(e) ==
  /\ callback[e] # none
  /\ callback' = [callback EXCEPT ![e] = none]
  /\ history' = [i \in DOMAIN history |-> IF IsOf(e, history[i]) THEN none ELSE history[i]]
  /\ UNCHANGED <<cron, rules, cooling>>

-----------------------------------------------------------------------------
AddTriggerRule(r) ==
  /\ r \notin rules /\ rules' = rules \cup {r}
  /\ UNCHANGED <<cron, store>>

\* Removing a rule forgets its cooldown.
RemoveTriggerRule(r) ==
  /\ r \in rules /\ rules' = rules \ {r}
  /\ cooling' = cooling \ {r}
  /\ UNCHANGED <<cron, history, callback>>

CooldownOver(r) ==
  /\ r \in cooling /\ cooling' = cooling \ {r}
  /\ UNCHANGED <<cron, rules, history, callback>>

Next ==
  \/ Start \/ Stop \/ HandleEvent
  \/ \E j \in Jobs : AddJob(j) \/ RemoveJob(j)
  \/ \E o \in Objects : Fire(o) \/ FireStopped(o)
  \/ \E e \in Executions : Settled(e)
  \/ \E r \in Rules : AddTriggerRule(r) \/ RemoveTriggerRule(r) \/ CooldownOver(r)

Spec == Init /\ [][Next]_vars

\* The promise of onWorkflowTrigger settles.
FairSpec == Spec /\ \A e \in Executions : WF_vars(Settled(e))

-----------------------------------------------------------------------------
TypeOK ==
  /\ running \in BOOLEAN /\ starts \in 0..MaxStarts /\ doubled \in BOOLEAN
  /\ added \in [Jobs -> 0..MaxAdds] /\ job \in [Jobs -> 0..MaxAdds]
  /\ enabled \subseteq Objects
  /\ timers \in [Objects -> Nat] /\ handle \in [Objects -> BOOLEAN] /\ missed \subseteq Objects
  /\ rules \subseteq Rules /\ cooling \subseteq Cooled
  /\ history \in Seq([id : Executions, source : Sources] \cup {none})
  /\ Len(history) <= MaxHistory
  /\ callback \in [Executions -> Sources \cup {none}]

(* Executions of a limited source that the history knows never overlap      *)
(* beyond the limit, whichever of cron, events and late answers come first. *)
LimitHolds == \A s \in Limited : RunningCount(Store, s) <= MaxConcurrent

(* Nothing blocks a source for ever: an execution that the limits count is  *)
(* really in flight, failed and evicted executions included.                *)
CountedIsInFlight ==
  \A i \in DOMAIN history : history[i] # none => callback[history[i].id] = history[i].source

(* A job that is enabled in a running scheduler is armed, unless the scan for  *)
(* a next run threw when it was last to be armed: skipping, replacing,         *)
(* stopping and starting alone never drop it from the schedule.              *)
EnabledIsArmed == running => \A o \in (Current \cap enabled) \ missed : timers[o] > 0 /\ handle[o]

(* A timer is held by a current job of a running scheduler, so that remove  *)
(* and stop reach it; only a second start makes timers nobody holds.        *)
TimersAreHeld ==
  ~doubled => \A o \in Objects : timers[o] > 0 => timers[o] = 1 /\ handle[o] /\ running /\ o \in Current

(* After stop no cron job triggers, not even one whose timer nobody could   *)
(* clear.                                                                   *)
StoppedIsSilent ==
  [][~running => \A j \in Jobs : RunningCount(Store, j)' <= RunningCount(Store, j)]_vars

(* An execution is not counted for ever: its source is served again.        *)
Counted(e) == \E i \in DOMAIN history : IsOf(e, history[i])
CountIsTemporary == \A e \in Executions : Counted(e) ~> ~Counted(e)

-----------------------------------------------------------------------------
(* What the code does not keep: statements of the repository, where cited.   *)

(* A job whose next run is not found is not given up for ever: a scan that     *)
(* throws, out of start, addJob or a timer, is made again.                   *)
MissedIsRetried == running => Current \cap enabled \cap missed = {}

(* docs/architecture.md:584, "maxConcurrent enforcement per trigger": the   *)
(* workflows of a source in flight never exceed its limit.  The history     *)
(* forgets executions that are in flight.                                   *)
LimitIsEnforced ==
  \A s \in Limited : Cardinality({e \in Executions : callback[e] = s}) <= MaxConcurrent

(* A removed job does not trigger any more.  A second start leaves a timer  *)
(* that nobody can clear.                                                   *)
RemovedIsSilent ==
  [][\A j \in Jobs : job[j] = 0 => RunningCount(Store, j)' <= RunningCount(Store, j)]_vars
=============================================================================
