-------------------------- MODULE SchedulerProofs --------------------------
(***************************************************************************)
(* Theorems about the timers of the Scheduler, for any jobs, rules and      *)
(* bounds.  The history is left to the runs: what an event does to it is a  *)
(* fold over the rules, and needs induction.                               *)
(*                                                                         *)
(* Both theorems need that an object's field never holds a timer that has   *)
(* gone (HeldIsLive): removing a job relies on it.                         *)
(***************************************************************************)
EXTENDS Scheduler, TLAPS

CronOK ==
  /\ running \in BOOLEAN /\ doubled \in BOOLEAN
  /\ added \in [Jobs -> 0..MaxAdds] /\ job \in [Jobs -> 0..MaxAdds]
  /\ \A j \in Jobs : job[j] <= added[j]
  /\ timers \in [Objects -> Nat] /\ handle \in [Objects -> BOOLEAN]

HeldIsLive == \A o \in Objects : handle[o] => timers[o] > 0

CronInv == CronOK /\ HeldIsLive /\ EnabledIsArmed /\ TimersAreHeld

LEMMA Numbers == MaxAdds \in Nat \ {0}
BY SchedulerAssumption

LEMMA CurrentIsObject ==
  ASSUME CronOK
  PROVE  Current \subseteq Objects
BY Numbers DEF CronOK, Current, Objects

LEMMA InitInv == Init => CronInv
<1> SUFFICES ASSUME Init PROVE CronInv
  OBVIOUS
<1> USE Numbers
<1>0. \A j \in Jobs : job[j] <= added[j]
  BY DEF Init
<1>1. added \in [Jobs -> 0..MaxAdds] /\ job \in [Jobs -> 0..MaxAdds] /\ timers \in [Objects -> Nat]
  BY DEF Init
<1>2. running \in BOOLEAN /\ doubled \in BOOLEAN /\ handle \in [Objects -> BOOLEAN]
  BY Zenon DEF Init
<1>3. HeldIsLive /\ EnabledIsArmed /\ TimersAreHeld
  BY DEF Init, HeldIsLive, EnabledIsArmed, TimersAreHeld
<1> QED BY <1>0, <1>1, <1>2, <1>3 DEF CronInv, CronOK

-----------------------------------------------------------------------------
LEMMA Armed ==
  ASSUME CronOK, HeldIsLive, NEW os \in SUBSET Objects, Arm(os)
  PROVE  /\ timers' \in [Objects -> Nat] /\ handle' \in [Objects -> BOOLEAN] /\ HeldIsLive'
         /\ \A o \in os : handle'[o]
<1>1. timers' \in [Objects -> Nat]
  BY DEF CronOK, Arm
<1>2. handle' \in [Objects -> BOOLEAN]
  BY Zenon DEF Arm
<1>3. \A o \in Objects : handle'[o] <=> (handle[o] \/ o \in os)
  BY Zenon DEF Arm
<1>4. \A o \in Objects : timers'[o] = IF o \in os THEN timers[o] + 1 ELSE timers[o]
  BY DEF Arm
<1>5. HeldIsLive'
  BY <1>3, <1>4 DEF CronOK, HeldIsLive
<1> QED BY <1>1, <1>2, <1>3, <1>5

LEMMA Cleared ==
  ASSUME CronOK, HeldIsLive, NEW os \in SUBSET Objects, Clear(os)
  PROVE  timers' \in [Objects -> Nat] /\ handle' \in [Objects -> BOOLEAN] /\ HeldIsLive'
<1>1. timers' \in [Objects -> Nat]
  BY DEF CronOK, HeldIsLive, Clear
<1>2. handle' \in [Objects -> BOOLEAN]
  BY Zenon DEF Clear
<1>3. HeldIsLive'
  BY DEF CronOK, HeldIsLive, Clear
<1> QED BY <1>1, <1>2, <1>3

LEMMA StartStep == CronInv /\ Start => CronInv'
<1> SUFFICES ASSUME CronInv, Start PROVE CronInv'
  OBVIOUS
<1> USE DEF CronInv
<1>1. Current \subseteq Objects
  BY CurrentIsObject
<1>a. PICK armed \in SUBSET (Current \cap enabled) :
        Arm(armed) /\ missed' = (Current \cap enabled) \ armed
  BY DEF Start
<1>2. /\ timers' \in [Objects -> Nat] /\ handle' \in [Objects -> BOOLEAN] /\ HeldIsLive'
      /\ \A o \in armed : handle'[o]
  <2>1. armed \in SUBSET Objects
    BY <1>1
  <2> QED BY <2>1, <1>a, Armed
<1>3. CronOK'
  BY <1>2 DEF Start, CronOK
<1>4. EnabledIsArmed'
  <2>1. Current' = Current /\ enabled' = enabled
    BY DEF Start, Current
  <2> QED BY <1>1, <1>a, <1>2, <2>1 DEF EnabledIsArmed, HeldIsLive
<1>5. TimersAreHeld'
  <2>1. SUFFICES ASSUME ~doubled', NEW o \in Objects, timers'[o] > 0
                 PROVE  timers'[o] = 1 /\ handle'[o] /\ running' /\ o \in Current'
    BY DEF TimersAreHeld
  <2>2. ~doubled /\ ~running
    BY <2>1 DEF Start
  <2>3. timers[o] = 0
    BY <2>2 DEF TimersAreHeld, CronOK
  <2>4. o \in armed /\ timers'[o] = 1
    BY <1>a, <2>1, <2>3 DEF Arm
  <2> QED BY <1>2, <1>a, <2>4 DEF Start, Current
<1> QED BY <1>2, <1>3, <1>4, <1>5

LEMMA StopStep == CronInv /\ Stop => CronInv'
<1> SUFFICES ASSUME CronInv, Stop PROVE CronInv'
  OBVIOUS
<1> USE DEF CronInv
<1>1. timers' \in [Objects -> Nat] /\ handle' \in [Objects -> BOOLEAN] /\ HeldIsLive'
  BY CurrentIsObject, Cleared DEF Stop
<1>2. CronOK' /\ EnabledIsArmed'
  BY <1>1 DEF Stop, CronOK, EnabledIsArmed
<1>3. TimersAreHeld'
  <2>1. SUFFICES ASSUME ~doubled, NEW o \in Objects PROVE ~ (timers'[o] > 0)
    BY DEF Stop, TimersAreHeld
  <2> QED BY <2>1 DEF Stop, Clear, TimersAreHeld, CronOK
<1> QED BY <1>1, <1>2, <1>3

LEMMA RemoveJobStep ==
  ASSUME CronInv, NEW j \in Jobs, RemoveJob(j)
  PROVE  CronInv'
<1> USE DEF CronInv
<1> DEFINE old == <<j, job[j]>>
<1>1. old \in Current /\ old \in Objects
  <2>1. old \in Current
    BY DEF RemoveJob, Current
  <2> QED BY <2>1, CurrentIsObject
<1>2. timers' \in [Objects -> Nat] /\ handle' \in [Objects -> BOOLEAN] /\ HeldIsLive'
  BY <1>1, Cleared DEF RemoveJob
<1>3. CronOK'
  <2>1. job' = [job EXCEPT ![j] = 0] /\ UNCHANGED <<running, doubled, added>>
    BY DEF RemoveJob
  <2>2. job' \in [Jobs -> 0..MaxAdds] /\ \A i \in Jobs : job'[i] <= added'[i]
    BY <2>1, Numbers DEF CronOK
  <2> QED BY <1>2, <2>1, <2>2 DEF CronOK
<1>4. Current' = Current \ {old}
  <2>1. job' = [job EXCEPT ![j] = 0] /\ job[j] # 0
    BY DEF RemoveJob
  <2> QED BY <2>1 DEF Current, CronOK
<1>5. EnabledIsArmed'
  BY <1>4, CurrentIsObject DEF RemoveJob, Clear, EnabledIsArmed
<1>6. TimersAreHeld'
  <2>1. SUFFICES ASSUME ~doubled, NEW o \in Objects, timers'[o] > 0
                 PROVE  timers'[o] = 1 /\ handle'[o] /\ running /\ o \in Current'
    BY DEF RemoveJob, TimersAreHeld
  <2>2. timers[o] = 1 /\ handle[o] /\ running /\ o \in Current
    BY <2>1 DEF RemoveJob, Clear, TimersAreHeld, CronOK
  <2>3. o # old
    BY <2>1, <2>2 DEF RemoveJob, Clear
  <2> QED BY <1>4, <2>2, <2>3 DEF RemoveJob, Clear
<1> QED BY <1>2, <1>3, <1>5, <1>6

LEMMA AddJobStep ==
  ASSUME CronInv, NEW j \in Jobs, AddJob(j)
  PROVE  CronInv'
<1> USE DEF CronInv
<1> DEFINE old == <<j, job[j]>>
           new == <<j, added[j] + 1>>
<1>1. new \in Objects /\ added[j] + 1 \in 1..MaxAdds
  BY Numbers DEF AddJob, Objects, CronOK
<1>2. old # new
  BY DEF CronOK
<1>a. PICK armed \in SUBSET (enabled' \cap {new}) :
        /\ armed # {} => running
        /\ timers' = [o \in Objects |->
             CASE o = old /\ handle[o] -> timers[o] - 1
               [] o = new -> IF new \in armed THEN 1 ELSE 0
               [] OTHER -> timers[o]]
        /\ handle' = [o \in Objects |->
             CASE o = old -> FALSE
               [] o = new -> new \in armed
               [] OTHER -> handle[o]]
        /\ missed' = (missed \ {old}) \cup ((enabled' \cap {new}) \ armed)
  BY DEF AddJob
<1>3. \A o \in Objects : timers'[o] = IF o = old /\ handle[o] THEN timers[o] - 1
                                      ELSE IF o # new THEN timers[o]
                                      ELSE IF new \in armed THEN 1 ELSE 0
  BY <1>2, <1>a
<1>4. \A o \in Objects : handle'[o] <=> IF o = old THEN FALSE
                                        ELSE IF o = new THEN new \in armed
                                        ELSE handle[o]
  <2>1. ASSUME NEW o \in Objects PROVE handle'[o] = CASE o = old -> FALSE
                                                    [] o = new -> new \in armed
                                                    [] OTHER -> handle[o]
    BY <1>a
  <2>2. ASSUME NEW o \in Objects
        PROVE  handle'[o] <=> IF o = old THEN FALSE ELSE IF o = new THEN new \in armed
                                                      ELSE handle[o]
    <3>1. CASE o = old
      BY <1>2, <2>1, <3>1
    <3>2. CASE o = new
      BY <1>2, <2>1, <3>2
    <3>3. CASE o # old /\ o # new
      BY <2>1, <3>3
    <3> QED BY <3>1, <3>2, <3>3
  <2> QED BY <2>2
<1>5. timers' \in [Objects -> Nat]
  <2>1. timers' = [o \in Objects |-> timers'[o]]
    BY <1>a
  <2>2. \A o \in Objects : timers'[o] \in Nat
    BY <1>3 DEF CronOK, HeldIsLive
  <2> QED BY <2>1, <2>2
<1>6. handle' \in [Objects -> BOOLEAN]
  <2>1. handle' = [o \in Objects |-> handle'[o]]
    BY <1>a
  <2>2. ASSUME NEW o \in Objects PROVE handle'[o] \in BOOLEAN
    <3>1. handle'[o] = CASE o = old -> FALSE [] o = new -> new \in armed [] OTHER -> handle[o]
      BY <1>a
    <3>2. handle[o] \in BOOLEAN
      BY Zenon DEF CronOK
    <3>3. CASE o = old
      BY <1>2, <3>1, <3>3, Zenon
    <3>4. CASE o = new
      <4>1. handle'[o] = (new \in armed)
        BY <1>2, <3>1, <3>4
      <4>2. (new \in armed) \in BOOLEAN
        OBVIOUS
      <4> QED BY <4>1, <4>2, Zenon
    <3>5. CASE o # old /\ o # new
      BY <3>1, <3>2, <3>5, Zenon
    <3> QED BY <3>3, <3>4, <3>5
  <2> QED BY <2>1, <2>2, Zenon
<1>7. /\ job' = [job EXCEPT ![j] = added[j] + 1] /\ added' = [added EXCEPT ![j] = @ + 1]
      /\ UNCHANGED <<running, doubled>> /\ enabled' \in {enabled, enabled \cup {new}}
  BY DEF AddJob
<1>8. CronOK'
  BY <1>1, <1>5, <1>6, <1>7 DEF CronOK
<1>9. Current' = (Current \ {old}) \cup {new}
  BY <1>1, <1>7 DEF Current, CronOK
<1>10. HeldIsLive'
  BY <1>3, <1>4 DEF HeldIsLive, CronOK
<1>11. EnabledIsArmed'
  BY <1>1, <1>2, <1>a, <1>3, <1>4, <1>7, <1>9, CurrentIsObject DEF EnabledIsArmed
<1>12. TimersAreHeld'
  BY <1>1, <1>2, <1>a, <1>3, <1>4, <1>7, <1>9 DEF TimersAreHeld, CronOK
<1> QED BY <1>8, <1>10, <1>11, <1>12

-----------------------------------------------------------------------------
LEMMA FireStep ==
  ASSUME CronInv, NEW o \in Objects, Fire(o)
  PROVE  CronInv'
<1> USE DEF CronInv
<1>1. timers[o] > 0 /\ running /\ UNCHANGED <<running, doubled, added, job, enabled>>
  BY DEF Fire
<1>2. Current' = Current
  BY <1>1 DEF Current
<1>3. CASE /\ handle' = [handle EXCEPT ![o] = TRUE] /\ missed' = missed \ {o} /\ UNCHANGED timers
  <2>1. handle' \in [Objects -> BOOLEAN]
    BY <1>3, Zenon DEF CronOK
  <2>2. \A q \in Objects : handle'[q] <=> (handle[q] \/ q = o)
    BY <1>3 DEF CronOK
  <2>3. CronOK'
    BY <1>1, <1>3, <2>1 DEF CronOK
  <2>4. HeldIsLive' /\ EnabledIsArmed' /\ TimersAreHeld'
    BY <1>1, <1>2, <1>3, <2>2, CurrentIsObject DEF HeldIsLive, EnabledIsArmed, TimersAreHeld
  <2> QED BY <2>3, <2>4
<1>4. CASE /\ handle' = [handle EXCEPT ![o] = FALSE] /\ missed' = missed \cup ({o} \cap Current)
           /\ timers' = [timers EXCEPT ![o] = @ - 1]
  <2>1. handle' \in [Objects -> BOOLEAN]
    BY <1>4, Zenon DEF CronOK
  <2>2. \A q \in Objects : handle'[q] <=> (handle[q] /\ q # o)
    BY <1>4 DEF CronOK
  <2>3. timers' \in [Objects -> Nat]
    BY <1>1, <1>4 DEF CronOK
  <2>4. CronOK'
    BY <1>1, <2>1, <2>3 DEF CronOK
  <2>5. HeldIsLive' /\ EnabledIsArmed' /\ TimersAreHeld'
    BY <1>1, <1>2, <1>4, <2>2, CurrentIsObject DEF CronOK, HeldIsLive, EnabledIsArmed, TimersAreHeld
  <2> QED BY <2>4, <2>5
<1> QED BY <1>3, <1>4 DEF Fire

LEMMA FireStoppedStep ==
  ASSUME CronInv, NEW o \in Objects, FireStopped(o)
  PROVE  CronInv'
<1> USE DEF CronInv
<1>1. /\ timers[o] > 0 /\ ~running /\ timers' = [timers EXCEPT ![o] = @ - 1]
      /\ handle' = [handle EXCEPT ![o] = FALSE]
      /\ UNCHANGED <<running, doubled, added, job, enabled>>
  BY DEF FireStopped
<1>2. handle' \in [Objects -> BOOLEAN]
  BY <1>1, Zenon DEF CronOK
<1>3. \A q \in Objects : handle'[q] <=> (handle[q] /\ q # o)
  BY <1>1 DEF CronOK
<1>4. timers' \in [Objects -> Nat]
  BY <1>1 DEF CronOK
<1>5. CronOK'
  BY <1>1, <1>2, <1>4 DEF CronOK
<1>6. doubled
  BY <1>1 DEF TimersAreHeld
<1>7. HeldIsLive' /\ EnabledIsArmed' /\ TimersAreHeld'
  BY <1>1, <1>3, <1>6 DEF CronOK, HeldIsLive, EnabledIsArmed, TimersAreHeld
<1> QED BY <1>5, <1>7

LEMMA NextInv == CronInv /\ [Next]_vars => CronInv'
<1> SUFFICES ASSUME CronInv, [Next]_vars PROVE CronInv'
  OBVIOUS
<1>1. ASSUME UNCHANGED cron PROVE CronInv'
  BY <1>1 DEF cron, CronInv, CronOK, HeldIsLive, EnabledIsArmed, TimersAreHeld, Current
<1>2. CASE UNCHANGED vars
  BY <1>1, <1>2 DEF vars
<1>3. CASE HandleEvent
  BY <1>1, <1>3 DEF HandleEvent
<1>4. ASSUME NEW e \in Executions, Settled(e) PROVE CronInv'
  BY <1>1, <1>4 DEF Settled
<1>5. ASSUME NEW r \in Rules, AddTriggerRule(r) \/ RemoveTriggerRule(r) \/ CooldownOver(r)
      PROVE  CronInv'
  BY <1>1, <1>5 DEF AddTriggerRule, RemoveTriggerRule, CooldownOver
<1> QED BY <1>2, <1>3, <1>4, <1>5, StartStep, StopStep, AddJobStep, RemoveJobStep, FireStep,
           FireStoppedStep DEF Next

LEMMA Invariant == Spec => []CronInv
BY InitInv, NextInv, PTL DEF Spec

-----------------------------------------------------------------------------
(* A job that is enabled in a running scheduler has a timer, and holds it,   *)
(* whatever it was skipped, replaced, stopped or started before, unless the  *)
(* scan for its next run threw when it was last to be armed.                *)
THEOREM JobsStayArmed == Spec => []EnabledIsArmed
BY Invariant, PTL DEF CronInv

(* Unless start was called twice, every live timer is the only one of a     *)
(* current job, which holds it: remove, replace and stop leave none behind. *)
THEOREM NoTimerIsLost == Spec => []TimersAreHeld
BY Invariant, PTL DEF CronInv
=============================================================================
