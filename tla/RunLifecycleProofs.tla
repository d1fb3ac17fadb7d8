------------------------- MODULE RunLifecycleProofs -------------------------
(***************************************************************************)
(* Proofs about RunLifecycle for any finite set of calls and any limit, and  *)
(* about the facade (Runtime) that drives it.                               *)
(***************************************************************************)
EXTENDS Runtime, FiniteSetTheorems, TLAPS

(* Nothing is kept for a call that was not made.                            *)
Unmade ==
  \A c \in Runs : task[c]["start"] = "idle"
    => /\ runId[c] = c /\ status[c] = "absent" /\ exec[c] = "none" /\ c \notin resumptions
       /\ task[c]["settle"] = "idle" /\ task[c]["cancel"] = "idle"

(* Nor for an id no call has worked on, and of one that some call works on  *)
(* the entries are those of such a call.                                    *)
AbsentIsBlank ==
  \A r \in Runs : status[r] = "absent"
    => /\ r \notin tracked /\ r \notin saved /\ retiring[r] = 0 /\ holder[r] = r
       /\ \A c \in CallsOf(r) : c = r /\ task[c]["start"] = "idle"

Holding == \A r \in Runs : status[r] # "absent" => runId[holder[r]] = r

Shape == Unmade /\ AbsentIsBlank /\ Holding

(* An id that was never resumed over leftovers: only its last call has      *)
(* anything left to do;                                                     *)
OthersAreOver(r) == \A d \in CallsOf(r) : d # holder[r] => ~Busy(d)

(* whoever is about to clean it up has ended it first;                      *)
EndedFirst(r) ==
  \A a \in {"settle", "cancel"} : task[holder[r]][a] # "idle" => status[r] \in Ended \cup {"forgotten"}

(* its .then handler runs once: when it failed it has that handler behind;  *)
FailedIsHandled(r) == status[r] = "failed" => task[holder[r]]["settle"] # "idle"

(* it is retired, forgotten, or launched without a controller only when its *)
(* maps are emptied;                                                        *)
GoneIsReleased(r) ==
  /\ retiring[r] > 0 \/ status[r] = "forgotten" => r \notin tracked
  /\ exec[holder[r]] # "none" /\ signal[holder[r]] = {} => r \notin tracked

(* and they are not before it has ended.                                    *)
ActiveIsTracked(r) == status[r] \in {"running", "paused"} => r \in tracked

Orderly(r) ==
  /\ OthersAreOver(r) /\ EndedFirst(r) /\ FailedIsHandled(r) /\ GoneIsReleased(r) /\ ActiveIsTracked(r)

Ordered == \A r \in Runs : Untouched(r) /\ status[r] # "absent" => Orderly(r)

-----------------------------------------------------------------------------
\* The values that the proofs below need of the types.
Types ==
  /\ status \in [Runs -> {"absent", "running", "paused", "forgotten"} \cup Ended]
  /\ holder \in [Runs -> Runs] /\ retiring \in [Runs -> Nat] /\ runId \in [Runs -> Runs]
  /\ tracked \subseteq Runs /\ saved \subseteq Runs
  /\ live \subseteq Runs /\ aborted \subseteq Runs
  /\ exec \in [Runs -> {"none", "running", "working"} \cup Settled]
  /\ signal \in [Runs -> SUBSET Runs]
  /\ task \in [Runs -> [Tasks -> {"idle", "done", "threw"} \cup Parked]]
  /\ clashed \subseteq resumptions /\ resumptions \subseteq Runs

(* A step that works on the id r alone: it resumes nothing, and leaves what  *)
(* belongs to the other ids and their calls as it is.                       *)
Local(r) ==
  /\ runId' = runId /\ clashed' = clashed /\ resumptions' = resumptions
  /\ \A q \in Runs \ {r} : /\ status'[q] = status[q] /\ holder'[q] = holder[q]
                           /\ retiring'[q] = retiring[q] /\ (q \in tracked' <=> q \in tracked)
                           /\ (q \in saved' <=> q \in saved)
  /\ \A d \in Runs : runId[d] # r => task'[d] = task[d] /\ exec'[d] = exec[d] /\ signal'[d] = signal[d]

LEMMA OthersStay ==
  ASSUME Types, Shape, Ordered, NEW r \in Runs, Local(r), NEW q \in Runs \ {r},
         Untouched(q)', status'[q] # "absent"
  PROVE  Orderly(q)'
  <1>1. /\ status[q] # "absent" /\ status'[q] = status[q] /\ holder'[q] = holder[q]
        /\ retiring'[q] = retiring[q] /\ (q \in tracked' <=> q \in tracked)
    BY DEF Local
  <1>2. Untouched(q) BY DEF Local, Untouched
  <1>3. Orderly(q) BY <1>1, <1>2 DEF Ordered
  <1>4. holder[q] \in Runs /\ runId[holder[q]] = q BY <1>1 DEF Types, Shape, Holding
  <1>5. \A d \in Runs : runId[d] = q => task'[d] = task[d] /\ exec'[d] = exec[d] /\ signal'[d] = signal[d]
    BY DEF Local
  <1>6. CallsOf(q)' = CallsOf(q) BY DEF CallsOf, Local
  <1>7. \A d \in CallsOf(q) : Busy(d)' <=> Busy(d)
    BY <1>5 DEF CallsOf, Busy
  <1>8. OthersAreOver(q)' BY <1>1, <1>3, <1>6, <1>7 DEF OthersAreOver, Orderly
  <1>9. EndedFirst(q)' /\ FailedIsHandled(q)' /\ GoneIsReleased(q)' /\ ActiveIsTracked(q)'
    BY <1>1, <1>3, <1>4, <1>5
    DEF Orderly, EndedFirst, FailedIsHandled, GoneIsReleased, ActiveIsTracked
  <1> QED BY <1>8, <1>9 DEF Orderly

(* What is left to show of such a step.                                     *)
LEMMA LocalStep ==
  ASSUME Types, Shape, Ordered, NEW r \in Runs, Local(r),
         Untouched(r) /\ status'[r] # "absent" => Orderly(r)'
  PROVE  Ordered'
  <1>1. Untouched(r)' <=> Untouched(r) BY DEF Untouched, Local
  <1> SUFFICES ASSUME NEW q \in Runs, Untouched(q)', status'[q] # "absent" PROVE Orderly(q)'
    BY DEF Ordered
  <1> QED BY <1>1, OthersStay

(* A task of a call, when its id was never resumed over leftovers, is one    *)
(* of the call whose entries the maps hold.                                 *)
LEMMA LastCall ==
  ASSUME Types, Shape, Ordered, NEW c \in Runs, Busy(c), Untouched(runId[c])
  PROVE  c = holder[runId[c]] /\ status[runId[c]] # "absent" /\ Orderly(runId[c])
  <1>1. task[c]["start"] # "idle"
    BY DEF Busy, Shape, Unmade, Types, Tasks, Parked, Settled
  <1>2. runId[c] \in Runs BY DEF Types
  <1>3. status[runId[c]] # "absent"
    BY <1>1, <1>2 DEF Shape, AbsentIsBlank, CallsOf
  <1> QED BY <1>2, <1>3 DEF Ordered, Orderly, OthersAreOver, CallsOf

-----------------------------------------------------------------------------
Inv == Types /\ Shape /\ Ordered

(* What each action is shown to do with the id r it works on.               *)
GoodStep(r) == /\ Types' /\ Shape' /\ Local(r)
               /\ Untouched(r) /\ status'[r] # "absent" => Orderly(r)'

LEMMA GoodSteps == ASSUME Inv, NEW r \in Runs, GoodStep(r) PROVE Inv'
  BY LocalStep DEF Inv, GoodStep

LEMMA StartGood == ASSUME Inv, NEW c \in Runs, Start(c) PROVE GoodStep(c)
  <1>0. runId[c] = c /\ status[c] = "absent" /\ holder[c] = c /\ exec[c] = "none" /\ retiring[c] = 0
        /\ task[c]["settle"] = "idle" /\ task[c]["cancel"] = "idle"
        /\ \A d \in Runs : runId[d] = c => d = c
    BY DEF Inv, Types, Start, Shape, Unmade, AbsentIsBlank, CallsOf
  <1>1. /\ status' = [status EXCEPT ![c] = "running"] /\ tracked' = tracked \cup {c}
        /\ task' = [task EXCEPT ![c]["start"] = "announcing"]
        /\ UNCHANGED <<holder, retiring, saved, runId, exec, signal, live, aborted, resumptions, clashed>>
    BY DEF Start, Register, Goto, SetStatus, history
  <1>t. Types BY DEF Inv
  <1>2. task' \in [Runs -> [Tasks -> {"idle", "done", "threw"} \cup Parked]]
    BY ONLY <1>1, <1>t, c \in Runs DEF Types, Tasks, Parked
  <1>3. status' \in [Runs -> {"absent", "running", "paused", "forgotten"} \cup Ended]
    BY ONLY <1>1, <1>t, c \in Runs DEF Types
  <1>4. Types' BY ONLY <1>1, <1>t, <1>2, <1>3, c \in Runs DEF Types
  <1>s. Shape BY DEF Inv
  <1>5. Unmade' BY ONLY <1>1, <1>t, <1>s, c \in Runs DEF Types, Shape, Unmade, Tasks
  <1>6. AbsentIsBlank' BY ONLY <1>0, <1>1, <1>t, <1>s, c \in Runs DEF Types, Shape, AbsentIsBlank, CallsOf, Tasks
  <1>7. Holding' BY ONLY <1>0, <1>1, <1>t, <1>s, c \in Runs DEF Types, Shape, Holding
  <1>8. Local(c) BY ONLY <1>0, <1>1, <1>t, c \in Runs DEF Types, Local
  <1>9. OthersAreOver(c)' BY ONLY <1>0, <1>1, <1>t, c \in Runs DEF Types, OthersAreOver, CallsOf
  <1>10. EndedFirst(c)' /\ FailedIsHandled(c)' /\ GoneIsReleased(c)' /\ ActiveIsTracked(c)'
    BY ONLY <1>0, <1>1, <1>t, c \in Runs DEF Types, EndedFirst, FailedIsHandled, GoneIsReleased, ActiveIsTracked, Tasks
  <1> QED BY <1>4, <1>5, <1>6, <1>7, <1>8, <1>9, <1>10 DEF GoodStep, Shape, Orderly

LEMMA BusyIsMade ==
  ASSUME Inv, NEW c \in Runs, Busy(c)
  PROVE  task[c]["start"] # "idle" /\ status[runId[c]] # "absent" /\ runId[c] \in Runs
  <1>1. task[c]["start"] # "idle"
    BY DEF Inv, Busy, Shape, Unmade, Types, Tasks, Parked, Settled
  <1>2. runId[c] \in Runs BY DEF Inv, Types
  <1> QED BY <1>1, <1>2 DEF Inv, Shape, AbsentIsBlank, CallsOf

(* What every step of a call that has something to do keeps to.              *)
Worked(c) ==
  /\ Types' /\ UNCHANGED <<runId, holder, clashed, resumptions>>
  /\ \A d \in Runs \ {c} : task'[d] = task[d] /\ exec'[d] = exec[d] /\ signal'[d] = signal[d]
  /\ \A q \in Runs \ {runId[c]} : /\ status'[q] = status[q] /\ retiring'[q] = retiring[q]
                                 /\ (q \in tracked' <=> q \in tracked) /\ (q \in saved' <=> q \in saved)
  \* the tasks only move on, and those that clean up start when the run has ended,
  /\ task'[c]["start"] # "idle"
  /\ \A a \in {"settle", "cancel"} : \/ task'[c][a] = task[c][a]
                                    \/ (task'[c][a] # "idle" /\ task[c][a] # "idle")
                                    \/ (task'[c][a] # "idle" /\ status'[runId[c]] \in Ended \cup {"forgotten"})
                                    \/ (task'[c][a] # "idle" /\ a = "settle" /\ signal[c] = {} /\ exec[c] # "none")
  \* which the settle task says,
  /\ \/ status'[runId[c]] = status[runId[c]]
     \/ (status'[runId[c]] \in {"completed", "failed"} /\ task'[c]["settle"] # "idle")
  \* and only they let go of the maps.
  /\ runId[c] \in tracked' => runId[c] \in tracked
  /\ \/ runId[c] \in tracked' \/ runId[c] \notin tracked
     \/ \E a \in {"settle", "cancel"} : task[c][a] # "idle"
     \/ (exec[c] # "none" /\ signal[c] = {})
  /\ retiring'[runId[c]] = retiring[runId[c]] \/ runId[c] \notin tracked'
  /\ \/ exec'[c] = "none" \/ signal'[c] # {} \/ runId[c] \notin tracked'
     \/ (exec[c] # "none" /\ signal[c] = {})

LEMMA WorkedGood ==
  ASSUME Inv, NEW c \in Runs, Busy(c), Worked(c)
  PROVE  GoodStep(runId[c])
  <1> DEFINE r == runId[c]
  <1>t. Types /\ Types' BY DEF Inv, Worked
  <1>r. r \in Runs BY <1>t DEF Types
  <1>m. task[c]["start"] # "idle" BY BusyIsMade
  <1>a. status[r] # "absent" BY BusyIsMade
  <1>b. status'[r] # "absent" BY <1>a DEF Worked
  <1>s. Shape BY DEF Inv
  <1>1. Local(r) BY <1>r DEF Worked, Local
  <1>2. Shape'
    <2>1. Unmade'
      BY ONLY <1>t, <1>s, <1>m, Worked(c), c \in Runs, <1>r, <1>a DEF Worked, Shape, Unmade
    <2>2. AbsentIsBlank'
      BY ONLY <1>t, <1>s, <1>m, Worked(c), c \in Runs, <1>r, <1>a, <1>b DEF Worked, Shape, AbsentIsBlank, CallsOf
    <2>3. Holding'
      BY ONLY <1>t, <1>s, Worked(c), c \in Runs, <1>r, <1>a, <1>b DEF Worked, Shape, Holding
    <2> QED BY <2>1, <2>2, <2>3 DEF Shape
  <1>3. ASSUME Untouched(r) PROVE Orderly(r)'
    <2>1. c = holder[r] /\ Orderly(r) BY <1>3, <1>t, LastCall DEF Inv
    <2>2. OthersAreOver(r)'
      BY ONLY <2>1, Worked(c), c \in Runs DEF Worked, Orderly, OthersAreOver, CallsOf, Busy
    <2>3. status[r] \in {"absent", "running", "paused", "forgotten"} \cup Ended
      BY ONLY <1>t, <1>r DEF Types
    <2>4. EndedFirst(r)'
      BY ONLY <2>1, <2>3, <1>a, Worked(c), c \in Runs
      DEF Worked, Orderly, EndedFirst, GoneIsReleased, ActiveIsTracked, Ended
    <2>5. FailedIsHandled(r)'
      BY ONLY <2>1, Worked(c), c \in Runs DEF Worked, Orderly, FailedIsHandled
    <2>6. GoneIsReleased(r)'
      BY ONLY <2>1, Worked(c), c \in Runs DEF Worked, Orderly, GoneIsReleased
    <2>7. ActiveIsTracked(r)'
      BY ONLY <2>1, <2>3, Worked(c), c \in Runs
      DEF Worked, Orderly, EndedFirst, GoneIsReleased, ActiveIsTracked, Ended
    <2> QED BY <2>2, <2>4, <2>5, <2>6, <2>7 DEF Orderly
  <1> QED BY <1>t, <1>1, <1>2, <1>3 DEF GoodStep

\* A place written keeps the types of the tasks.
LEMMA GotoTyped ==
  ASSUME Types, NEW c \in Runs, NEW a \in Tasks, NEW place \in {"idle", "done", "threw"} \cup Parked,
         task' = [task EXCEPT ![c][a] = place]
  PROVE  /\ task' \in [Runs -> [Tasks -> {"idle", "done", "threw"} \cup Parked]]
         /\ \A d \in Runs \ {c} : task'[d] = task[d]
         /\ \A b \in Tasks : task'[c][b] = IF b = a THEN place ELSE task[c][b]
  BY DEF Types

LEMMA StatusTyped ==
  ASSUME Types, NEW r \in Runs, NEW s \in {"running", "paused", "forgotten"} \cup Ended,
         status' = [status EXCEPT ![r] = s]
  PROVE  /\ status' \in [Runs -> {"absent", "running", "paused", "forgotten"} \cup Ended]
         /\ status'[r] = s /\ \A q \in Runs \ {r} : status'[q] = status[q]
  BY DEF Types

-----------------------------------------------------------------------------
(* Each action of a call that is at work.                                   *)

\* The variables of the ids and the history, which most of them leave alone.
LEMMA QuietWorked ==
  ASSUME Inv, NEW c \in Runs, task[c]["start"] # "idle", Types',
         UNCHANGED <<idVars, runId, clashed, resumptions>>,
         \A d \in Runs \ {c} : task'[d] = task[d] /\ exec'[d] = exec[d] /\ signal'[d] = signal[d],
         task'[c]["start"] # "idle",
         \A a \in {"settle", "cancel"} : task'[c][a] = task[c][a] \/ (task'[c][a] # "idle" /\ task[c][a] # "idle"),
         \/ exec'[c] = "none" \/ signal'[c] # {} \/ runId[c] \notin tracked
         \/ (exec[c] # "none" /\ signal[c] = {})
  PROVE  Worked(c)
  BY DEF Worked, idVars

LEMMA StartingWorks ==
  ASSUME Inv, NEW c \in Runs, Starting(c)
  PROVE  Busy(c) /\ Worked(c)
  <1>t. Types BY DEF Inv
  <1>1. task[c]["start"] = "announcing" BY DEF Starting, Launch, StartThrows
  <1>2. Busy(c) BY <1>1 DEF Busy, Tasks, Parked
  <1>3. CASE Launch(c)
    <2>1. /\ task' = [task EXCEPT ![c]["start"] = "done"]
          /\ exec' = [exec EXCEPT ![c] = "running"]
          /\ signal' = [signal EXCEPT ![c] = IF runId[c] \in tracked THEN {holder[runId[c]]} ELSE {}]
          /\ UNCHANGED <<status, tracked, holder, retiring, saved, runId, live, aborted, clashed, resumptions>>
      BY <1>3 DEF Launch, Goto, idVars, history
    <2>2. /\ task' \in [Runs -> [Tasks -> {"idle", "done", "threw"} \cup Parked]]
          /\ \A d \in Runs \ {c} : task'[d] = task[d]
          /\ \A b \in Tasks : task'[c][b] = IF b = "start" THEN "done" ELSE task[c][b]
      BY <2>1, <1>t, GotoTyped DEF Tasks
    <2>3. Types' BY ONLY <1>t, <2>1, <2>2, c \in Runs DEF Types
    <2>4. \A d \in Runs \ {c} : exec'[d] = exec[d] /\ signal'[d] = signal[d]
      BY ONLY <1>t, <2>1, c \in Runs DEF Types
    <2>5. signal'[c] # {} \/ runId[c] \notin tracked
      BY ONLY <1>t, <2>1, c \in Runs DEF Types
    <2> QED BY <1>1, <1>2, <2>1, <2>2, <2>3, <2>4, <2>5, QuietWorked DEF Tasks, idVars
  <1>4. CASE StartThrows(c)
    <2>1. /\ task' = [task EXCEPT ![c]["start"] = "threw"]
          /\ UNCHANGED <<status, tracked, holder, retiring, saved, runId, exec, signal, live, aborted, clashed, resumptions>>
      BY <1>4 DEF StartThrows, Goto, idVars, history
    <2>2. /\ task' \in [Runs -> [Tasks -> {"idle", "done", "threw"} \cup Parked]]
          /\ \A d \in Runs \ {c} : task'[d] = task[d]
          /\ \A b \in Tasks : task'[c][b] = IF b = "start" THEN "threw" ELSE task[c][b]
      BY <2>1, <1>t, GotoTyped DEF Tasks
    <2>3. Types' BY ONLY <1>t, <2>1, <2>2, c \in Runs DEF Types
    <2>4. exec'[c] = "none" \/ signal'[c] # {} \/ (exec[c] # "none" /\ signal[c] = {})
      BY <2>1
    <2> QED BY <1>1, <1>2, <2>1, <2>2, <2>3, <2>4, QuietWorked DEF Tasks, idVars
  <1> QED BY <1>3, <1>4 DEF Starting

LEMMA ExecutingWorks ==
  ASSUME Inv, NEW c \in Runs, Executing(c) \/ NodeSaved(c)
  PROVE  Busy(c) /\ Worked(c)
  <1>t. Types BY DEF Inv
  <1>1. Busy(c)
    BY DEF Executing, NodeBegins, AgentStarts, AgentStops, NodesEnd, ExecutorSettles, NodeSaved, Busy
  <1>2. task[c]["start"] # "idle" BY <1>1, BusyIsMade
  <1>3. exec[c] \in {"running", "working"}
    BY DEF Executing, NodeBegins, AgentStarts, AgentStops, NodesEnd, ExecutorSettles, NodeSaved
  <1>4. /\ UNCHANGED <<status, tracked, holder, retiring, runId, signal, task, aborted, clashed, resumptions>>
        /\ saved' \in {saved, saved \cup {runId[c]}} /\ runId[c] \in Runs /\ live' \in SUBSET Runs
        /\ exec' = exec \/ \E e \in {"running", "working"} \cup Settled : exec' = [exec EXCEPT ![c] = e]
    BY <1>t DEF Types, Executing, NodeBegins, AgentStarts, AgentStops, NodesEnd, ExecutorSettles, NodeSaved,
                idVars, callVars, history
  <1>5. exec' \in [Runs -> {"none", "running", "working"} \cup Settled]
        /\ \A d \in Runs \ {c} : exec'[d] = exec[d]
    BY ONLY <1>t, <1>4, c \in Runs DEF Types
  <1>6. Types' BY ONLY <1>t, <1>4, <1>5 DEF Types
  <1>7. Worked(c)
    BY ONLY <1>2, <1>3, <1>4, <1>5, <1>6 DEF Worked
  <1> QED BY <1>1, <1>7

\* A cleanup by a task whose turn has come.
CleansUp(c, a) ==
  \/ /\ runId[c] \notin tracked /\ task' = [task EXCEPT ![c][a] = "done"]
     /\ UNCHANGED <<tracked, live, retiring>>
  \/ /\ live' = live \ CallsOf(runId[c]) /\ task' = [task EXCEPT ![c][a] = "cleaning"]
     /\ UNCHANGED <<tracked, retiring>>
  \/ /\ tracked' = tracked \ {runId[c]} /\ retiring' = [retiring EXCEPT ![runId[c]] = @ + 1]
     /\ task' = [task EXCEPT ![c][a] = "done"] /\ UNCHANGED live

LEMMA Cleanups ==
  ASSUME NEW c \in Runs, NEW a, Cleanup(c, a) PROVE CleansUp(c, a)
  BY DEF CleansUp, Cleanup, StopAgents, Release, Free, Goto

LEMMA CleaningWorks ==
  ASSUME Inv, NEW c \in Runs, NEW a \in {"settle", "cancel"}, CleansUp(c, a), Busy(c),
         UNCHANGED <<status, holder, saved, runId, exec, signal, aborted, clashed, resumptions>>,
         task[c][a] # "idle" \/ (a = "settle" /\ signal[c] = {} /\ exec[c] # "none")
  PROVE  Worked(c)
  <1>t. Types BY DEF Inv
  <1>m. task[c]["start"] # "idle" /\ runId[c] \in Runs BY BusyIsMade
  <1>p. PICK place \in {"done", "cleaning"} : task' = [task EXCEPT ![c][a] = place]
    BY DEF CleansUp
  <1>2. /\ task' \in [Runs -> [Tasks -> {"idle", "done", "threw"} \cup Parked]]
        /\ \A d \in Runs \ {c} : task'[d] = task[d]
        /\ \A b \in Tasks : task'[c][b] = IF b = a THEN place ELSE task[c][b]
    BY <1>t, <1>p, GotoTyped DEF Tasks, Parked
  <1>a. \/ tracked' = tracked /\ retiring' = retiring /\ live' \subseteq live
        \/ /\ tracked' = tracked \ {runId[c]} /\ live' = live
           /\ retiring' = [retiring EXCEPT ![runId[c]] = @ + 1]
    BY DEF CleansUp
  <1>3. /\ retiring' \in [Runs -> Nat] /\ tracked' \subseteq Runs /\ live' \subseteq Runs
        /\ \A q \in Runs \ {runId[c]} : retiring'[q] = retiring[q] /\ (q \in tracked' <=> q \in tracked)
        /\ (runId[c] \in tracked' => runId[c] \in tracked)
        /\ (retiring'[runId[c]] = retiring[runId[c]] \/ runId[c] \notin tracked')
    <2>1. CASE tracked' = tracked /\ retiring' = retiring /\ live' \subseteq live
      BY ONLY <1>t, <1>m, <2>1 DEF Types
    <2>2. CASE /\ tracked' = tracked \ {runId[c]} /\ live' = live
               /\ retiring' = [retiring EXCEPT ![runId[c]] = @ + 1]
      BY ONLY <1>t, <1>m, <2>2 DEF Types
    <2> QED BY <1>a, <2>1, <2>2
  <1>4. Types' BY ONLY <1>t, <1>2, <1>3, UNCHANGED <<status, holder, saved, runId, exec, signal, aborted, clashed, resumptions>> DEF Types
  <1>5. task'[c]["start"] # "idle" BY <1>2, <1>m DEF Tasks
  <1>6. \A b \in {"settle", "cancel"} :
          \/ task'[c][b] = task[c][b]
          \/ (task'[c][b] # "idle" /\ task[c][b] # "idle")
          \/ (task'[c][b] # "idle" /\ b = "settle" /\ signal[c] = {} /\ exec[c] # "none")
    BY <1>2 DEF Tasks
  <1>7. \/ runId[c] \in tracked' \/ runId[c] \notin tracked
        \/ \E b \in {"settle", "cancel"} : task[c][b] # "idle"
        \/ (exec[c] # "none" /\ signal[c] = {})
    OBVIOUS
  <1>8. \/ exec'[c] = "none" \/ signal'[c] # {} \/ runId[c] \notin tracked'
        \/ (exec[c] # "none" /\ signal[c] = {})
    OBVIOUS
  <1> QED BY ONLY <1>2, <1>3, <1>4, <1>5, <1>6, <1>7, <1>8,
             UNCHANGED <<status, holder, saved, runId, exec, signal, aborted, clashed, resumptions>> DEF Worked


LEMMA SettlingWorks ==
  ASSUME Inv, NEW c \in Runs, Settling(c)
  PROVE  Busy(c) /\ Worked(c)
  <1>t. Types BY DEF Inv
  <1>e. exec[c] = "none" \/ exec[c] \in {"running", "working"} \/ exec[c] \in Settled BY <1>t DEF Types
  <1>1. CASE Complete(c)
    <2>1. Busy(c) BY <1>1 DEF Complete, Busy, Settled
    <2>m. task[c]["start"] # "idle" /\ runId[c] \in Runs BY <2>1, BusyIsMade
    <2>2. PICK place \in {"announcing", "done"} :
            /\ task' = [task EXCEPT ![c]["settle"] = place]
            /\ UNCHANGED <<tracked, holder, retiring, saved, runId, exec, signal, live, aborted, resumptions, clashed>>
            /\ \/ status' = status /\ status[runId[c]] = "forgotten"
               \/ status' = [status EXCEPT ![runId[c]] = "completed"]
      BY <1>1 DEF Complete, Goto, SetStatus, history
    <2>3. /\ task' \in [Runs -> [Tasks -> {"idle", "done", "threw"} \cup Parked]]
          /\ \A d \in Runs \ {c} : task'[d] = task[d]
          /\ \A b \in Tasks : task'[c][b] = IF b = "settle" THEN place ELSE task[c][b]
      BY <2>2, <1>t, GotoTyped DEF Tasks, Parked
    <2>4. /\ status' \in [Runs -> {"absent", "running", "paused", "forgotten"} \cup Ended]
          /\ \A q \in Runs \ {runId[c]} : status'[q] = status[q]
          /\ status'[runId[c]] \in {"completed", "forgotten"}
          /\ (status'[runId[c]] = status[runId[c]] \/ status'[runId[c]] = "completed")
      BY <1>t, <2>2, <2>m DEF Types, Ended
    <2>5. Types' BY ONLY <1>t, <2>2, <2>3, <2>4 DEF Types
    <2>6. Worked(c)
      BY ONLY <2>m, <2>2, <2>3, <2>4, <2>5, <1>1, c \in Runs DEF Worked, Complete, Tasks, Ended
    <2> QED BY <2>1, <2>6
  <1>2. CASE HandleError(c) /\ signal[c] # {}
    <2>1. Busy(c) BY <1>2 DEF HandleError, Busy, Settled, Tasks, Parked
    <2>m. task[c]["start"] # "idle" /\ runId[c] \in Runs BY <2>1, BusyIsMade
    <2>2. PICK place \in {"reporting", "done"} :
            /\ task' = [task EXCEPT ![c]["settle"] = place]
            /\ UNCHANGED <<tracked, holder, retiring, saved, runId, exec, signal, live, aborted, resumptions, clashed>>
            /\ \/ status' = status /\ status[runId[c]] = "forgotten"
               \/ status' = [status EXCEPT ![runId[c]] = "failed"]
      BY <1>2 DEF HandleError, EnterError, Goto, SetStatus, history
    <2>3. /\ task' \in [Runs -> [Tasks -> {"idle", "done", "threw"} \cup Parked]]
          /\ \A d \in Runs \ {c} : task'[d] = task[d]
          /\ \A b \in Tasks : task'[c][b] = IF b = "settle" THEN place ELSE task[c][b]
      BY <2>2, <1>t, GotoTyped DEF Tasks, Parked
    <2>4. /\ status' \in [Runs -> {"absent", "running", "paused", "forgotten"} \cup Ended]
          /\ \A q \in Runs \ {runId[c]} : status'[q] = status[q]
          /\ status'[runId[c]] \in {"failed", "forgotten"}
          /\ (status'[runId[c]] = status[runId[c]] \/ status'[runId[c]] = "failed")
      BY <1>t, <2>2, <2>m DEF Types, Ended
    <2>5. Types' BY ONLY <1>t, <2>2, <2>3, <2>4 DEF Types
    <2>6. Worked(c)
      BY ONLY <1>2, <2>m, <2>2, <2>3, <2>4, <2>5, c \in Runs DEF Worked, Tasks, Ended
    <2> QED BY <2>1, <2>6
  <1>3. CASE HandleError(c) /\ signal[c] = {}
    <2>1. Busy(c) BY <1>3 DEF HandleError, Busy, Settled, Tasks, Parked
    <2>2. CleansUp(c, "settle") BY <1>3, Cleanups DEF HandleError
    <2>3. task[c]["settle"] # "idle" \/ exec[c] # "none" BY <1>3 DEF HandleError
    <2>4. UNCHANGED <<status, holder, saved, runId, exec, signal, aborted, clashed, resumptions>>
      BY <1>3 DEF HandleError, history
    <2> QED BY <1>3, <2>1, <2>2, <2>3, <2>4, CleaningWorks
  <1>4. CASE CompletionAnnounced(c) \/ ErrorReported(c) \/ CleanupContinues(c, "settle")
    <2>1. task[c]["settle"] \in Parked
      BY <1>4 DEF CompletionAnnounced, ErrorReported, CleanupContinues, Parked
    <2>2. CleansUp(c, "settle")
      BY <1>4, Cleanups DEF CompletionAnnounced, ErrorReported, CleanupContinues, CleansUp, StopAgents, Release, Free, Goto
    <2>3. UNCHANGED <<status, holder, saved, runId, exec, signal, aborted, clashed, resumptions>>
      BY <1>4 DEF CompletionAnnounced, ErrorReported, CleanupContinues, history
    <2>4. Busy(c) /\ task[c]["settle"] # "idle" BY <2>1 DEF Busy, Tasks, Parked
    <2> QED BY <2>2, <2>3, <2>4, CleaningWorks
  <1> QED BY <1>1, <1>2, <1>3, <1>4 DEF Settling

LEMMA CancellingWorks ==
  ASSUME Inv, NEW c \in Runs, Cancelling(c)
  PROVE  Busy(c) /\ Worked(c)
  <1>t. Types BY DEF Inv
  <1>1. task[c]["cancel"] \in Parked
    BY DEF Cancelling, CancelContinues, CancelAnnounced, CancelThrows, CleanupContinues, Parked
  <1>2. Busy(c) /\ task[c]["cancel"] # "idle" BY <1>1 DEF Busy, Tasks, Parked
  <1>m. task[c]["start"] # "idle" BY <1>2, BusyIsMade
  <1>3. CASE CancelContinues(c) \/ CancelThrows(c)
    <2>1. PICK place \in {"stopping", "announcing", "threw"} :
            /\ task' = [task EXCEPT ![c]["cancel"] = place] /\ live' \subseteq live
            /\ UNCHANGED <<status, tracked, holder, retiring, saved, runId, exec, signal, aborted, clashed, resumptions>>
      BY <1>3 DEF CancelContinues, CancelThrows, Goto, idVars, history
    <2>2. /\ task' \in [Runs -> [Tasks -> {"idle", "done", "threw"} \cup Parked]]
          /\ \A d \in Runs \ {c} : task'[d] = task[d]
          /\ \A b \in Tasks : task'[c][b] = IF b = "cancel" THEN place ELSE task[c][b]
      BY <2>1, <1>t, GotoTyped DEF Tasks, Parked
    <2>3. Types' BY ONLY <1>t, <2>1, <2>2 DEF Types
    <2>4. exec'[c] = "none" \/ signal'[c] # {} \/ (exec[c] # "none" /\ signal[c] = {})
      BY <2>1
    <2> QED BY <1>2, <1>m, <2>1, <2>2, <2>3, <2>4, QuietWorked DEF Tasks, idVars
  <1>4. CASE CancelAnnounced(c) \/ CleanupContinues(c, "cancel")
    <2>2. CleansUp(c, "cancel")
      BY <1>4, Cleanups DEF CancelAnnounced, CleanupContinues, CleansUp, StopAgents, Release, Free, Goto
    <2>3. UNCHANGED <<status, holder, saved, runId, exec, signal, aborted, clashed, resumptions>>
      BY <1>4 DEF CancelAnnounced, CleanupContinues, history
    <2> QED BY <1>2, <2>2, <2>3, CleaningWorks
  <1> QED BY <1>3, <1>4 DEF Cancelling

-----------------------------------------------------------------------------
(* The calls that name an id, and its retention timer.                      *)

\* The shape is kept by whoever works on an id that is not absent.
LEMMA ShapeKept ==
  ASSUME Inv, NEW r \in Runs, Local(r), holder' = holder, saved' = saved,
         status[r] # "absent", status'[r] # "absent",
         \A d \in Runs : \A a \in Tasks : task[d][a] = "idle" \/ task'[d][a] # "idle",
         \A d \in Runs : task'[d]["start"] = "idle" => task'[d] = task[d] /\ exec'[d] = exec[d]
  PROVE  Shape'
  <1>t. Types /\ Shape BY DEF Inv
  <1>0. \A q \in Runs : status'[q] = "absent" => q # r /\ status[q] = "absent" BY DEF Local
  <1>1. Unmade' BY <1>t, <1>0 DEF Local, Shape, Unmade, Tasks, Types
  <1>2. AbsentIsBlank' BY <1>t, <1>0 DEF Local, Shape, AbsentIsBlank, CallsOf, Tasks, Types
  <1>3. Holding' BY <1>t, <1>0 DEF Local, Shape, Holding, Types
  <1> QED BY <1>1, <1>2, <1>3 DEF Shape

LEMMA IdGood ==
  ASSUME Inv, NEW r \in Runs, Pause(r) \/ Resume(r) \/ Cancel(r) \/ Expire(r)
  PROVE  GoodStep(r)
  <1>t. Types BY DEF Inv
  <1>a. status[r] # "absent"
    BY <1>t DEF Inv, Types, Pause, Resume, Cancel, Expire, Shape, AbsentIsBlank
  <1>h. holder[r] \in Runs /\ runId[holder[r]] = r BY <1>a DEF Inv, Types, Shape, Holding
  <1>m. task[holder[r]]["start"] # "idle" BY <1>a, <1>h DEF Inv, Shape, Unmade
  <1>s. PICK s \in {"running", "paused", "cancelled", "forgotten"} : status' = [status EXCEPT ![r] = s]
    BY DEF Pause, Resume, Cancel, Expire, SetStatus
  <1>1. /\ status' \in [Runs -> {"absent", "running", "paused", "forgotten"} \cup Ended]
        /\ status'[r] = s /\ \A q \in Runs \ {r} : status'[q] = status[q]
    BY <1>t, <1>s, StatusTyped DEF Ended
  <1>2. UNCHANGED <<tracked, holder, saved, runId, exec, signal, clashed, resumptions>>
    BY DEF Pause, Resume, Cancel, Expire, callVars, history
  <1>3. CASE Pause(r) \/ Resume(r)
    <2>1. UNCHANGED <<retiring, task, live, aborted>> BY <1>3 DEF Pause, Resume, callVars
    <2>2. status[r] \in {"running", "paused"} /\ s \in {"running", "paused"}
      BY <1>3, <1>s, <1>t DEF Pause, Resume, SetStatus, Types
    <2>3. Types' BY ONLY <1>t, <1>1, <1>2, <2>1 DEF Types
    <2>4. Local(r) BY <1>1, <1>2, <2>1 DEF Local
    <2>5. Shape' BY <1>1, <1>2, <1>a, <2>1, <2>2, <2>4, ShapeKept
    <2>6. ASSUME Untouched(r) PROVE Orderly(r)'
      <3>1. Orderly(r) BY <1>a, <2>6 DEF Inv, Ordered
      <3>2. OthersAreOver(r)'
        BY ONLY <1>2, <2>1, <3>1 DEF Orderly, OthersAreOver, CallsOf, Busy
      <3> QED BY ONLY <1>1, <1>2, <2>1, <2>2, <3>1, <3>2
              DEF Orderly, EndedFirst, FailedIsHandled, GoneIsReleased, ActiveIsTracked, Ended
    <2> QED BY <2>3, <2>4, <2>5, <2>6 DEF GoodStep
  <1>4. CASE Cancel(r)
    <2>1. PICK place \in {"stopping", "announcing"} : task' = [task EXCEPT ![holder[r]]["cancel"] = place]
      BY <1>4 DEF Cancel, Goto
    <2>2. /\ retiring' = retiring /\ s = "cancelled" /\ status[r] \in {"running", "paused"}
          /\ live' \subseteq Runs /\ aborted' \subseteq Runs
      BY <1>4, <1>s, <1>t, <1>h DEF Cancel, SetStatus, Types
    <2>3. /\ task' \in [Runs -> [Tasks -> {"idle", "done", "threw"} \cup Parked]]
          /\ \A d \in Runs \ {holder[r]} : task'[d] = task[d]
          /\ \A b \in Tasks : task'[holder[r]][b] = IF b = "cancel" THEN place ELSE task[holder[r]][b]
      BY <2>1, <1>t, <1>h, GotoTyped DEF Tasks, Parked
    <2>4. Types' BY ONLY <1>t, <1>1, <1>2, <2>2, <2>3 DEF Types
    <2>5. Local(r) BY <1>1, <1>2, <1>h, <2>2, <2>3 DEF Local
    <2>6. \A d \in Runs : \A a \in Tasks : task[d][a] = "idle" \/ task'[d][a] # "idle"
      BY <2>3
    <2>7. \A d \in Runs : task'[d]["start"] = "idle" => task'[d] = task[d] /\ exec'[d] = exec[d]
      BY <2>3, <1>m, <1>2 DEF Tasks
    <2>8. Shape' BY <1>1, <1>2, <1>a, <2>2, <2>5, <2>6, <2>7, ShapeKept
    <2>9. ASSUME Untouched(r) PROVE Orderly(r)'
      <3>1. Orderly(r) BY <1>a, <2>9 DEF Inv, Ordered
      <3>2. OthersAreOver(r)'
        BY ONLY <1>2, <2>3, <3>1 DEF Orderly, OthersAreOver, CallsOf, Busy
      <3> QED BY ONLY <1>1, <1>2, <2>2, <2>3, <3>1, <3>2
              DEF Orderly, EndedFirst, FailedIsHandled, GoneIsReleased, ActiveIsTracked, Ended, Tasks
    <2> QED BY <2>4, <2>5, <2>8, <2>9 DEF GoodStep
  <1>5. CASE Expire(r)
    <2>1. /\ UNCHANGED <<task, live, aborted>> /\ retiring[r] > 0 /\ s = "forgotten"
          /\ retiring' = [retiring EXCEPT ![r] = @ - 1]
      BY <1>5, <1>s, <1>t DEF Expire, callVars, SetStatus, Types
    <2>2. /\ retiring' \in [Runs -> Nat] /\ \A q \in Runs \ {r} : retiring'[q] = retiring[q]
      BY ONLY <1>t, <2>1, r \in Runs DEF Types
    <2>3. Types' BY ONLY <1>t, <1>1, <1>2, <2>1, <2>2 DEF Types
    <2>4. Local(r) BY <1>1, <1>2, <2>1, <2>2 DEF Local
    <2>5. Shape' BY <1>1, <1>2, <1>a, <2>1, <2>4, ShapeKept
    <2>6. ASSUME Untouched(r) PROVE Orderly(r)'
      <3>1. Orderly(r) BY <1>a, <2>6 DEF Inv, Ordered
      <3>2. OthersAreOver(r)'
        BY ONLY <1>2, <2>1, <3>1 DEF Orderly, OthersAreOver, CallsOf, Busy
      <3> QED BY ONLY <1>1, <1>2, <2>1, <3>1, <3>2
              DEF Orderly, EndedFirst, FailedIsHandled, GoneIsReleased, ActiveIsTracked, Ended
    <2> QED BY <2>3, <2>4, <2>5, <2>6 DEF GoodStep
  <1> QED BY <1>3, <1>4, <1>5

(* A resumption.  If it met no leftovers, the id is as after a start; and if  *)
(* it did, nothing more is claimed of that id.                              *)
LEMMA ResumptionGood ==
  ASSUME Inv, NEW c \in Runs, NEW r \in Runs, ResumeFromCheckpoint(c, r)
  PROVE  Inv'
  <1>t. Types BY DEF Inv
  <1>s. Shape BY DEF Inv
  <1>c. /\ runId[c] = c /\ status[c] = "absent" /\ exec[c] = "none" /\ c \notin resumptions /\ c \notin clashed
        /\ task[c]["start"] = "idle" /\ task[c]["settle"] = "idle" /\ task[c]["cancel"] = "idle"
        /\ \A d \in CallsOf(c) : d = c
    BY <1>t, <1>s DEF ResumeFromCheckpoint, Shape, Unmade, AbsentIsBlank, Types
  <1>1. /\ status' = [status EXCEPT ![r] = "running"] /\ tracked' = tracked \cup {r}
        /\ holder' = [holder EXCEPT ![r] = c] /\ runId' = [runId EXCEPT ![c] = r]
        /\ live' \subseteq live /\ resumptions' = resumptions \cup {c}
        /\ clashed' = (IF Leftovers(r) THEN clashed \cup {c} ELSE clashed)
        /\ UNCHANGED <<retiring, saved, exec, signal, aborted>>
    BY DEF ResumeFromCheckpoint, Register, SetStatus
  <1>2. task' = [d \in Runs |->
          IF d = c THEN [task[c] EXCEPT !["start"] = "announcing"]
          ELSE IF runId[d] = r THEN [a \in Tasks |-> Detached(task[d][a])]
          ELSE task[d]]
    BY DEF ResumeFromCheckpoint
  <1>3. \A place \in {"idle", "done", "threw"} \cup Parked :
          /\ Detached(place) \in {"idle", "done", "threw"} \cup Parked
          /\ (Detached(place) = "idle" <=> place = "idle")
          /\ (place \notin Parked => Detached(place) = place)
    BY DEF Detached, Parked
  <1>4. task' \in [Runs -> [Tasks -> {"idle", "done", "threw"} \cup Parked]]
    <2>1. \A d \in Runs : task[d] \in [Tasks -> {"idle", "done", "threw"} \cup Parked]
      BY ONLY <1>t DEF Types
    <2>2. [task[c] EXCEPT !["start"] = "announcing"] \in [Tasks -> {"idle", "done", "threw"} \cup Parked]
      BY ONLY <2>1, c \in Runs DEF Parked
    <2>3. \A d \in Runs : [a \in Tasks |-> Detached(task[d][a])] \in [Tasks -> {"idle", "done", "threw"} \cup Parked]
      BY ONLY <2>1, <1>3
    <2> QED BY ONLY <1>2, <2>1, <2>2, <2>3
  <1>5. /\ \A a \in Tasks : task'[c][a] = IF a = "start" THEN "announcing" ELSE task[c][a]
        /\ \A d \in Runs \ {c} : runId[d] # r => task'[d] = task[d]
        /\ \A d \in Runs \ {c} : runId[d] = r => \A a \in Tasks : task'[d][a] = Detached(task[d][a])
    BY ONLY <1>t, <1>2, c \in Runs DEF Types
  <1>5a. task'[c]["start"] = "announcing" BY <1>5 DEF Tasks
  <1>6. \A d \in Runs \ {c} : \A a \in Tasks : task'[d][a] = "idle" => task[d][a] = "idle"
    BY ONLY <1>t, <1>3, <1>5 DEF Types
  <1>6a. \A d \in Runs \ {c} : \A a \in Tasks : task[d][a] = "idle" => task'[d][a] = "idle"
    BY ONLY <1>t, <1>3, <1>5 DEF Types
  <1>6b. \A d \in Runs \ {c} : \A a \in Tasks : task[d][a] \notin Parked => task'[d][a] = task[d][a]
    BY ONLY <1>t, <1>3, <1>5 DEF Types
  <1>7. Types' BY ONLY <1>t, <1>1, <1>4, <1>c, c \in Runs, r \in Runs DEF Types
  <1>8. Unmade'
    <2> SUFFICES ASSUME NEW d \in Runs, task'[d]["start"] = "idle"
                 PROVE  /\ runId'[d] = d /\ status'[d] = "absent" /\ exec'[d] = "none" /\ d \notin resumptions'
                        /\ task'[d]["settle"] = "idle" /\ task'[d]["cancel"] = "idle"
      BY DEF Unmade
    <2>1. d # c BY <1>5a
    <2>2. task[d]["start"] = "idle" BY <1>6, <2>1 DEF Tasks
    <2>3. /\ runId[d] = d /\ status[d] = "absent" /\ exec[d] = "none" /\ d \notin resumptions
          /\ task[d]["settle"] = "idle" /\ task[d]["cancel"] = "idle"
      BY <1>s, <2>2 DEF Shape, Unmade
    <2>4. d # r
      BY <1>s, <2>1, <2>3 DEF ResumeFromCheckpoint, Shape, AbsentIsBlank
    <2> QED BY <1>t, <1>1, <1>6a, <2>1, <2>3, <2>4 DEF Types, Tasks
  <1>9. AbsentIsBlank'
    <2> SUFFICES ASSUME NEW q \in Runs, status'[q] = "absent"
                 PROVE  /\ q \notin tracked' /\ q \notin saved' /\ retiring'[q] = 0 /\ holder'[q] = q
                        /\ \A d \in CallsOf(q)' : d = q /\ task'[d]["start"] = "idle"
      BY DEF AbsentIsBlank
    <2>1. q # r /\ status[q] = "absent" BY ONLY <1>t, <1>1, status'[q] = "absent", r \in Runs DEF Types
    <2>2. /\ q \notin tracked /\ q \notin saved /\ retiring[q] = 0 /\ holder[q] = q
          /\ \A d \in CallsOf(q) : d = q /\ task[d]["start"] = "idle"
      BY <1>s, <2>1 DEF Shape, AbsentIsBlank
    <2>3. ASSUME NEW d \in CallsOf(q)' PROVE d = q /\ task'[d]["start"] = "idle"
      <3>1. d \in Runs /\ runId'[d] = q BY <2>3 DEF CallsOf
      <3>2. d # c BY ONLY <3>1, <2>1, <1>t, <1>1, c \in Runs DEF Types
      <3>3. d \in CallsOf(q) BY ONLY <3>1, <3>2, <1>t, <1>1 DEF Types, CallsOf
      <3> QED BY <2>2, <3>1, <3>2, <3>3, <1>6a DEF Tasks
    <2> QED BY ONLY <1>t, <1>1, <2>1, <2>2, <2>3, r \in Runs DEF Types
  <1>10. Holding'
    <2> SUFFICES ASSUME NEW q \in Runs, status'[q] # "absent" PROVE runId'[holder'[q]] = q
      BY DEF Holding
    <2>1. CASE q = r BY ONLY <2>1, <1>t, <1>1, c \in Runs DEF Types
    <2>2. CASE q # r
      <3>1. status[q] # "absent" /\ holder'[q] = holder[q]
        BY ONLY <2>2, <1>t, <1>1, r \in Runs, q \in Runs, status'[q] # "absent" DEF Types
      <3>2. holder[q] \in Runs /\ runId[holder[q]] = q BY <3>1, <1>t, <1>s DEF Types, Shape, Holding
      <3>3. holder[q] # c BY <1>c, <3>1, <3>2
      <3> QED BY ONLY <1>t, <1>1, <3>1, <3>2, <3>3 DEF Types
    <2> QED BY <2>1, <2>2
  <1>11. ASSUME NEW q \in Runs, Untouched(q)', status'[q] # "absent" PROVE Orderly(q)'
    <2>0. Untouched(q)
      <3>1. \A d \in clashed : d \in clashed' /\ runId'[d] = runId[d]
        BY ONLY <1>t, <1>1, <1>c DEF Types
      <3> QED BY <3>1, <1>11 DEF Untouched
    <2>1. CASE q = r
      <3>1. ~Leftovers(r)
        <4>1. runId'[c] = r BY ONLY <1>t, <1>1, c \in Runs DEF Types
        <4>2. c \notin clashed' BY <4>1, <2>1, <1>11 DEF Untouched
        <4> QED BY <4>2, <1>1
      <3>2. /\ holder'[r] = c /\ status'[r] = "running" /\ r \in tracked' /\ retiring'[r] = 0
            /\ exec'[c] = "none" /\ task'[c]["settle"] = "idle" /\ task'[c]["cancel"] = "idle"
        BY <1>t, <1>1, <1>5, <1>c, <3>1 DEF Types, Leftovers, Tasks
      <3>3. ASSUME NEW d \in CallsOf(r)', d # c PROVE ~Busy(d)'
        <4>1. d \in Runs /\ runId[d] = r
          BY ONLY <3>3, <1>t, <1>1 DEF Types, CallsOf
        <4>2. ~Busy(d) BY <3>1, <4>1 DEF Leftovers, CallsOf
        <4>3. \A a \in Tasks : task[d][a] \notin Parked /\ task'[d][a] = task[d][a]
          BY <1>6b, <3>3, <4>1, <4>2 DEF Busy
        <4> QED BY ONLY <1>1, <4>2, <4>3 DEF Busy, Tasks
      <3>4. OthersAreOver(r)' BY <3>2, <3>3 DEF OthersAreOver
      <3>5. EndedFirst(r)' /\ FailedIsHandled(r)' /\ GoneIsReleased(r)' /\ ActiveIsTracked(r)'
        BY ONLY <3>2 DEF EndedFirst, FailedIsHandled, GoneIsReleased, ActiveIsTracked
      <3> QED BY <2>1, <3>4, <3>5 DEF Orderly
    <2>2. CASE q # r
      <3>1. /\ status[q] # "absent" /\ status'[q] = status[q] /\ holder'[q] = holder[q]
            /\ (q \in tracked' <=> q \in tracked) /\ retiring'[q] = retiring[q]
        BY ONLY <2>2, <1>t, <1>1, r \in Runs, q \in Runs, status'[q] # "absent" DEF Types
      <3>2. Orderly(q) BY <2>0, <3>1 DEF Inv, Ordered
      <3>3. holder[q] \in Runs /\ runId[holder[q]] = q BY <3>1, <1>t, <1>s DEF Types, Shape, Holding
      <3>4. holder[q] # c BY <1>c, <3>1, <3>3
      <3>5. \A d \in Runs \ {c} : runId[d] = q => task'[d] = task[d] /\ exec'[d] = exec[d] /\ signal'[d] = signal[d]
        BY <1>1, <1>5, <2>2
      <3>6. CallsOf(q)' \subseteq CallsOf(q) \ {c}
        BY ONLY <1>t, <1>1, <2>2, c \in Runs DEF Types, CallsOf
      <3>7. \A d \in CallsOf(q)' : Busy(d)' => Busy(d) BY ONLY <3>5, <3>6 DEF Busy, CallsOf
      <3>8. OthersAreOver(q)' BY ONLY <3>1, <3>2, <3>6, <3>7 DEF Orderly, OthersAreOver
      <3>9. task'[holder[q]] = task[holder[q]] /\ exec'[holder[q]] = exec[holder[q]] /\ signal'[holder[q]] = signal[holder[q]]
        BY <3>3, <3>4, <3>5
      <3>10. EndedFirst(q)' /\ FailedIsHandled(q)' /\ GoneIsReleased(q)' /\ ActiveIsTracked(q)'
        BY ONLY <3>1, <3>2, <3>9 DEF Orderly, EndedFirst, FailedIsHandled, GoneIsReleased, ActiveIsTracked
      <3> QED BY <3>8, <3>10 DEF Orderly
    <2> QED BY <2>1, <2>2
  <1>12. Ordered' BY <1>11 DEF Ordered
  <1> QED BY <1>7, <1>8, <1>9, <1>10, <1>12 DEF Inv, Shape

-----------------------------------------------------------------------------
(* The counter.                                                             *)

\* What the engine does to a slot: nothing, take one by a start, take one by
\* a resumption, which meets leftovers if the id is tracked, or give one back.
SlotStep ==
  \/ UNCHANGED <<tracked, count, resumptions, clashed>>
  \/ \E r \in Runs \ tracked :
       /\ tracked' = tracked \cup {r} /\ count' = count + 1 /\ count < MaxConcurrent
       /\ UNCHANGED <<resumptions, clashed>>
  \/ \E c \in Runs \ resumptions, r \in Runs :
       /\ tracked' = tracked \cup {r} /\ count' = count + 1
       /\ resumptions' = resumptions \cup {c}
       /\ (clashed' = clashed \cup {c} \/ (r \notin tracked /\ clashed' = clashed))
  \/ \E r \in Runs :
       /\ tracked' = tracked \ {r} /\ count' = count - 1
       /\ UNCHANGED <<resumptions, clashed>>

Counted ==
  /\ count \in Int /\ count <= MaxConcurrent + Cardinality(resumptions)
  /\ NoPhantomSlot

\* Giving back one slot lowers the number of tracked runs by at most one.
LEMMA ReleaseCount ==
  ASSUME NEW S, IsFiniteSet(S), NEW r
  PROVE  /\ Cardinality(S \ {r}) \in Nat /\ Cardinality(S \ {r}) >= Cardinality(S) - 1
  <1>1. Cardinality(S) \in Nat BY FS_CardinalityType
  <1>2. IsFiniteSet(S \ {r}) /\ Cardinality(S \ {r}) = IF r \in S THEN Cardinality(S) - 1 ELSE Cardinality(S)
    BY FS_RemoveElement
  <1>3. Cardinality(S \ {r}) \in Nat BY <1>2, FS_CardinalityType
  <1> QED BY ONLY <1>1, <1>2, <1>3

\* Adding an element adds one, or none if it is there.
LEMMA AddCount ==
  ASSUME NEW S, IsFiniteSet(S), NEW r
  PROVE  /\ Cardinality(S) \in Nat /\ Cardinality(S \cup {r}) \in Nat
         /\ Cardinality(S \cup {r}) = IF r \in S THEN Cardinality(S) ELSE Cardinality(S) + 1
  <1>1. Cardinality(S) \in Nat BY FS_CardinalityType
  <1>2. IsFiniteSet(S \cup {r}) /\ Cardinality(S \cup {r}) = IF r \in S THEN Cardinality(S) ELSE Cardinality(S) + 1
    BY FS_AddElement
  <1>3. Cardinality(S \cup {r}) \in Nat BY <1>2, FS_CardinalityType
  <1> QED BY ONLY <1>1, <1>2, <1>3

LEMMA StillCounted ==
  ASSUME Types, Counted, SlotStep
  PROVE  Counted'
  <1>0. IsFiniteSet(tracked) /\ IsFiniteSet(resumptions) /\ IsFiniteSet(clashed)
    <2>1. tracked \subseteq Runs /\ resumptions \subseteq Runs /\ clashed \subseteq Runs BY DEF Types
    <2> QED BY <2>1, LifecycleAssumption, FS_Subset
  <1>n. Cardinality(tracked) \in Nat /\ Cardinality(resumptions) \in Nat /\ Cardinality(clashed) \in Nat
        /\ MaxConcurrent \in Nat
    BY <1>0, FS_CardinalityType, LifecycleAssumption
  <1>c. count \in Int /\ count <= MaxConcurrent + Cardinality(resumptions)
        /\ count <= Cardinality(tracked) + Cardinality(clashed)
    BY DEF Counted, NoPhantomSlot
  <1> SUFFICES /\ count' \in Int /\ count' <= MaxConcurrent + Cardinality(resumptions')
               /\ count' <= Cardinality(tracked') + Cardinality(clashed')
    BY DEF Counted, NoPhantomSlot
  <1>1. CASE UNCHANGED <<tracked, count, resumptions, clashed>> BY <1>1, <1>c
  <1>2. ASSUME NEW r \in Runs \ tracked, tracked' = tracked \cup {r}, count' = count + 1,
               count < MaxConcurrent, UNCHANGED <<resumptions, clashed>>
        PROVE  /\ count' \in Int /\ count' <= MaxConcurrent + Cardinality(resumptions')
               /\ count' <= Cardinality(tracked') + Cardinality(clashed')
    <2>1. Cardinality(tracked \cup {r}) = Cardinality(tracked) + 1 BY <1>0, AddCount
    <2> QED BY ONLY <1>2, <1>n, <1>c, <2>1
  <1>3. ASSUME NEW c \in Runs \ resumptions, NEW r \in Runs,
               tracked' = tracked \cup {r}, count' = count + 1, resumptions' = resumptions \cup {c},
               clashed' = clashed \cup {c} \/ (r \notin tracked /\ clashed' = clashed)
        PROVE  /\ count' \in Int /\ count' <= MaxConcurrent + Cardinality(resumptions')
               /\ count' <= Cardinality(tracked') + Cardinality(clashed')
    <2>1. Cardinality(resumptions \cup {c}) = Cardinality(resumptions) + 1 BY <1>0, AddCount
    <2>2. c \notin clashed BY DEF Types
    <2>3. Cardinality(clashed \cup {c}) = Cardinality(clashed) + 1 BY <1>0, <2>2, AddCount
    <2>4. /\ Cardinality(tracked \cup {r}) \in Nat
          /\ Cardinality(tracked \cup {r}) = IF r \in tracked THEN Cardinality(tracked) ELSE Cardinality(tracked) + 1
      BY <1>0, AddCount
    <2>5. count' \in Int /\ count' <= MaxConcurrent + Cardinality(resumptions')
      BY ONLY <1>3, <1>n, <1>c, <2>1
    <2>6. CASE clashed' = clashed \cup {c}
      <3>1. Cardinality(clashed') = Cardinality(clashed) + 1 BY <2>3, <2>6
      <3>2. Cardinality(tracked') \in Nat /\ Cardinality(tracked') >= Cardinality(tracked)
        BY ONLY <1>3, <1>n, <2>4
      <3> QED BY ONLY <1>3, <1>n, <1>c, <2>5, <3>1, <3>2
    <2>7. CASE r \notin tracked /\ clashed' = clashed
      <3>1. Cardinality(tracked') = Cardinality(tracked) + 1 BY <1>3, <2>4, <2>7
      <3> QED BY ONLY <1>3, <1>n, <1>c, <2>5, <2>7, <3>1
    <2> QED BY <1>3, <2>6, <2>7
  <1>4. ASSUME NEW r \in Runs, tracked' = tracked \ {r}, count' = count - 1, UNCHANGED <<resumptions, clashed>>
        PROVE  /\ count' \in Int /\ count' <= MaxConcurrent + Cardinality(resumptions')
               /\ count' <= Cardinality(tracked') + Cardinality(clashed')
    <2>1. Cardinality(tracked \ {r}) \in Nat /\ Cardinality(tracked \ {r}) >= Cardinality(tracked) - 1
      BY <1>0, ReleaseCount
    <2> QED BY ONLY <1>4, <1>n, <1>c, <2>1
  <1> QED BY <1>1, <1>2, <1>3, <1>4 DEF SlotStep

LEMMA SlotSteps == ASSUME Inv, [Next]_vars PROVE SlotStep
  <1> USE DEF SlotStep, history
  <1>1. CASE UNCHANGED vars BY <1>1 DEF vars, idVars
  <1>2. ASSUME NEW r \in Runs, Start(r) PROVE SlotStep
    <2>1. r \notin tracked BY <1>2 DEF Start, Inv, Shape, Unmade, AbsentIsBlank
    <2> QED BY <1>2, <2>1 DEF Start, Register
  <1>3. ASSUME NEW r \in Runs,
               Expire(r) \/ Pause(r) \/ Resume(r) \/ Cancel(r) \/ Starting(r) \/ Executing(r) \/ NodeSaved(r)
        PROVE  UNCHANGED <<tracked, count, resumptions, clashed>>
    BY <1>3 DEF Expire, Pause, Resume, Cancel, Starting, Launch, StartThrows, Executing, NodeBegins,
                AgentStarts, AgentStops, NodesEnd, ExecutorSettles, NodeSaved, idVars
  <1>4. ASSUME NEW r \in Runs, NEW a \in {"settle", "cancel"},
               Cleanup(r, a) \/ CleanupContinues(r, a), UNCHANGED history
        PROVE  SlotStep
    <2>1. runId[r] \in Runs /\ UNCHANGED <<resumptions, clashed>> BY <1>4 DEF Inv, Types
    <2>2. \/ UNCHANGED <<tracked, count>>
          \/ tracked' = tracked \ {runId[r]} /\ count' = count - 1
      BY <1>4 DEF Cleanup, CleanupContinues, StopAgents, Release, Free
    <2> QED BY ONLY <2>1, <2>2 DEF SlotStep
  <1>5. ASSUME NEW r \in Runs, Settling(r) PROVE SlotStep
    BY <1>4, <1>5 DEF Settling, Complete, CompletionAnnounced, HandleError, ErrorReported, CleanupContinues
  <1>6. ASSUME NEW r \in Runs, Cancelling(r) PROVE SlotStep
    BY <1>4, <1>6 DEF Cancelling, CancelContinues, CancelAnnounced, CancelThrows, CleanupContinues, idVars
  <1>7. ASSUME NEW c \in Runs, NEW r \in Runs, ResumeFromCheckpoint(c, r) PROVE SlotStep
    <2>1. c \notin resumptions BY <1>7 DEF ResumeFromCheckpoint, Inv, Shape, Unmade
    <2>2. r \in tracked => Leftovers(r) BY DEF Leftovers
    <2> QED BY <1>7, <2>1, <2>2 DEF ResumeFromCheckpoint, Register
  <1> QED BY <1>1, <1>2, <1>3, <1>5, <1>6, <1>7 DEF Next, Calls, Checkpoints

-----------------------------------------------------------------------------
LEMMA InvStep == ASSUME Inv, [Next]_vars PROVE Inv'
  <1>1. CASE UNCHANGED vars
    BY <1>1 DEF vars, idVars, callVars, history, Inv, Types, Shape, Unmade, AbsentIsBlank, Holding, Ordered,
                Untouched, Orderly, OthersAreOver, EndedFirst, FailedIsHandled, GoneIsReleased, ActiveIsTracked,
                CallsOf, Busy
  <1>2. ASSUME NEW r \in Runs, Calls(r) \/ Expire(r) PROVE Inv'
    BY <1>2, StartGood, IdGood, GoodSteps DEF Calls
  <1>3. ASSUME NEW c \in Runs, Starting(c) \/ Executing(c) \/ NodeSaved(c) \/ Settling(c) \/ Cancelling(c)
        PROVE  Inv'
    <2>1. Busy(c) /\ Worked(c) BY <1>3, StartingWorks, ExecutingWorks, SettlingWorks, CancellingWorks
    <2>2. runId[c] \in Runs BY DEF Inv, Types
    <2> QED BY <2>1, <2>2, WorkedGood, GoodSteps
  <1>4. ASSUME NEW c \in Runs, NEW r \in Runs, ResumeFromCheckpoint(c, r) PROVE Inv'
    BY <1>4, ResumptionGood
  <1> QED BY <1>1, <1>2, <1>3, <1>4 DEF Next, Checkpoints

(* The inductive invariant holds in every behaviour of the engine's runs,   *)
(* for every finite set of calls and every limit.                           *)
THEOREM Inductive == Spec => [](Inv /\ Counted)
  <1>1. Init => Inv
    BY LifecycleAssumption
    DEF Init, Inv, Types, Shape, Unmade, AbsentIsBlank, Holding, Ordered, CallsOf, Tasks, Ended, Settled, Parked
  <1>2. Init => Counted
    BY LifecycleAssumption, FS_EmptySet DEF Init, Counted, NoPhantomSlot
  <1>3. Inv /\ Counted /\ [Next]_vars => (Inv /\ Counted)'
    BY InvStep, SlotSteps, StillCounted DEF Inv
  <1> QED BY <1>1, <1>2, <1>3, PTL DEF Spec

(* The types, and the limit: activeWorkflowCount exceeds                    *)
(* maxConcurrentWorkflows by no more than the calls of resumeFromCheckpoint, *)
(* which do not look at it.                                                 *)
THEOREM TypeCorrect == Spec => []TypeOK
  <1>1. Inv /\ Counted => TypeOK BY DEF Inv, Types, Counted, TypeOK
  <1> QED BY <1>1, Inductive, PTL

(* activeWorkflowCount never stands above the runs that hold a slot, in any *)
(* interleaving of cleanups, but for one slot per resumption over leftovers. *)
THEOREM NoSlotLeaksIntoTheLimit == Spec => []NoPhantomSlot
  <1>1. Counted => NoPhantomSlot BY DEF Counted
  <1> QED BY <1>1, Inductive, PTL

(* Every run that says it is running or paused can still be cancelled,      *)
(* unless it was resumed while something of its earlier life was left.      *)
THEOREM ActiveRunsStayCancellable == Spec => []ActiveIsCancellable
  <1>1. Inv => ActiveIsCancellable
    BY DEF Inv, Ordered, Orderly, ActiveIsTracked, ActiveIsCancellable
  <1> QED BY <1>1, Inductive, PTL

(* No run is dropped from the runs map while it still holds its slot, with   *)
(* the same exception: the retention timer of an earlier life does that to a *)
(* resumed run.                                                             *)
THEOREM RetentionFollowsRelease == Spec => []ForgottenIsReleased
  <1>1. Inv => ForgottenIsReleased
    BY DEF Inv, Ordered, Orderly, GoneIsReleased, ForgottenIsReleased
  <1> QED BY <1>1, Inductive, PTL

\* What a step does to a status: nothing, end or forget it, or, of a run that
\* has not ended, pause, resume or start it; the rest is resumption.
StatusStep ==
  \/ status' = status
  \/ \E r \in Runs : /\ status[r] \notin Ended
                     /\ \E s \in {"running", "paused"} : status' = [status EXCEPT ![r] = s]
  \/ \E r \in Runs : \E s \in Ended \cup {"forgotten"} : status' = [status EXCEPT ![r] = s]
  \/ \E c \in Runs, r \in Runs : /\ status' = [status EXCEPT ![r] = "running"]
                                 /\ c \in resumptions' \ resumptions /\ runId'[c] = r

LEMMA StatusSteps == ASSUME Inv, [Next]_vars PROVE StatusStep
  <1> USE DEF StatusStep, SetStatus, Ended
  <1>0. \A c \in Runs : runId[c] \in Runs BY DEF Inv, Types
  <1>1. CASE UNCHANGED vars BY <1>1 DEF vars, idVars
  <1>2. ASSUME NEW r \in Runs, Calls(r) \/ Expire(r) PROVE StatusStep
    <2>1. CASE Start(r)
      <3>1. status[r] = "absent" BY <2>1 DEF Start, Inv, Shape, Unmade
      <3> QED BY <2>1, <3>1 DEF Start, Register
    <2>2. CASE Pause(r) BY <2>2 DEF Pause
    <2>3. CASE Resume(r) BY <2>3 DEF Resume
    <2>4. CASE Cancel(r) BY <2>4 DEF Cancel
    <2>5. CASE Expire(r) BY <2>5 DEF Expire
    <2> QED BY <1>2, <2>1, <2>2, <2>3, <2>4, <2>5 DEF Calls
  <1>3. ASSUME NEW r \in Runs, Starting(r) \/ Executing(r) \/ NodeSaved(r) \/ Cancelling(r) PROVE status' = status
    BY <1>3 DEF Starting, Launch, StartThrows, Executing, NodeBegins, AgentStarts, AgentStops, NodesEnd,
                ExecutorSettles, NodeSaved, Cancelling, CancelContinues, CancelAnnounced, CancelThrows,
                CleanupContinues, idVars
  <1>4. ASSUME NEW r \in Runs, Complete(r) PROVE StatusStep BY <1>0, <1>4 DEF Complete
  <1>5. ASSUME NEW r \in Runs, HandleError(r) PROVE StatusStep BY <1>0, <1>5 DEF HandleError, EnterError
  <1>6. ASSUME NEW r \in Runs, CompletionAnnounced(r) \/ ErrorReported(r) \/ CleanupContinues(r, "settle")
        PROVE  status' = status
    BY <1>6 DEF CompletionAnnounced, ErrorReported, CleanupContinues
  <1>7. ASSUME NEW c \in Runs, NEW r \in Runs, ResumeFromCheckpoint(c, r) PROVE StatusStep
    <2>1. c \notin resumptions /\ runId'[c] = r
      BY <1>7 DEF ResumeFromCheckpoint, Inv, Shape, Unmade, Types
    <2> QED BY <1>7, <2>1 DEF ResumeFromCheckpoint, Register
  <1> QED BY <1>1, <1>2, <1>3, <1>4, <1>5, <1>6, <1>7 DEF Next, Settling, Checkpoints

(* No call but resumeFromCheckpoint for that id, and no late callback, makes *)
(* an ended run active again, also when it was resumed over leftovers        *)
(* (pauseWorkflow, resumeWorkflow, cancelWorkflow and the settle handlers). *)
THEOREM NoRevival == Spec => EndedStaysEnded
  <1>1. ASSUME Inv, [Next]_vars
        PROVE  [\A r \in Runs : status[r] \in Ended
                  => \/ status'[r] \in Ended \cup {"forgotten"}
                     \/ \E c \in resumptions' \ resumptions : runId'[c] = r]_vars
    <2>1. StatusStep BY <1>1, StatusSteps
    <2>2. status \in [Runs -> {"absent", "running", "paused", "forgotten"} \cup Ended]
      BY <1>1 DEF Inv, Types
    <2> QED BY ONLY <2>1, <2>2 DEF StatusStep, Ended
  <1>2. Inv /\ [Next]_vars
        => [\A r \in Runs : status[r] \in Ended
              => \/ status'[r] \in Ended \cup {"forgotten"}
                 \/ \E c \in resumptions' \ resumptions : runId'[c] = r]_vars
    BY <1>1
  <1> QED BY <1>2, Inductive, PTL DEF Spec, EndedStaysEnded

(* completeWorkflow and cancelWorkflow never overwrite a failure, of an id    *)
(* that was not resumed over leftovers.                                     *)
THEOREM FailureIsFinal == Spec => FailedIsFinal
  <1>1. ASSUME Inv, [Next]_vars, NEW r \in Runs, Untouched(r)', status[r] = "failed",
               status'[r] \notin {"failed", "forgotten"}
        PROVE  \E c \in resumptions' \ resumptions : runId'[c] = r
    <2>t. Types BY <1>1 DEF Inv
    <2>1. CASE UNCHANGED vars BY <1>1, <2>1 DEF vars, idVars
    <2>2. ASSUME NEW q \in Runs, Calls(q) \/ Expire(q) PROVE FALSE
      <3>1. status' = [status EXCEPT ![q] = "forgotten"] \/ status[q] \in {"absent", "running", "paused"}
        BY <1>1, <2>2 DEF Calls, Start, Register, Pause, Resume, Cancel, Expire, SetStatus, Inv, Shape, Unmade
      <3>2. \E s \in {"running", "paused", "cancelled", "forgotten"} : status' = [status EXCEPT ![q] = s]
        BY <2>2 DEF Calls, Start, Register, Pause, Resume, Cancel, Expire, SetStatus
      <3> QED BY ONLY <3>1, <3>2, <2>t, <1>1 DEF Types
    <2>3. ASSUME NEW c \in Runs, Starting(c) \/ Executing(c) \/ NodeSaved(c) \/ Settling(c) \/ Cancelling(c)
          PROVE  FALSE
      <3>1. Busy(c) /\ Worked(c)
        BY <1>1, <2>3, StartingWorks, ExecutingWorks, SettlingWorks, CancellingWorks
      <3>2. runId[c] = r BY <1>1, <3>1 DEF Worked
      <3>3. Untouched(r) BY <1>1, <3>1 DEF Worked, Untouched
      <3>4. c = holder[r] /\ Orderly(r) BY <1>1, <2>t, <3>1, <3>2, <3>3, LastCall DEF Inv
      <3>5. task[c]["settle"] # "idle" BY <1>1, <3>4 DEF Orderly, FailedIsHandled
      <3>6. ~Complete(c) BY <3>5 DEF Complete
      <3>7. CASE Settling(c)
        <4>1. status' = status \/ status' = [status EXCEPT ![r] = "failed"]
          BY <3>2, <3>6, <3>7 DEF Settling, CompletionAnnounced, HandleError, EnterError, SetStatus,
                                   ErrorReported, CleanupContinues
        <4> QED BY ONLY <4>1, <2>t, <1>1 DEF Types
      <3>8. CASE Starting(c) \/ Executing(c) \/ NodeSaved(c) \/ Cancelling(c)
        <4>1. status' = status
          BY <3>8 DEF Starting, Launch, StartThrows, Executing, NodeBegins, AgentStarts, AgentStops, NodesEnd,
                ExecutorSettles, NodeSaved, Cancelling, CancelContinues, CancelAnnounced, CancelThrows,
                CleanupContinues, idVars
        <4> QED BY <4>1, <1>1
      <3> QED BY <2>3, <3>7, <3>8
    <2>4. ASSUME NEW c \in Runs, NEW q \in Runs, ResumeFromCheckpoint(c, q)
          PROVE  \E d \in resumptions' \ resumptions : runId'[d] = r
      <3>1. c \in resumptions' \ resumptions /\ runId'[c] = q
        BY <1>1, <2>4, <2>t DEF ResumeFromCheckpoint, Inv, Shape, Unmade, Types
      <3>2. status' = [status EXCEPT ![q] = "running"]
        BY <2>4 DEF ResumeFromCheckpoint, Register, SetStatus
      <3>3. q = r BY ONLY <3>2, <2>t, <1>1, q \in Runs DEF Types
      <3> QED BY <3>1, <3>3
    <2> QED BY <1>1, <2>1, <2>2, <2>3, <2>4 DEF Next, Checkpoints
  <1>2. Inv /\ [Next]_vars
        => [\A r \in Runs : Untouched(r)' /\ status[r] = "failed"
              => \/ status'[r] \in {"failed", "forgotten"}
                 \/ \E c \in resumptions' \ resumptions : runId'[c] = r]_vars
    BY <1>1
  <1> QED BY <1>2, Inductive, PTL DEF Spec, FailedIsFinal

-----------------------------------------------------------------------------
(* The facade.  Each of its steps is a step of the engine or leaves it alone, *)
(* so what was proved of the engine's runs holds under the facade as well.    *)
LEMMA FacadeStep == ASSUME [RuntimeNext]_runtimeVars PROVE [Next]_vars
  <1>1. CASE UNCHANGED runtimeVars BY <1>1 DEF runtimeVars
  <1>2. CASE StartFacade \/ Stop \/ StopEnds
    BY <1>2 DEF StartFacade, Stop, StopEnds
  <1>3. ASSUME NEW r \in Runs, FacadeCalls(r) \/ EngineCalls(r) PROVE Next
    BY <1>3 DEF FacadeCalls, EngineCalls, RunWorkflow, PauseWorkflow, ResumeWorkflow, CancelWorkflow, Next, Calls
  <1>4. ASSUME NEW r \in Runs, StopLooksAt(r) \/ StopContinues(r) PROVE [Next]_vars
    BY <1>4 DEF StopLooksAt, StopContinues, Next, Calls
  <1>5. ASSUME NEW r \in Runs, Engine(r) PROVE Next
    BY <1>5 DEF Engine, Next
  <1> QED BY <1>1, <1>2, <1>3, <1>4, <1>5 DEF RuntimeNext

(* An engine behind the facade behaves as one that is called at will: start   *)
(* and stop add no step of their own to its runs.                             *)
THEOREM FacadeIsACaller == RuntimeSpec => Spec
  <1>1. RuntimeInit => Init BY DEF RuntimeInit
  <1>2. [RuntimeNext]_runtimeVars => [Next]_vars BY FacadeStep
  <1> QED BY <1>1, <1>2, PTL DEF RuntimeSpec, Spec

(* Behind the facade nothing is resumed from a checkpoint, so the limit and   *)
(* the account of the slots are exact.                                      *)
FacadeCounts == ~direct => count <= MaxConcurrent /\ count <= Cardinality(tracked)

Behind == ~direct => resumptions = {}

LEMMA BehindKept == ASSUME Behind, [RuntimeNext]_runtimeVars PROVE Behind' /\ direct' = direct
  <1>1. CASE UNCHANGED runtimeVars BY <1>1 DEF runtimeVars, facadeVars, vars, history, Behind
  <1>2. CASE StartFacade \/ Stop \/ StopEnds
    BY <1>2 DEF StartFacade, Stop, StopEnds, vars, history, Behind
  <1>3. ASSUME NEW r \in Runs, ~direct, FacadeCalls(r) PROVE Behind' /\ direct' = direct
    BY <1>3 DEF FacadeCalls, RunWorkflow, PauseWorkflow, ResumeWorkflow, CancelWorkflow, Start, Pause, Resume,
                Cancel, facadeVars, history, Behind
  <1>4. ASSUME NEW r \in Runs, direct, EngineCalls(r) PROVE Behind' /\ direct' = direct
    BY <1>4 DEF EngineCalls, facadeVars, Behind
  <1>5. ASSUME NEW r \in Runs, StopLooksAt(r) \/ StopContinues(r) PROVE Behind' /\ direct' = direct
    BY <1>5 DEF StopLooksAt, StopContinues, Cancel, vars, history, Behind
  <1>6. ASSUME NEW r \in Runs, Engine(r) PROVE Behind' /\ direct' = direct
    BY <1>6 DEF Engine, Starting, Launch, StartThrows, Executing, NodeBegins, AgentStarts, AgentStops, NodesEnd,
                ExecutorSettles, Settling, Complete, CompletionAnnounced, HandleError, ErrorReported,
                Cancelling, CancelContinues, CancelAnnounced, CancelThrows, CleanupContinues, Expire,
                facadeVars, history, Behind
  <1> QED BY <1>1, <1>2, <1>3, <1>4, <1>5, <1>6 DEF RuntimeNext

(* Under the facade activeWorkflowCount exceeds neither                      *)
(* maxConcurrentWorkflows nor the number of runs that hold a slot.           *)
THEOREM FacadeKeepsTheLimit == RuntimeSpec => []FacadeCounts
  <1>1. RuntimeInit => Behind BY DEF RuntimeInit, Init, Behind
  <1>2. Behind /\ [RuntimeNext]_runtimeVars => Behind' BY BehindKept
  <1>3. ASSUME Inv, Counted, Behind PROVE FacadeCounts
    <2>1. CASE direct BY <2>1 DEF FacadeCounts
    <2>2. CASE ~direct
      <3>1. resumptions = {} /\ clashed = {} BY <1>3, <2>2 DEF Behind, Inv, Types
      <3>2. IsFiniteSet(tracked) BY <1>3, LifecycleAssumption, FS_Subset DEF Inv, Types
      <3>3. Cardinality(resumptions) = 0 /\ Cardinality(clashed) = 0 /\ Cardinality(tracked) \in Nat
        BY <3>1, <3>2, FS_EmptySet, FS_CardinalityType
      <3> QED BY <1>3, <3>3, LifecycleAssumption DEF Counted, NoPhantomSlot, FacadeCounts
    <2> QED BY <2>1, <2>2
  <1> QED BY <1>1, <1>2, <1>3, FacadeIsACaller, Inductive, PTL DEF RuntimeSpec

(* A run is running only as the result of startWorkflow or resumeWorkflow.    *)
LEMMA WhoRuns ==
  ASSUME Inv, NEW r \in Runs, NEW q \in Runs, status[q] # "running",
         \/ Pause(r) \/ Cancel(r) \/ Starting(r) \/ Executing(r) \/ Settling(r) \/ Cancelling(r) \/ Expire(r)
  PROVE  status'[q] # "running"
  <1>1. /\ status \in [Runs -> {"absent", "running", "paused", "forgotten"} \cup Ended]
        /\ runId[r] \in Runs
    BY DEF Inv, Types
  <1>2. CASE Pause(r) BY <1>1, <1>2 DEF Pause, SetStatus
  <1>3. CASE Cancel(r) BY <1>1, <1>3 DEF Cancel, SetStatus
  <1>4. CASE Expire(r) BY <1>1, <1>4 DEF Expire, SetStatus
  <1>5. CASE Starting(r) \/ Executing(r) \/ Cancelling(r)
    BY <1>5 DEF Starting, Launch, StartThrows, Executing, NodeBegins, AgentStarts, AgentStops, NodesEnd,
                ExecutorSettles, Cancelling, CancelContinues, CancelAnnounced, CancelThrows, CleanupContinues, idVars
  <1>6. CASE Complete(r) BY <1>1, <1>6 DEF Complete, SetStatus
  <1>7. CASE HandleError(r) BY <1>1, <1>7 DEF HandleError, EnterError, SetStatus
  <1>8. CASE CompletionAnnounced(r) \/ ErrorReported(r) \/ CleanupContinues(r, "settle")
    BY <1>8 DEF CompletionAnnounced, ErrorReported, CleanupContinues
  <1> QED BY <1>2, <1>3, <1>4, <1>5, <1>6, <1>7, <1>8 DEF Settling

(* While a stop is under way, or is over and nobody has started again, every *)
(* running run is one it will still look at or one resumed behind its back.   *)
StopInv ==
  /\ direct => stopAt = "idle"
  /\ (facade = "stopped" /\ stopAt \in {"cancelling", "done"}) =>
       \A q \in Runs : status[q] = "running" => q \in todo \cup resumed
  /\ stopAt = "done" => todo = {}

LEMMA StopInvKept == ASSUME Inv, Behind, StopInv, [RuntimeNext]_runtimeVars PROVE StopInv'
  <1>0. status \in [Runs -> {"absent", "running", "paused", "forgotten"} \cup Ended]
    BY DEF Inv, Types
  <1>d. direct' = direct BY BehindKept
  <1> USE DEF idVars
  <1>1. CASE UNCHANGED runtimeVars BY <1>1 DEF runtimeVars, facadeVars, vars, StopInv
  <1>2. CASE StartFacade BY <1>2 DEF StartFacade, StopInv, vars
  <1>3. CASE Stop BY <1>3 DEF Stop, StopInv, vars
  <1>4. CASE StopEnds BY <1>4 DEF StopEnds, StopInv, vars
  <1>5. ASSUME NEW r \in Runs, RunWorkflow(r) PROVE StopInv'
    BY <1>5 DEF RunWorkflow, StopInv, facadeVars
  <1>6. ASSUME NEW r \in Runs, ResumeWorkflow(r) PROVE StopInv'
    <2>1. \A q \in Runs : status'[q] = "running" => status[q] = "running" \/ q = r
      BY <1>0, <1>6 DEF ResumeWorkflow, Resume, SetStatus
    <2> QED BY <1>6, <2>1 DEF ResumeWorkflow, StopInv
  <1>7. ASSUME NEW r \in Runs, PauseWorkflow(r) \/ CancelWorkflow(r) \/ Engine(r) PROVE StopInv'
    <2>1. \A q \in Runs : status'[q] = "running" => status[q] = "running"
      BY <1>7, WhoRuns DEF PauseWorkflow, CancelWorkflow, Engine
    <2>2. UNCHANGED facadeVars BY <1>7 DEF PauseWorkflow, CancelWorkflow, Engine
    <2> QED BY <2>1, <2>2 DEF StopInv, facadeVars
  <1>10. ASSUME NEW r \in Runs, direct, EngineCalls(r) PROVE StopInv'
    BY <1>10 DEF EngineCalls, StopInv, facadeVars
  <1>8. ASSUME NEW r \in Runs, StopLooksAt(r) PROVE StopInv'
    <2>1. CASE status[r] = "running"
      <3>1. \A q \in Runs : status'[q] = "running" => status[q] = "running" /\ q # r
        BY <1>0, <1>8, <2>1 DEF StopLooksAt, Cancel, SetStatus
      <3> QED BY <1>8, <3>1 DEF StopLooksAt, StopInv
    <2>2. CASE status[r] # "running"
      BY <1>8, <2>2 DEF StopLooksAt, StopInv, vars
    <2> QED BY <2>1, <2>2
  <1>9. ASSUME NEW r \in Runs, StopContinues(r) PROVE StopInv'
    BY <1>9 DEF StopContinues, StopInv, vars
  <1> QED BY <1>1, <1>2, <1>3, <1>4, <1>5, <1>6, <1>7, <1>8, <1>9, <1>10 DEF RuntimeNext, FacadeCalls

(* Runtime.stop over the active runs: when it has returned, and nobody started *)
(* the facade meanwhile, only runs that were resumed behind it are running,   *)
(* for any number of runs and any interleaving with their tasks.              *)
THEOREM StopIsThorough == RuntimeSpec => []StopLeavesNothingRunning
  <1>1. RuntimeInit => Behind /\ StopInv BY DEF RuntimeInit, Init, Behind, StopInv
  <1>2. Inv /\ Behind /\ StopInv /\ [RuntimeNext]_runtimeVars => (Behind /\ StopInv)' BY BehindKept, StopInvKept
  <1>3. StopInv => StopLeavesNothingRunning BY DEF StopInv, StopLeavesNothingRunning
  <1> QED BY <1>1, <1>2, <1>3, FacadeIsACaller, Inductive, PTL DEF RuntimeSpec
=====================================================================================================================================
