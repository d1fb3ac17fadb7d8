------------------------------ MODULE EventBus ------------------------------
(***************************************************************************)
(* The event bus and its store (packages/core/src/event/bus.ts, store.ts): *)
(* events are stored, then broadcast; the subscribers of a pattern are      *)
(* counted against a limit; a reader catches up by replaying the store.     *)
(*                                                                         *)
(* An event is a number, and its timestamp is taken when it is created: the *)
(* order of the timestamps is not that of the rows.  One pattern is         *)
(* modelled; the patterns share nothing.  Subscriptions are numbered.       *)
(***************************************************************************)
EXTENDS Integers, Sequences, FiniteSets, Functions, TLC

CONSTANTS
  MaxListeners,  \* maxListenersPerPattern
  Overflows,     \* the overflow behaviours configured
  Timestamp,     \* the timestamp of each event, events created later having no earlier one
  MaxSubscribes  \* bound on the calls of subscribe

VARIABLES
  overflow,   \* the overflow behaviour
  listeners,  \* the listeners of the emitter, oldest first
  tracked,    \* patternListeners, oldest first
  count,      \* listenerCounts
  issued,     \* the subscriptions whose unsubscribe function callers hold
  refused,    \* the subscriptions refused
  created,    \* the events created and not yet appended
  rows,       \* the events stored, in the order of their rowids
  seen,       \* the events the reader was given
  lastSeen,   \* the last event the reader was given, 0 for none
  reading,    \* the replay it reads: none, from the start (in time order), after an event (in row order)
  fetched,    \* the events that replay has still to yield
  partWay     \* for the property only: the reader is in, or went on from the middle of, one from the start

subscriptionVars == <<overflow, listeners, tracked, count, issued, refused>>
readerVars       == <<seen, lastSeen, reading, fetched, partWay>>
storeVars        == <<created, rows, readerVars>>
busVars          == <<subscriptionVars, storeVars>>

Events == DOMAIN Timestamp

Init ==
  /\ overflow \in Overflows /\ listeners = <<>> /\ tracked = <<>> /\ count = 0
  /\ issued = {} /\ refused = {}
  /\ created = {} /\ rows = <<>>
  /\ seen = {} /\ lastSeen = 0 /\ reading = "none" /\ fetched = <<>> /\ partWay = FALSE

-----------------------------------------------------------------------------
\* emitter.off, and splice at indexOf: a listener is there once or not at all.
Off(ls, i) == SelectSeq(ls, LAMBDA l : l # i)

(* subscribe, at the limit, throws, rejects or drops the oldest listener.   *)
Added(i, heard, ls, n) ==
  /\ listeners' = Append(heard, i) /\ tracked' = Append(ls, i) /\ count' = n + 1
  /\ issued' = issued \cup {i} /\ UNCHANGED refused

Subscribe ==
  LET i == Cardinality(issued) + Cardinality(refused) + 1 IN
  /\ i <= MaxSubscribes
  /\ IF count < MaxListeners THEN Added(i, listeners, tracked, count)
     ELSE IF overflow # "drop-oldest"
     THEN refused' = refused \cup {i} /\ UNCHANGED <<listeners, tracked, count, issued>>
     ELSE IF tracked = <<>> THEN Added(i, listeners, tracked, count)
     ELSE Added(i, Off(listeners, Head(tracked)), Tail(tracked), count - 1)
  /\ UNCHANGED <<overflow, storeVars>>

\* The function returned may be called again, or after the listener was dropped.
Unsubscribe_Leaks(i) ==
  /\ i \in issued
  /\ listeners' = Off(listeners, i) /\ tracked' = Off(tracked, i) /\ UNCHANGED count
  /\ UNCHANGED <<overflow, issued, refused, storeVars>>

Unsubscribe(i) ==
  /\ i \in issued
  /\ listeners' = Off(listeners, i) /\ tracked' = Off(tracked, i)
  /\ count' = IF count = 0 THEN 0 ELSE count - 1
  /\ UNCHANGED <<overflow, issued, refused, storeVars>>

-----------------------------------------------------------------------------
(* createEvent takes the timestamp; publish appends when its caller gets to  *)
(* it, or throws when the store does.                                       *)
CreateEvent ==
  /\ \E e \in Events : /\ e \notin created \cup Range(rows) /\ \A f \in 1..(e - 1) : f \in created \cup Range(rows)
                       /\ created' = created \cup {e}
  /\ UNCHANGED <<subscriptionVars, rows, readerVars>>

Publish(e) ==
  /\ e \in created /\ created' = created \ {e} /\ rows' = Append(rows, e)
  /\ UNCHANGED <<subscriptionVars, readerVars>>

(* getEvents orders by timestamp and leaves the order within a millisecond   *)
(* open; getEventsAfter orders by rowid.                                     *)
GetEvents ==
  {events \in [1..Len(rows) -> Range(rows)] :
     /\ Range(events) = Range(rows)
     /\ \A i, j \in 1..Len(rows) : i < j => Timestamp[events[i]] <= Timestamp[events[j]]}

GetEventsAfter_ByTime(e) ==
  SortSeq(SelectSeq(rows, LAMBDA f : Timestamp[f] > Timestamp[e]), LAMBDA f, g : Timestamp[f] < Timestamp[g])

GetEventsAfter(e) ==
  LET rowid == CHOOSE r \in DOMAIN rows : rows[r] = e IN SubSeq(rows, rowid + 1, Len(rows))

(* replay is a generator: it fetches the events once, yields them one by one, *)
(* and its reader may leave it before the end.                              *)
Fetch(kind, events) ==
  /\ reading = "none" /\ events # <<>> /\ reading' = kind /\ fetched' = events
  /\ UNCHANGED <<subscriptionVars, created, rows, seen, lastSeen, partWay>>

ReplayFromStart == \E events \in GetEvents : Fetch("start", events)

ReplayFrom == lastSeen # 0 /\ Fetch("after", GetEventsAfter(lastSeen))

YieldEvent ==
  /\ reading # "none" /\ fetched' = Tail(fetched) /\ reading' = IF Len(fetched) = 1 THEN "none" ELSE reading
  /\ lastSeen' = Head(fetched) /\ seen' = seen \cup {Head(fetched)}
  /\ partWay' = IF reading = "start" THEN Len(fetched) > 1 ELSE partWay
  /\ UNCHANGED <<subscriptionVars, created, rows>>

LeaveReplay ==
  /\ reading # "none" /\ reading' = "none" /\ fetched' = <<>>
  /\ UNCHANGED <<subscriptionVars, created, rows, seen, lastSeen, partWay>>

BusNext ==
  \/ Subscribe \/ CreateEvent \/ ReplayFromStart \/ ReplayFrom \/ YieldEvent \/ LeaveReplay
  \/ \E i \in issued : Unsubscribe(i)
  \/ \E e \in created : Publish(e)

Spec == Init /\ [][BusNext]_busVars

-----------------------------------------------------------------------------
(* Nobody is refused for subscriptions that have gone: whatever is           *)
(* unsubscribed once or twice or was dropped, the count never exceeds the    *)
(* listeners there are.                                                     *)
CountIsOfListeners == count <= Len(listeners)

(* Catching up misses nothing: a reader that read a replay from the start to  *)
(* its end, and went on from its last event as often as it liked, leaving     *)
(* those replays wherever it liked, was given all the rows up to that event,   *)
(* although the first replay and the later ones follow different orders and   *)
(* rows are added while it reads.                                           *)
CatchUpMissesNothing ==
  lastSeen # 0 /\ ~partWay =>
    \A r \in DOMAIN rows : rows[r] = lastSeen => Range(SubSeq(rows, 1, r)) \subseteq seen

-----------------------------------------------------------------------------
(* What the code does not keep: the limit (an unsubscribe function called    *)
(* twice takes the place of another listener in the count).                 *)
LimitOfListeners == Len(listeners) <= MaxListeners

(* ... and the events of a reader that leaves a replay from the start part way *)
(* and goes on from its last event: rows before it with a later timestamp      *)
(* are yielded by neither replay.                                           *)
PartialReplayMissesNothing ==
  lastSeen # 0 /\ reading = "none" =>
    \A r \in DOMAIN rows : rows[r] = lastSeen => Range(SubSeq(rows, 1, r)) \subseteq seen
=============================================================================
