-------------------------------- MODULE A2A --------------------------------
(***************************************************************************)
(* Agent to agent (packages/mcp/src/a2a-server.ts, a2a-client.ts): the     *)
(* server's task table, the handlers that work on the tasks, the server-   *)
(* sent events of its subscribers, and the client that calls it.           *)
(*                                                                         *)
(* A request of the client may be given up by its timer and still reach    *)
(* the server.  The task handler is external: it takes any time, changes    *)
(* the task only with its answer, and ends with a terminal status or        *)
(* fails.  The stream of a subscriber is a sequence of lines: the line of   *)
(* data of an event and the empty line that ends it; the network may cut    *)
(* it anywhere, and the buffer of the reader joins a line that was cut.     *)
(***************************************************************************)
EXTENDS Integers, Sequences, FiniteSets, SequencesExt

CONSTANTS
  TaskIds,      \* the task ids of the requests
  Subscribers,  \* the connections that subscribe
  MaxTasks,     \* maxTasks of the server
  MaxRequests   \* bound on the requests the client sends

VARIABLES
  up,         \* the server listens
  table,      \* tasks: the status of each task, or "none"
  taskHandler, \* was a task handler set?
  handlers,   \* the handlers at work: task and number
  sseClients, \* for each task its listed subscribers
  stream,     \* the open stream of each subscriber: its task or "none"
  lines,      \* the lines written to each stream and not yet read
  shown,      \* the last event each subscriber was given
  requests,   \* the requests on their way to the server
  nextRequestId,
  unheard     \* for the properties only: the tasks last sent while no handler was set

serverVars == <<up, table, taskHandler, handlers, sseClients, unheard>>
streamVars == <<stream, lines, shown>>
callVars   == <<requests, nextRequestId>>
a2aVars    == <<serverVars, streamVars, callVars>>

Terminal == {"completed", "failed", "cancelled"}
Present  == {t \in TaskIds : table[t] # "none"}

Init ==
  /\ up = TRUE /\ table = [t \in TaskIds |-> "none"] /\ handlers = {}
  /\ taskHandler = FALSE /\ unheard = {}
  /\ sseClients = [t \in TaskIds |-> {}] /\ stream = [c \in Subscribers |-> "none"]
  /\ lines = [c \in Subscribers |-> <<>>] /\ shown = [c \in Subscribers |-> "none"]
  /\ requests = {} /\ nextRequestId = 1

-----------------------------------------------------------------------------
(* The client: an id for each call.  The timer of the fetch gives up the     *)
(* call, and with it the request or only its answer.                        *)
RpcCall(method) ==
  /\ nextRequestId <= MaxRequests /\ nextRequestId' = nextRequestId + 1
  /\ \E t \in TaskIds : requests' = requests \cup {[id |-> nextRequestId, method |-> method, task |-> t]}
  /\ UNCHANGED <<serverVars, streamVars>>

FetchTimesOut(r) ==
  /\ requests' = requests \ {r}
  /\ UNCHANGED <<serverVars, streamVars, nextRequestId>>

-----------------------------------------------------------------------------
(* The server.                                                              *)
SetTaskHandler ==
  /\ taskHandler' = TRUE
  /\ UNCHANGED <<up, table, handlers, sseClients, unheard, streamVars, callVars>>

Event(s) == <<[kind |-> "data", status |-> s], [kind |-> "blank", status |-> s]>>

NotifySubscribers(t, s, listed) ==
  lines' = [c \in Subscribers |-> IF c \in listed THEN lines[c] \o Event(s) ELSE lines[c]]

\* evictStaleTasks: terminal tasks go once the table is over its limit, the
\* expired ones in any case and the oldest until the limit holds again.
EvictStaleTasks(tab, gone) ==
  LET present  == {t \in TaskIds : tab[t] # "none"}
      terminal == {t \in present : tab[t] \in Terminal}
  IN  IF Cardinality(present) <= MaxTasks THEN gone = {}
      ELSE /\ gone \subseteq terminal
           /\ gone = terminal \/ Cardinality(present \ gone) <= MaxTasks

\* The task is handed to the handler, if there is one: without, it stays as it is.
Work(r) ==
  IF taskHandler
  THEN handlers' = handlers \cup {[task |-> r.task, no |-> r.id]} /\ unheard' = unheard \ {r.task}
  ELSE unheard' = unheard \cup {r.task} /\ UNCHANGED handlers

HandleTaskSend_NewOnly(r) ==
  LET tab == [table EXCEPT ![r.task] = "working"] IN
  \E gone \in SUBSET TaskIds :
    /\ EvictStaleTasks(tab, gone)
    /\ table' = [t \in TaskIds |-> IF t \in gone THEN "none" ELSE tab[t]]
    /\ sseClients' = [t \in TaskIds |-> IF t \in gone THEN {} ELSE sseClients[t]]
    /\ NotifySubscribers(r.task, "working", sseClients'[r.task])
    /\ IF table[r.task] # "none" THEN UNCHANGED <<handlers, unheard>> ELSE Work(r)

HandleTaskSend(r) ==
  LET tab == [table EXCEPT ![r.task] = "working"] IN
  \E gone \in SUBSET TaskIds :
    /\ EvictStaleTasks(tab, gone)
    /\ table' = [t \in TaskIds |-> IF t \in gone THEN "none" ELSE tab[t]]
    /\ sseClients' = [t \in TaskIds |-> IF t \in gone THEN {} ELSE sseClients[t]]
    /\ NotifySubscribers(r.task, "working", sseClients'[r.task])
    /\ Work(r)

HandleTaskGet(r) == UNCHANGED <<table, handlers, sseClients, lines, unheard>>

HandleTaskCancel(r) ==
  /\ IF table[r.task] = "none" THEN UNCHANGED <<table, lines>>
     ELSE /\ table' = [table EXCEPT ![r.task] = "cancelled"]
          /\ NotifySubscribers(r.task, "cancelled", sseClients[r.task])
  /\ UNCHANGED <<handlers, sseClients, unheard>>

\* A body that cannot be read or parsed, or without a method, changes nothing either.
HandleJsonRpc(r) ==
  /\ up /\ requests' = requests \ {r} /\ UNCHANGED nextRequestId
  /\ \/ r.method = "send"    /\ HandleTaskSend(r)
     \/ r.method = "get"     /\ HandleTaskGet(r)
     \/ r.method = "cancel"  /\ HandleTaskCancel(r)
     \/ r.method = "unknown" /\ UNCHANGED <<table, handlers, sseClients, lines, unheard>>
  /\ UNCHANGED <<up, taskHandler, stream, shown>>

\* The handler's answer replaces the entry, whatever became of it meanwhile.
HandlerDone_IfPresent(h, s) ==
  /\ table' = [table EXCEPT ![h.task] = s]
  /\ IF table[h.task] # "cancelled" THEN NotifySubscribers(h.task, s, sseClients[h.task])
     ELSE UNCHANGED lines

HandlerDone(h, s) ==
  /\ table' = [table EXCEPT ![h.task] = s]
  /\ NotifySubscribers(h.task, s, sseClients[h.task])

HandlerAnswers(h) ==
  /\ handlers' = handlers \ {h}
  /\ \E s \in Terminal : HandlerDone(h, s)
  /\ UNCHANGED <<up, taskHandler, sseClients, unheard, stream, shown, callVars>>

HandlerThrows(h) ==
  /\ handlers' = handlers \ {h} /\ HandlerDone(h, "failed")
  /\ UNCHANGED <<up, taskHandler, sseClients, unheard, stream, shown, callVars>>

Stop ==
  /\ up /\ up' = FALSE
  /\ sseClients' = [t \in TaskIds |-> {}] /\ stream' = [c \in Subscribers |-> "none"]
  /\ UNCHANGED <<table, taskHandler, handlers, unheard, lines, shown, callVars>>

Start == ~up /\ up' = TRUE /\ UNCHANGED <<table, taskHandler, handlers, sseClients, unheard, streamVars, callVars>>

-----------------------------------------------------------------------------
(* Subscriptions: the connection at the server and the reader at the client. *)
HandleTaskSubscribe(c, t) ==
  /\ up /\ stream[c] = "none" /\ lines[c] = <<>> /\ stream' = [stream EXCEPT ![c] = t]
  /\ sseClients' = [sseClients EXCEPT ![t] = @ \cup {c}]
  /\ lines' = [lines EXCEPT ![c] = IF table[t] = "none" THEN @ ELSE @ \o Event(table[t])]
  /\ UNCHANGED <<up, table, taskHandler, handlers, unheard, shown, callVars>>

\* The reader takes a chunk; an event whose two lines it holds is yielded.
SubscribeTask(c) ==
  /\ \E k \in 1..Len(lines[c]) :
       LET whole == {i \in 2..k : lines[c][i].kind = "blank"}
       IN  /\ lines' = [lines EXCEPT ![c] = SubSeq(@, k + 1, Len(@))]
           /\ shown' = [shown EXCEPT ![c] = IF whole = {} THEN @ ELSE lines[c][Max(whole)].status]
  /\ UNCHANGED <<serverVars, stream, callVars>>

\* The idle timer, the consumer or the network ends the stream: cleanup.
StreamCloses(c) ==
  /\ stream[c] # "none" /\ stream' = [stream EXCEPT ![c] = "none"]
  /\ sseClients' = [sseClients EXCEPT ![stream[c]] = @ \ {c}]
  /\ UNCHANGED <<up, table, taskHandler, handlers, unheard, lines, shown, callVars>>

A2ANext ==
  \/ Stop \/ Start \/ SetTaskHandler
  \/ \E method \in {"send", "get", "cancel", "unknown"} : RpcCall(method)
  \/ \E r \in requests : HandleJsonRpc(r) \/ FetchTimesOut(r)
  \/ \E h \in handlers : HandlerAnswers(h) \/ HandlerThrows(h)
  \/ \E c \in Subscribers : \/ SubscribeTask(c) \/ StreamCloses(c)
                            \/ \E t \in TaskIds : HandleTaskSubscribe(c, t)

Spec == Init /\ [][A2ANext]_a2aVars

-----------------------------------------------------------------------------
(* The last event written to a listed subscriber carries the status of its   *)
(* task, through sends of the same task, cancellations, answers that come    *)
(* after a cancellation or an eviction, and failures: a subscriber that      *)
(* reads all it was sent knows the state.                                   *)
SubscribersSeeTheLast ==
  \A t \in Present : \A c \in sseClients[t] : lines[c] # <<>> => Last(lines[c]).status = table[t]

(* A task shown as working is worked on: however sends, cancellations,      *)
(* evictions and answers of earlier handlers interleave, no task waits for   *)
(* a handler that has gone.  A task that was sent, the last time, to a       *)
(* server without a handler is shown as working and never worked on.        *)
WorkingIsWorked ==
  \A t \in TaskIds : table[t] = "working" => t \in unheard \/ \E h \in handlers : h.task = t

-----------------------------------------------------------------------------
(* What the code does not keep: a cancelled task stays cancelled unless it   *)
(* is sent again (the answer of its handler overwrites the status), ...      *)
CancelHolds ==
  [][\A t \in TaskIds : table[t] = "cancelled" =>
       table'[t] \in {"cancelled", "none"} \/ \E r \in requests \ requests' : r.task = t]_a2aVars

(* ... and every event written to a stream is given to its reader (a chunk   *)
(* that ends between the two lines of an event loses it).                   *)
EventsArrive ==
  [][\A c \in Subscribers : Len(lines'[c]) < Len(lines[c]) =>
       lines[c][Len(lines[c]) - Len(lines'[c])].kind = "blank"]_a2aVars
=============================================================================
