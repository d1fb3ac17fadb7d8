----------------------------- MODULE McpSession -----------------------------
(***************************************************************************)
(* The MCP client and server (packages/mcp/src/client.ts, server.ts,       *)
(* workflow-tools.ts, agent-tools.ts): the client's connection, its pending *)
(* requests and the slots of its tool calls, and a server in a child        *)
(* process (or behind HTTP) whose tools run workflows.                     *)
(*                                                                         *)
(* Children are numbered; 0 is no child, and the peer of HTTP.  A child may *)
(* exit at any time, what was written to it is then lost, and its exit      *)
(* event comes later.  A tool call takes any time at the server.           *)
(***************************************************************************)
EXTENDS Integers, Sequences, FiniteSets

CONSTANTS
  Callers,            \* the callers of callTool, one call each
  MaxConcurrentCalls, \* maxConcurrentCalls of the client
  Transports,         \* the transports of the configurations checked
  MaxChildren         \* bound on the connections made

VARIABLES
  transport,    \* config.transport.type
  connected,    \* MCPClient.connected
  child,        \* childProcess: the number of the current child
  spawned,      \* the children spawned so far
  life,         \* each child: none, alive, exiting until its exit event, gone
  pending,      \* the pending requests, or those in flight over HTTP
  pcCall,       \* where each call is
  callQueue,    \* callQueue
  activeCalls,  \* activeCalls
  served        \* what the servers have not answered yet

linkVars == <<transport, connected, child, spawned, life>>
slotVars == <<pcCall, callQueue, activeCalls>>
mcpVars  == <<linkVars, slotVars, pending, served>>

Init ==
  /\ transport \in Transports /\ connected = FALSE /\ child = 0 /\ spawned = 0
  /\ life = [n \in 1..MaxChildren |-> "none"]
  /\ pending = {} /\ served = {} /\ activeCalls = 0 /\ callQueue = <<>>
  /\ pcCall = [c \in Callers |-> "idle"]

-----------------------------------------------------------------------------
(* Requests.  The id of a request is its sender: each sends one.            *)
Request(who, to) == [who |-> who, to |-> to, step |-> "received"]

\* What is written to a child that has exited is lost.
WriteToStdin(who, to) ==
  served' = IF life[to] \in {"exiting", "gone"} THEN served ELSE served \cup {Request(who, to)}

SendHttpRequest(who) == served' = served \cup {Request(who, 0)}

SendRequest(who, to) ==
  /\ pending' = pending \cup {who}
  /\ IF to # 0 THEN WriteToStdin(who, to) ELSE SendHttpRequest(who)

\* Settled requests leave pending; the calls among them go on in a microtask.
Settled(gone) ==
  /\ pending' = pending \ gone
  /\ pcCall' = [c \in Callers |-> IF c \in gone /\ pcCall[c] = "calling" THEN "settled" ELSE pcCall[c]]

RejectAllPending == Settled(pending)

TimesOut(who) ==
  /\ Settled({who}) /\ UNCHANGED <<linkVars, callQueue, activeCalls, served>>

-----------------------------------------------------------------------------
(* The connection.                                                          *)
Connector(n) == <<"connect", n>>
Connecting == {n \in 1..spawned : Connector(n) \in pending}

\* Nothing refuses a second connect while the first one is under way.
Connect ==
  /\ ~connected /\ spawned < MaxChildren /\ spawned' = spawned + 1
  /\ child' = IF transport = "stdio" THEN spawned + 1 ELSE 0
  /\ life' = IF transport = "stdio" THEN [life EXCEPT ![spawned + 1] = "alive"] ELSE life
  /\ SendRequest(Connector(spawned + 1), child')
  /\ UNCHANGED <<transport, connected, slotVars>>

Disconnect ==
  /\ connected /\ connected' = FALSE /\ RejectAllPending /\ child' = 0
  /\ life' = IF child # 0 /\ life[child] = "alive" THEN [life EXCEPT ![child] = "exiting"] ELSE life
  /\ served' = {r \in served : r.to # child}
  /\ UNCHANGED <<transport, spawned, callQueue, activeCalls>>

ChildExits(n) ==
  /\ life[n] = "alive" /\ life' = [life EXCEPT ![n] = "exiting"]
  /\ served' = {r \in served : r.to # n}
  /\ UNCHANGED <<transport, connected, child, spawned, pending, slotVars>>

\* The handler does not ask whether the child that exited is the current one.
OnExit(n) ==
  /\ life[n] = "exiting" /\ life' = [life EXCEPT ![n] = "gone"]
  /\ connected' = FALSE /\ RejectAllPending
  /\ UNCHANGED <<transport, child, spawned, callQueue, activeCalls, served>>

-----------------------------------------------------------------------------
(* Tool calls and their slots.                                              *)
\* Without a child the request throws at once.
Occupy(c) ==
  /\ activeCalls' = activeCalls + 1
  /\ IF transport = "stdio" /\ child = 0
     THEN pcCall' = [pcCall EXCEPT ![c] = "settled"] /\ UNCHANGED <<pending, served>>
     ELSE pcCall' = [pcCall EXCEPT ![c] = "calling"] /\ SendRequest(c, child)

CallTool(c) ==
  /\ pcCall[c] = "idle"
  /\ IF activeCalls >= MaxConcurrentCalls
     THEN /\ callQueue' = Append(callQueue, c) /\ pcCall' = [pcCall EXCEPT ![c] = "queued"]
          /\ UNCHANGED <<activeCalls, pending, served>>
     ELSE Occupy(c) /\ UNCHANGED callQueue
  /\ UNCHANGED linkVars

\* finally: the slot is given up, and the first of the queue woken.
Finish_OnlyIfConnected(c) ==
  /\ pcCall[c] = "settled" /\ activeCalls' = activeCalls - 1
  /\ IF callQueue = <<>> \/ ~connected
     THEN pcCall' = [pcCall EXCEPT ![c] = "done"] /\ UNCHANGED callQueue
     ELSE /\ pcCall' = [pcCall EXCEPT ![c] = "done", ![Head(callQueue)] = "woken"]
          /\ callQueue' = Tail(callQueue)
  /\ UNCHANGED <<linkVars, pending, served>>

Finish(c) ==
  /\ pcCall[c] = "settled" /\ activeCalls' = activeCalls - 1
  /\ IF callQueue = <<>> THEN pcCall' = [pcCall EXCEPT ![c] = "done"] /\ UNCHANGED callQueue
     ELSE /\ pcCall' = [pcCall EXCEPT ![c] = "done", ![Head(callQueue)] = "woken"]
          /\ callQueue' = Tail(callQueue)
  /\ UNCHANGED <<linkVars, pending, served>>

\* The woken call counts itself only now: a call made meanwhile had its slot.
Woken(c) == pcCall[c] = "woken" /\ Occupy(c) /\ UNCHANGED <<linkVars, callQueue>>

-----------------------------------------------------------------------------
(* The server.  Its answer settles the request, or comes too late.          *)
Answer(r) ==
  /\ served' = served \ {r} /\ Settled({r.who} \cap pending)
  /\ UNCHANGED <<transport, child, spawned, life, callQueue, activeCalls>>

\* initialize answers or refuses the version; a connect goes on by its answer.
HandleInitialize(r) ==
  /\ r.who \notin Callers /\ Answer(r)
  /\ connected' \in IF r.who \in pending THEN {TRUE, connected} ELSE {connected}

\* The tool of a workflow starts it, and then polls its run.
WorkflowTool(r) ==
  /\ served' = (served \ {r}) \cup {[r EXCEPT !.step = "polling"]}
  /\ UNCHANGED <<linkVars, slotVars, pending>>

\* The tool is unknown, its arguments are wrong, it answers at once, or it runs a workflow.
HandleToolsCall(r) ==
  /\ r.who \in Callers /\ r.step = "received"
  /\ \/ Answer(r) /\ UNCHANGED connected
     \/ WorkflowTool(r)

\* The run ended, disappeared or was polled too long: an answer in each case.
PollWorkflowCompletion(r) == r.step = "polling" /\ Answer(r) /\ UNCHANGED connected

McpNext ==
  \/ Connect \/ Disconnect
  \/ \E n \in 1..spawned : ChildExits(n) \/ OnExit(n)
  \/ \E who \in pending : TimesOut(who)
  \/ \E c \in Callers : CallTool(c) \/ Finish(c) \/ Woken(c)
  \/ \E r \in served : HandleInitialize(r) \/ HandleToolsCall(r) \/ PollWorkflowCompletion(r)

Spec == Init /\ [][McpNext]_mcpVars

-----------------------------------------------------------------------------
(* Nobody queues beside a free slot: whatever ends a call (its answer, its   *)
(* timer, an exit, a disconnection, the lack of a child), as long as calls   *)
(* wait, all the slots are taken or about to be taken by a woken call.      *)
NoIdleSlot ==
  callQueue # <<>> =>
    activeCalls + Cardinality({c \in Callers : pcCall[c] = "woken"}) >= MaxConcurrentCalls

-----------------------------------------------------------------------------
(* What the code does not keep: no more calls at a time than configured; ... *)
CallsAreLimited == activeCalls <= MaxConcurrentCalls

(* ... the exit of a former child leaves the connection to the present one; *)
ExitIsOfTheCurrent ==
  [][\A n \in 1..spawned : OnExit(n) /\ n # child => connected' = connected]_mcpVars

(* ... and a call that failed at the client left nothing running.           *)
FailedCallsHaveEnded == \A r \in served : r.step = "polling" => pcCall[r.who] # "done"
=============================================================================
