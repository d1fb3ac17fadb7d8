------------------------------ MODULE Monitor ------------------------------
(***************************************************************************)
(* The monitor server (packages/monitor/src: server, api, auth, websocket,  *)
(* health): authentication, the routes of the REST API and how each answers, *)
(* the stream of events to connected clients with its heartbeat, stopping.   *)
(*                                                                         *)
(* The data behind the API belongs to providers; of a provider's call the     *)
(* model keeps whether it is wired, and whether it works, finds nothing or    *)
(* throws.  The API's own handler of the event stream is never reached: the   *)
(* server takes that path first.                                            *)
(***************************************************************************)
EXTENDS Naturals, Sequences

CONSTANTS
  Clients,      \* the clients of the event stream
  EventTypes,
  Modes,        \* the modes of the authentication
  KeyRole,      \* apiKeys: the role of each configured key
  MaxCalls      \* bound on the calls of the API

VARIABLES
  monitor,       \* the server: new, up, stopping or stopped
  authMode,      \* mode
  socket,        \* the stream of each client: none, open, or ended by shutdown
  connections,   \* SSEManager.connections
  wants,         \* __sseTypes: the types a client subscribed to
  heartbeat,     \* is heartbeatInterval armed?
  calls          \* the calls of the API: kind, status (0 until it is answered), stage

monitorVars == <<monitor, authMode, socket, connections, wants, heartbeat, calls>>

Init ==
  /\ monitor = "new" /\ authMode \in Modes /\ socket = [c \in Clients |-> "none"] /\ connections = {}
  /\ wants = [c \in Clients |-> EventTypes] /\ heartbeat = FALSE /\ calls = <<>>

-----------------------------------------------------------------------------
(* The routes: method, path and how the handler answers (see Status).        *)
WorkflowRoutes ==
  {<<"GET", "workflows", "read">>, <<"GET", "workflows/:id", "find">>, <<"GET", "workflows/:id/events", "read">>}
WorkflowWrites ==
  {<<"POST", "workflows", "create">>} \cup {<<"POST", p, "act">> : p \in {"workflows/:id/pause",
   "workflows/:id/resume", "workflows/:id/cancel"}}
AgentRoutes == {<<"GET", "agents", "read">>, <<"GET", "agents/:id", "find">>}
AgentWrites ==
  {<<"POST", "agents", "create">>, <<"PUT", "agents/:id", "update">>, <<"DELETE", "agents/:id", "act">>}
  \cup {<<"POST", p, "act">> : p \in {"agents/:id/pause", "agents/:id/resume", "agents/:id/stop"}}
TokenRoutes ==
  {<<"GET", "tokens/usage", "read">>, <<"GET", "tokens/budget/:id", "find">>,
   <<"POST", "tokens/budget/:id", "create">>, <<"PUT", "tokens/budget/:id", "update">>}
ClusterRoutes ==
  {<<"GET", "cluster/nodes", "read">>, <<"GET", "cluster/health", "read">>, <<"GET", "cluster/stats", "read">>,
   <<"POST", "cluster/nodes/:id/drain", "act">>, <<"POST", "cluster/nodes/:id/enable", "act">>,
   <<"PUT", "cluster/strategy", "update">>}
Crud(path, one) ==
  {<<"GET", path, "read">>, <<"POST", path, "create">>, <<"GET", one, "find">>, <<"PUT", one, "update">>,
   <<"DELETE", one, "act">>}
TriggerRoutes  == Crud("triggers", "triggers/:id")
ScheduleRoutes == Crud("schedules", "schedules/:id")
PolicyRoutes   == Crud("policies", "policies/:id")
AlertRoutes ==
  {<<"GET", "alerts", "wired">>, <<"GET", "alerts/history", "wired">>, <<"GET", "alerts/rules", "wired">>,
   <<"POST", "alerts/:id/acknowledge", "wired">>, <<"POST", "alerts/:id/resolve", "wired">>,
   <<"POST", "alerts/rules", "create">>, <<"PUT", "alerts/rules/:id", "update">>,
   <<"DELETE", "alerts/rules/:id", "act">>}
ApprovalRoutes ==
  {<<"GET", "approvals", "read">>, <<"GET", "approvals/:id", "find">>,
   <<"POST", "approvals/:id/approve", "update">>, <<"POST", "approvals/:id/reject", "update">>}
ProviderRoutes ==
  {<<"GET", "providers", "read">>, <<"GET", "providers/health", "read">>, <<"PUT", "providers/:name", "update">>}
GuardrailRoutes ==
  (Crud("guardrails", "guardrails/:id") \ {<<"GET", "guardrails/:id", "find">>})
  \cup {<<"GET", "guardrails/violations", "read">>}
EnvironmentRoutes ==
  {<<"GET", "environments", "read">>, <<"GET", "environments/:name", "find">>,
   <<"POST", "environments/:name/activate", "act">>}
EvalRoutes ==
  {<<"GET", "eval/suites", "read">>, <<"POST", "eval/suites/:id/run", "make">>, <<"GET", "eval/runs/:id", "read">>}
PlaygroundRoutes ==
  {<<"POST", "playground/turn", "play">>, <<"GET", "playground/history/:id", "show">>,
   <<"DELETE", "playground/session/:id", "show">>, <<"POST", "workflows/from-nl", "play">>}
EventRoutes == {<<"GET", "events", "read">>, <<"GET", "metrics", "wired">>}

Routes ==
  WorkflowRoutes \cup WorkflowWrites \cup AgentRoutes \cup AgentWrites \cup TokenRoutes \cup ClusterRoutes
  \cup TriggerRoutes \cup ScheduleRoutes \cup PolicyRoutes \cup AlertRoutes \cup ApprovalRoutes
  \cup ProviderRoutes \cup GuardrailRoutes \cup EnvironmentRoutes \cup EvalRoutes \cup PlaygroundRoutes
  \cup EventRoutes

\* The handlers that read a body first.
WithBody == {"create", "update", "play"}

\* The status of a call by what the provider does: "absent" when it is not wired, which only
\* a "wired" one cannot be; what a handler catches is 400, or 500 in the playground; an error
\* it does not catch is 500.
Status(kind, outcome) ==
  CASE outcome = "absent"  -> 501
    [] outcome = "throws"  -> IF kind \in {"create", "make", "update", "act"} THEN 400 ELSE 500
    [] outcome = "nothing" -> IF kind = "find" THEN 404 ELSE 200
    [] OTHER               -> IF kind \in {"create", "make"} THEN 201 ELSE 200

-----------------------------------------------------------------------------
(* authenticate, and the role that writing needs.                            *)
Rank == [viewer |-> 0, developer |-> 1, admin |-> 2]

Unauthenticated == [ok |-> FALSE, role |-> "viewer"]

\* The role of a request, which brings a key ("missing" and "wrong" are no configured key)
\* from an address the key's allowlist has or has not.  With one key, whoever has it is admin.
Authenticate(path, key, listed) ==
  CASE path = "metrics"    -> [ok |-> TRUE, role |-> "viewer"]
    [] path # "metrics" /\ authMode = "none" -> [ok |-> TRUE, role |-> "admin"]
    [] path # "metrics" /\ authMode = "api-key" ->
         IF key \in {"missing", "wrong"} THEN Unauthenticated ELSE [ok |-> TRUE, role |-> "admin"]
    [] OTHER -> IF key \in {"missing", "wrong"} \/ ~listed THEN Unauthenticated
                ELSE [ok |-> TRUE, role |-> KeyRole[key]]

Refused(method, auth) ==
  CASE ~auth.ok -> 401
    [] auth.ok /\ method # "GET" /\ Rank[auth.role] < Rank["developer"] -> 403
    [] OTHER -> 0

-----------------------------------------------------------------------------
Start ==
  /\ monitor = "new" /\ monitor' = "up"
  /\ UNCHANGED <<authMode, socket, connections, wants, heartbeat, calls>>

\* A call of the API is refused, or goes on to its body or its provider.
Call(route, key, listed) ==
  LET auth == Authenticate(route[2], key, listed)
      refused == Refused(route[1], auth)
  IN  /\ monitor = "up" /\ Len(calls) < MaxCalls
      /\ calls' = Append(calls, [kind |-> route[3], status |-> refused,
                                 stage |-> IF refused # 0 THEN "answered"
                                           ELSE IF route[3] \in WithBody THEN "body" ELSE "provider"])
      /\ UNCHANGED <<monitor, authMode, socket, connections, wants, heartbeat>>

CallAnswered(k, status) == calls' = [calls EXCEPT ![k].stage = "answered", ![k].status = status]

\* parseBody: an unwired provider is noticed before it; a body that is too large or no JSON
\* is an error of the handler.
ParseBody(k) ==
  /\ k \in DOMAIN calls /\ calls[k].stage = "body"
  /\ \/ CallAnswered(k, Status(calls[k].kind, "absent"))
     \/ CallAnswered(k, Status(calls[k].kind, "throws"))
     \/ calls' = [calls EXCEPT ![k].stage = "provider"]
  /\ UNCHANGED <<monitor, authMode, socket, connections, wants, heartbeat>>

ProviderAnswers(k) ==
  /\ k \in DOMAIN calls /\ calls[k].stage = "provider"
  /\ \E outcome \in {"throws", "nothing", "done"}
                      \cup (IF calls[k].kind \in WithBody \cup {"wired"} THEN {} ELSE {"absent"}) :
       CallAnswered(k, Status(calls[k].kind, outcome))
  /\ UNCHANGED <<monitor, authMode, socket, connections, wants, heartbeat>>

\* checkAll behind GET /health, which needs no key: a check that throws counts as unhealthy.
Overall(checks) ==
  IF checks \cap {"unhealthy", "throws"} # {} THEN "unhealthy"
  ELSE IF "degraded" \in checks THEN "degraded" ELSE "healthy"

Health ==
  /\ monitor = "up" /\ Len(calls) < MaxCalls
  /\ \E checks \in SUBSET {"healthy", "degraded", "unhealthy", "throws"} :
       calls' = Append(calls, [kind |-> "health", stage |-> "answered",
                               status |-> IF Overall(checks) = "unhealthy" THEN 503 ELSE 200])
  /\ UNCHANGED <<monitor, authMode, socket, connections, wants, heartbeat>>

-----------------------------------------------------------------------------
(* The event stream.                                                        *)

\* removeConnection of some clients.
Remove(broken) ==
  /\ connections' = connections \ broken
  /\ heartbeat' = (heartbeat /\ (broken \cap connections = {} \/ connections \ broken # {}))

\* handleConnection: a client may name the types it wants.
HandleConnection(c, types) ==
  /\ monitor = "up" /\ socket[c] = "none"
  /\ \E key \in DOMAIN KeyRole \cup {"missing", "wrong"}, listed \in BOOLEAN :
       Authenticate("events/stream", key, listed).ok
  /\ socket' = [socket EXCEPT ![c] = "open"] /\ wants' = [wants EXCEPT ![c] = types]
  /\ connections' = connections \cup {c} /\ heartbeat' = TRUE
  /\ UNCHANGED <<monitor, authMode, calls>>

\* The client goes away: the close or the error event of its request.
Disconnect(c) ==
  /\ socket[c] # "none"
  /\ socket' = [socket EXCEPT ![c] = "none"] /\ Remove({c})
  /\ UNCHANGED <<monitor, authMode, wants, calls>>

\* broadcast: the clients whose write throws are removed afterwards.
Broadcast_Keeps(type) ==
  LET to == {c \in connections : type \in wants[c]} IN
  /\ monitor # "new" /\ to # {}
  /\ \E broken \in SUBSET to : connections' = connections \ broken
  /\ UNCHANGED <<monitor, authMode, socket, wants, heartbeat, calls>>

Broadcast(type) ==
  LET to == {c \in connections : type \in wants[c]} IN
  /\ monitor # "new" /\ to # {}
  /\ \E broken \in SUBSET to : Remove(broken)
  /\ UNCHANGED <<monitor, authMode, socket, wants, calls>>

Beat ==
  /\ heartbeat
  /\ \E broken \in SUBSET connections : Remove(broken)
  /\ UNCHANGED <<monitor, authMode, socket, wants, calls>>

\* stop: the streams are ended, and the server closes when the last request is answered.
Stop ==
  /\ monitor = "up" /\ monitor' = "stopping"
  /\ socket' = [c \in Clients |-> IF c \in connections THEN "ended" ELSE socket[c]]
  /\ connections' = {} /\ heartbeat' = FALSE
  /\ UNCHANGED <<authMode, wants, calls>>

Stopped ==
  /\ monitor = "stopping" /\ \A c \in Clients : socket[c] # "open"
  /\ \A k \in DOMAIN calls : calls[k].stage = "answered"
  /\ monitor' = "stopped"
  /\ UNCHANGED <<authMode, socket, connections, wants, heartbeat, calls>>

MonitorNext ==
  \/ Start \/ Health \/ Beat \/ Stop \/ Stopped
  \/ \E route \in Routes, key \in DOMAIN KeyRole \cup {"missing", "wrong"}, listed \in BOOLEAN :
       Call(route, key, listed)
  \/ \E k \in DOMAIN calls : ParseBody(k) \/ ProviderAnswers(k)
  \/ \E c \in Clients : Disconnect(c) \/ \E types \in SUBSET EventTypes \ {{}} : HandleConnection(c, types)
  \/ \E type \in EventTypes : Broadcast(type)

Spec == Init /\ [][MonitorNext]_monitorVars

-----------------------------------------------------------------------------
(* The heartbeat runs exactly while a client is connected, however clients    *)
(* come, break and go and whenever the server stops: no stream goes without   *)
(* it, and no timer outlives the last client (SSEManager).                   *)
HeartbeatFollowsClients == heartbeat <=> connections # {}

-----------------------------------------------------------------------------
(* Statements of the repository that the code does not keep.                *)

(* server.ts:167 "Stop the server gracefully": once the stream of every       *)
(* client was ended, stop ends.  A client that was removed because a write to *)
(* it threw keeps its socket, which nobody ends.                             *)
StopEndsStreams == monitor = "stopping" => \A c \in Clients : socket[c] # "open"
=============================================================================
