------------------------------ MODULE Gateway ------------------------------
(***************************************************************************)
(* The webhook gateway (packages/gateway/src): the server, its rate limit   *)
(* and the adapters of the platforms, up to the trigger rules an event       *)
(* matches (packages/scheduler/src/trigger.ts).                             *)
(*                                                                         *)
(* Of a request the model keeps what the code decides by: its sender, its     *)
(* path, whether it is a POST, what its body is and how it is signed.  Of an  *)
(* adapter it keeps which bodies it refuses to turn into an event, which      *)
(* signatures it takes, and when a notification it sends counts as sent.     *)
(***************************************************************************)
EXTENDS Integers, Sequences, FiniteSets

CONSTANTS
  Senders,        \* the addresses requests come from
  Registered,     \* the platforms with an enabled channel; the path is the platform's name
  Secured,        \* those whose channel has a secret
  Bodies,         \* the bodies requests have, out of AllBodies
  Rules,          \* the trigger rules: channel, enabled, operator and value of their condition
  Fields,         \* the values the field of a condition may have in a payload
  Within,         \* <<s, t>>: the text s occurs in, or as a pattern matches, the text t
  RateLimitMax,   \* rateLimitMax
  Window,         \* rateLimitWindow
  MaxRequests,    \* bound on the requests
  MaxTime         \* bound on the clock

VARIABLES
  clock,       \* Date.now()
  listening,   \* the server: open, closing or closed
  rateLimit,   \* rateLimitMap: count and resetAt of each sender, 0 for none
  inbox,       \* the requests: sender, path, when they came, status (0 while the body is read) and the rules fired
  admitted,    \* when the requests of each sender were let through
  notices      \* the last notification: none, sent or failed

gatewayVars == <<clock, listening, rateLimit, inbox, admitted, notices>>

\* "big": over maxBodySize; "broken": no JSON; "bare": JSON but no object; of the objects,
\* "challenge" asks for the verification of the URL, "untyped" names no event type, "bot"
\* is a message of a bot, "event" any other event.
AllBodies  == {"big", "broken", "bare", "challenge", "untyped", "bot", "event"}
Signatures == {"good", "old", "bad", "missing"}

Init ==
  /\ clock = 1 /\ listening = "open" /\ rateLimit = [s \in Senders |-> [count |-> 0, resetAt |-> 0]]
  /\ inbox = <<>> /\ admitted = [s \in Senders |-> <<>>] /\ notices = "none"

-----------------------------------------------------------------------------
(* parseEvent and verifySignature of the adapters: the objects that give no   *)
(* event, those that ask for a verification, and the signatures taken.       *)
Slack    == [ignores |-> {"untyped", "bot"}, verifies |-> {"challenge"}, takes |-> {"good"}]
Feishu   == [ignores |-> {"untyped"}, verifies |-> {"challenge"}, takes |-> {"good"}]
WeChat   == [ignores |-> {}, verifies |-> {"challenge"}, takes |-> {"good", "old"}]
DingTalk == [ignores |-> {}, verifies |-> {}, takes |-> {"good"}]
GitLab   == [ignores |-> {"untyped"}, verifies |-> {}, takes |-> {"good", "old"}]
Gerrit   == [ignores |-> {"untyped"}, verifies |-> {}, takes |-> {"good", "old"}]
Jira     == [ignores |-> {"untyped"}, verifies |-> {}, takes |-> {"good", "old"}]
Custom   == [ignores |-> {}, verifies |-> {}, takes |-> {"good", "old"}]

Adapter == [slack |-> Slack, feishu |-> Feishu, wechat |-> WeChat, dingtalk |-> DingTalk,
            gitlab |-> GitLab, gerrit |-> Gerrit, jira |-> Jira, custom |-> Custom]

\* What parseEvent gives for a body.
ParseEvent(platform, body) ==
  IF body = "bare" \/ body \in Adapter[platform].ignores THEN "none"
  ELSE IF body \in Adapter[platform].verifies THEN "url_verification" ELSE "event"

-----------------------------------------------------------------------------
(* sendNotification of the adapters: what must be configured, and which      *)
(* answers are errors: a status that is not 2xx, an error code in the body.  *)
SlackNeeds    == {"url"}
FeishuNeeds   == {"url", "code"}
WeChatNeeds   == {"url", "code"}
DingTalkNeeds == {"url", "code"}
CustomNeeds   == {"url"}
GitLabNeeds   == {"url", "subject"}
GerritNeeds   == {"url", "subject"}
JiraNeeds     == {"url", "subject"}

Needs == [slack |-> SlackNeeds, feishu |-> FeishuNeeds, wechat |-> WeChatNeeds, dingtalk |-> DingTalkNeeds,
          gitlab |-> GitLabNeeds, gerrit |-> GerritNeeds, jira |-> JiraNeeds, custom |-> CustomNeeds]

SendNotification(platform) ==
  /\ \E has \in SUBSET {"url", "subject", "code"}, ok \in BOOLEAN :
       notices' = IF ok /\ Needs[platform] \subseteq has THEN "sent" ELSE "failed"
  /\ UNCHANGED <<clock, listening, rateLimit, inbox, admitted>>

-----------------------------------------------------------------------------
Tick == clock < MaxTime /\ clock' = clock + 1 /\ UNCHANGED <<listening, rateLimit, inbox, admitted, notices>>

\* A window begins with its first request; the limit's own count goes on while it lasts.
Counted_Late(s) ==
  IF rateLimit[s].count = 0 \/ clock > rateLimit[s].resetAt
  THEN [count |-> 1, resetAt |-> clock + Window] ELSE [rateLimit[s] EXCEPT !.count = @ + 1]

Counted(s) ==
  IF rateLimit[s].count = 0 \/ clock >= rateLimit[s].resetAt
  THEN [count |-> 1, resetAt |-> clock + Window] ELSE [rateLimit[s] EXCEPT !.count = @ + 1]

IsRateLimited(s) == Counted(s).count > RateLimitMax

\* handleRequest up to the reading of the body.
Respond(s, path, post) ==
  IF IsRateLimited(s) THEN 429
  ELSE IF path = "health" THEN 200
  ELSE IF path \notin Registered THEN 404
  ELSE IF ~post THEN 405 ELSE 0

Request(s, path) ==
  /\ listening = "open" /\ Len(inbox) < MaxRequests
  /\ \E post \in BOOLEAN :
       inbox' = Append(inbox, [sender |-> s, path |-> path, at |-> clock, status |-> Respond(s, path, post),
                               fired |-> {}])
  /\ rateLimit' = [rateLimit EXCEPT ![s] = Counted(s)]
  /\ admitted' = IF IsRateLimited(s) THEN admitted ELSE [admitted EXCEPT ![s] = Append(@, clock)]
  /\ UNCHANGED <<clock, listening, notices>>

-----------------------------------------------------------------------------
(* The trigger rules (TriggerMatcher): a value is a number, a text or a list, *)
(* written with its type, or it is missing.                                 *)
Condition(rule, field) ==
  LET same == field[1] = rule.value[1] IN
  CASE rule.operator = "equals"     -> field = rule.value
    [] rule.operator = "not_equals" -> field # rule.value
    [] rule.operator = "contains"   -> \/ field[1] = "text" /\ same /\ <<rule.value[2], field[2]>> \in Within
                                       \/ field[1] = "list" /\ rule.value \in field[2]
    [] rule.operator = "matches"    -> field[1] = "text" /\ same /\ <<rule.value[2], field[2]>> \in Within
    [] rule.operator = "in"         -> rule.value[1] = "list" /\ field \in rule.value[2]
    [] rule.operator = "gt"         -> field[1] = "number" /\ same /\ field[2] > rule.value[2]
    [] rule.operator = "lt"         -> field[1] = "number" /\ same /\ field[2] < rule.value[2]

MatchRule(rule, platform, field) == rule.channel = platform /\ Condition(rule, field)

Match(platform, field) == {rule \in Rules : rule.enabled /\ MatchRule(rule, platform, field)}

\* handleRequest from the body on: the status, and the rules the event fires.  A trigger
\* that throws is logged: the request is answered as accepted.
Answer(path, body, signature, field) ==
  LET parsed == ParseEvent(path, body) IN
  CASE body = "big"    -> [status |-> 500, fired |-> {}]
    [] body = "broken" -> [status |-> 400, fired |-> {}]
    [] body \notin {"big", "broken"} /\ path \in Secured /\ signature \notin Adapter[path].takes
                       -> [status |-> 401, fired |-> {}]
    [] OTHER -> [status |-> 200, fired |-> IF parsed = "event" THEN Match(path, field) ELSE {}]

HandleBody(k) ==
  /\ k \in DOMAIN inbox /\ inbox[k].status = 0
  /\ \E body \in Bodies, signature \in Signatures, field \in Fields :
       LET answer == Answer(inbox[k].path, body, signature, field)
       IN  inbox' = [inbox EXCEPT ![k].status = answer.status, ![k].fired = answer.fired]
  /\ UNCHANGED <<clock, listening, rateLimit, admitted, notices>>

\* stop: no request is taken any more; it is over when those taken are answered.
Stop ==
  /\ \/ listening = "open" /\ listening' = "closing"
     \/ listening = "closing" /\ (\A k \in DOMAIN inbox : inbox[k].status # 0) /\ listening' = "closed"
  /\ UNCHANGED <<clock, rateLimit, inbox, admitted, notices>>

GatewayNext ==
  \/ Tick \/ Stop
  \/ \E s \in Senders, path \in Registered \cup {"health", "elsewhere"} : Request(s, path)
  \/ \E k \in 1..MaxRequests : HandleBody(k)
  \/ \E platform \in Registered : SendNotification(platform)

Spec == Init /\ [][GatewayNext]_gatewayVars

-----------------------------------------------------------------------------
(* A sender is refused only when as many of its requests as the limit allows  *)
(* were let through in the time of one window up to now; so whoever comes      *)
(* back after the 60 seconds the answer names, and before anybody else behind  *)
(* the same address, gets in.  Refused requests do not prolong the wait.      *)
RefusalsAreDue ==
  \A k \in DOMAIN inbox : inbox[k].status = 429 =>
    LET s == inbox[k].sender
    IN  Cardinality({i \in DOMAIN admitted[s] : inbox[k].at - Window < admitted[s][i] /\ admitted[s][i] <= inbox[k].at})
          >= RateLimitMax

-----------------------------------------------------------------------------
(* What the code does not keep: a sliding window (the comment of rateLimitMap *)
(* promises one): no more requests than the limit in any time of a window.    *)
WindowSlides ==
  \A s \in Senders : \A i \in DOMAIN admitted[s] :
    Cardinality({j \in DOMAIN admitted[s] : admitted[s][i] <= admitted[s][j] /\ admitted[s][j] < admitted[s][i] + Window})
      <= RateLimitMax
=============================================================================
