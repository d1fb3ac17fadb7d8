--------------------------- MODULE MessageBroker ---------------------------
(***************************************************************************)
(* The message broker (packages/core/src/messaging/broker.ts): messages to *)
(* an agent are handed to its receive generator, which queues what comes    *)
(* while nobody pulls, and requests wait for a reply.                       *)
(*                                                                         *)
(* One agent is modelled; messages are numbered in the order sent.  The      *)
(* consumer of the generator is external: it pulls when it likes.           *)
(***************************************************************************)
EXTENDS Integers, Sequences

CONSTANTS
  Requests,    \* the requests made
  MaxMessages  \* bound on the messages sent

VARIABLES
  sent,      \* the messages sent so far
  receiver,  \* the generator: new, waiting, resolved, yielded, done
  queue,     \* messages
  inHand,    \* the message resolveNext was given, 0 for none
  stopped,   \* stopped
  received,  \* the messages the consumer was given
  heardFrom, \* the first message the listener heard, 0 before
  request,   \* each request: none, pending, answered, timedOut
  replyListeners \* the requests whose reply channel is listened to

receiveVars == <<receiver, queue, inHand, stopped, received, heardFrom>>
requestVars == <<request, replyListeners>>
brokerVars  == <<sent, receiveVars, requestVars>>

Init ==
  /\ sent = 0 /\ receiver = "new" /\ queue = <<>> /\ inHand = 0 /\ stopped = FALSE
  /\ received = <<>> /\ heardFrom = 0
  /\ request = [r \in Requests |-> "none"] /\ replyListeners = {}

Listening == receiver \notin {"new", "done"}

-----------------------------------------------------------------------------
\* The handler of receive: a waiting consumer gets the message, or it is queued.
Hear_KeepsWaiting(m) ==
  IF receiver \in {"waiting", "resolved"}
  THEN inHand' = m /\ receiver' = "resolved" /\ UNCHANGED queue
  ELSE queue' = Append(queue, m) /\ UNCHANGED <<inHand, receiver>>

Hear(m) ==
  IF receiver = "waiting"
  THEN inHand' = m /\ receiver' = "resolved" /\ UNCHANGED queue
  ELSE queue' = Append(queue, m) /\ UNCHANGED <<inHand, receiver>>

\* send: nobody keeps a message that nobody listens for.
Send ==
  /\ sent < MaxMessages /\ sent' = sent + 1
  /\ IF Listening
     THEN Hear(sent + 1) /\ heardFrom' = IF heardFrom = 0 THEN sent + 1 ELSE heardFrom
     ELSE UNCHANGED <<queue, inHand, receiver, heardFrom>>
  /\ UNCHANGED <<stopped, received, requestVars>>

\* The loop of receive, from its start or from a yield to its next await, yield or end.
Pull ==
  /\ receiver \in {"new", "yielded"}
  /\ IF stopped THEN receiver' = "done" /\ UNCHANGED <<queue, received>>
     ELSE IF queue # <<>>
     THEN receiver' = "yielded" /\ received' = Append(received, Head(queue)) /\ queue' = Tail(queue)
     ELSE receiver' = "waiting" /\ UNCHANGED <<queue, received>>
  /\ UNCHANGED <<sent, inHand, stopped, heardFrom, requestVars>>

\* The await is over: the message in hand is yielded.
Resume ==
  /\ receiver = "resolved" /\ receiver' = "yielded"
  /\ received' = Append(received, inHand) /\ inHand' = 0
  /\ UNCHANGED <<sent, queue, stopped, heardFrom, requestVars>>

StopReceiving ==
  /\ Listening /\ ~stopped /\ stopped' = TRUE
  /\ receiver' = IF receiver = "waiting" THEN "done" ELSE receiver
  /\ UNCHANGED <<sent, queue, inHand, received, heardFrom, requestVars>>

\* The consumer leaves its loop: the generator's finally runs.
Leave ==
  /\ receiver = "yielded" /\ receiver' = "done"
  /\ UNCHANGED <<sent, queue, inHand, stopped, received, heardFrom, requestVars>>

-----------------------------------------------------------------------------
(* request: its message goes out as any other; the timer leaves the listener *)
(* of the reply.  No operation of the broker emits on a reply channel.      *)
Request(r) ==
  /\ request[r] = "none" /\ request' = [request EXCEPT ![r] = "pending"]
  /\ replyListeners' = replyListeners \cup {r}
  /\ UNCHANGED <<sent, receiveVars>>

RequestTimesOut(r) ==
  /\ request[r] = "pending" /\ request' = [request EXCEPT ![r] = "timedOut"]
  /\ UNCHANGED <<sent, receiveVars, replyListeners>>

BrokerNext ==
  \/ Send \/ Pull \/ Resume \/ StopReceiving \/ Leave
  \/ \E r \in Requests : Request(r) \/ RequestTimesOut(r)

Spec == Init /\ [][BrokerNext]_brokerVars

-----------------------------------------------------------------------------
(* From the first message heard until the receiver is stopped or left, none  *)
(* is lost, doubled or reordered, whenever the messages come: while the      *)
(* consumer works, while it waits, or between the moment its wait is over    *)
(* and the moment it goes on.                                               *)
NothingIsLost ==
  Listening /\ heardFrom # 0 =>
    received \o (IF inHand = 0 THEN <<>> ELSE <<inHand>>) \o queue
      = [i \in 1..(sent - heardFrom + 1) |-> heardFrom + i - 1]

-----------------------------------------------------------------------------
(* What the code does not keep: what was queued before the stop is received; *)
StopDeliversTheQueue == receiver = "done" /\ stopped => queue = <<>>

(* ... and request (types/src/message.ts:54) returns the reply: it never does. *)
RequestsCanBeAnswered == \A r \in Requests : request[r] # "timedOut"
=============================================================================
