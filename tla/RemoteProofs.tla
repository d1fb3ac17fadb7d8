---------------------------- MODULE RemoteProofs ----------------------------
(***************************************************************************)
(* Proofs about the components that talk to other processes, for any nodes,  *)
(* tasks, callers, subscribers and backends and any limits.  A step of the    *)
(* composition is a step of one component and leaves the others as they were, *)
(* so an invariant of a component is one of the whole.                       *)
(***************************************************************************)
EXTENDS Remote, SequenceTheorems, FiniteSetTheorems, WellFoundedInduction, TLAPS

remoteVars == <<system, clusterVars, a2aVars, mcpVars, executorVars>>

\* What a step of the whole is to each component.
LEMMA Moves ==
  [Next]_remoteVars => /\ [Cl!ClusterNext]_clusterVars
                       /\ [A!A2ANext]_a2aVars
                       /\ [M!McpNext]_mcpVars
                       /\ [E!ExecutorNext]_executorVars
  BY DEF Next, remoteVars

-----------------------------------------------------------------------------
(* Sequences.                                                               *)

\* A set of natural numbers has a least one.
LEMMA LeastExists ==
  ASSUME NEW S \in SUBSET Nat, S # {}
  PROVE  /\ Cl!Min(S) \in S
         /\ \A n \in S : Cl!Min(S) <= n
  <1>1. \A x, y \in Nat : <<x, y>> \in OpToRel(<, Nat) <=> x < y BY DEF OpToRel
  <1>2. \E x \in S : \A y \in S : ~(<<y, x>> \in OpToRel(<, Nat))
    BY NatLessThanWellFounded, WFMin
  <1>3. PICK x \in S : \A y \in S : ~(<<y, x>> \in OpToRel(<, Nat)) BY <1>2, Zenon
  <1>4. \A y \in S : ~(y < x)
    <2> TAKE y \in S
    <2>1. x \in Nat /\ y \in Nat OBVIOUS
    <2> QED BY <1>1, <1>3, <2>1, Zenon
  <1>5. \A y \in S : x <= y
    <2> TAKE y \in S
    <2>1. x \in Nat /\ y \in Nat /\ ~(y < x) BY <1>4
    <2> QED BY <2>1
  <1> QED BY <1>5 DEF Cl!Min

\* RemoveFirst takes one occurrence out and keeps the others in order.
LEMMA FirstRemoved ==
  ASSUME NEW S, NEW s \in Seq(S), NEW e \in Cl!ToSet(s)
  PROVE  /\ Cl!RemoveFirst(s, e) \in Seq(S)
         /\ Len(Cl!RemoveFirst(s, e)) = Len(s) - 1
         /\ \E i \in 1..Len(s) :
              /\ s[i] = e
              /\ \A j \in 1..Len(s)-1 : Cl!RemoveFirst(s, e)[j] = IF j < i THEN s[j] ELSE s[j+1]
  <1> DEFINE I == {i \in 1..Len(s) : s[i] = e}
             i == Cl!SelectInSeq(s, LAMBDA v : v = e)
             front == SubSeq(s, 1, i - 1)
             back == SubSeq(s, i + 1, Len(s))
  <1>1. I \in SUBSET Nat /\ I # {} /\ I \subseteq 1..Len(s) /\ Len(s) \in Nat BY DEF Cl!ToSet
  <1>2. i = Cl!Min(I) BY <1>1 DEF Cl!SelectInSeq
  <1>3. i \in 1..Len(s) /\ s[i] = e BY <1>1, <1>2, LeastExists, Zenon
  <1>4. Cl!RemoveFirst(s, e) = front \o back BY <1>3 DEF Cl!RemoveFirst, Cl!RemoveAt
  <1> HIDE DEF i, I
  <1>5. /\ front \in Seq(S) /\ Len(front) = i - 1 /\ \A j \in 1..i-1 : front[j] = s[j]
        /\ back \in Seq(S) /\ Len(back) = Len(s) - i
        /\ \A j \in 1..Len(s)-i : back[j] = s[i + j]
    <2>1. front \in Seq(S) /\ Len(front) = (IF 1 <= i - 1 THEN i - 1 - 1 + 1 ELSE 0)
          /\ \A j \in 1..(i - 1 - 1 + 1) : front[j] = s[1 + j - 1]
      <3>1. \A j \in 1..(i-1) : s[j] \in S BY <1>1, <1>3
      <3> QED BY <1>1, <1>3, <3>1, SubSeqProperties
    <2>2. back \in Seq(S) /\ Len(back) = (IF i + 1 <= Len(s) THEN Len(s) - (i + 1) + 1 ELSE 0)
          /\ \A j \in 1..(Len(s) - (i + 1) + 1) : back[j] = s[(i + 1) + j - 1]
      <3>1. \A j \in (i+1)..Len(s) : s[j] \in S BY <1>1, <1>3
      <3> QED BY <1>1, <1>3, <3>1, SubSeqProperties
    <2> HIDE DEF front, back
    <2>3. front \in Seq(S) /\ Len(front) = i - 1 /\ \A j \in 1..i-1 : front[j] = s[j] BY <1>1, <1>3, <2>1
    <2>4. back \in Seq(S) /\ Len(back) = Len(s) - i BY <1>1, <1>3, <2>2
    <2>5. ASSUME NEW j \in 1..Len(s)-i PROVE back[j] = s[i + j]
      <3>1. j \in 1..(Len(s) - (i + 1) + 1) /\ (i + 1) + j - 1 = i + j BY <1>1, <1>3
      <3> QED BY <3>1, <2>2
    <2> QED BY <2>3, <2>4, <2>5
  <1> HIDE DEF front, back
  <1>6. /\ front \o back \in Seq(S)
        /\ Len(front \o back) = Len(front) + Len(back)
        /\ \A j \in 1..Len(front) + Len(back) :
             (front \o back)[j] = IF j <= Len(front) THEN front[j] ELSE back[j - Len(front)]
    BY <1>5, ConcatProperties
  <1>7. \A j \in 1..Len(s)-1 : (front \o back)[j] = IF j < i THEN s[j] ELSE s[j+1]
    <2> TAKE j \in 1..Len(s)-1
    <2>1. CASE j < i BY <1>1, <1>3, <1>5, <1>6, <2>1
    <2>2. CASE ~(j < i)
      <3>1. j - (i - 1) \in 1..Len(s)-i /\ i + (j - (i - 1)) = j + 1 BY <1>1, <1>3, <2>2
      <3>2. (front \o back)[j] = back[j - (i - 1)] BY <1>1, <1>3, <1>5, <1>6, <2>2
      <3> QED BY <3>1, <3>2, <1>5, <2>2
    <2> QED BY <2>1, <2>2
  <1>8. Len(front \o back) = Len(s) - 1 BY <1>1, <1>3, <1>5, <1>6
  <1> QED BY <1>3, <1>4, <1>6, <1>7, <1>8
-----------------------------------------------------------------------------
(* The cluster.                                                             *)

ClusterInv ==
  /\ tracked \in [Nodes -> SUBSET Tasks]
  /\ TrackedIsInFlight

LEMMA ClusterStep == ClusterInv /\ [Cl!ClusterNext]_clusterVars => ClusterInv'
  <1> SUFFICES ASSUME ClusterInv, [Cl!ClusterNext]_clusterVars PROVE ClusterInv'
    OBVIOUS
  <1> USE DEF ClusterInv, TrackedIsInFlight, Cl!TrackedIsInFlight
  <1>1. CASE UNCHANGED <<tracked, posts>> BY <1>1
  <1>2. ASSUME NEW t \in Tasks, Cl!Distribute(t) PROVE ClusterInv'
    <2>1. PICK n : /\ tracked' = [tracked EXCEPT ![n] = @ \cup {t}]
                   /\ posts' = posts \cup {[task |-> t, node |-> n, no |-> submitted[t]]}
      BY <1>2 DEF Cl!Distribute
    <2> DEFINE post == [task |-> t, node |-> n, no |-> submitted[t]]
    <2>2. post \in posts' /\ post.task = t /\ post.node = n BY <2>1
    <2> HIDE DEF post
    <2>3. posts \subseteq posts' BY <2>1
    <2>4. ASSUME NEW m \in Nodes, NEW u \in tracked'[m] PROVE \E q \in posts' : q.node = m /\ q.task = u
      <3>1. CASE u \in tracked[m] BY <3>1, <2>3
      <3>2. CASE u \notin tracked[m]
        <4>1. m = n /\ u = t BY <3>2, <2>1
        <4> QED BY <4>1, <2>2
      <3> QED BY <3>1, <3>2
    <2>5. tracked' \in [Nodes -> SUBSET Tasks] BY <2>1
    <2>6. TrackedIsInFlight' BY <2>4
    <2> QED BY <2>5, <2>6
  <1>3. ASSUME NEW p \in posts, Cl!Posted(p) PROVE ClusterInv'
    <2>1. posts' = posts \ {p} /\ tracked' = [tracked EXCEPT ![p.node] = @ \ {p.task}]
      BY <1>3 DEF Cl!Posted
    <2>2. \A m \in Nodes : tracked'[m] = IF m = p.node THEN tracked[m] \ {p.task} ELSE tracked[m] BY <2>1
    <2>3. ASSUME NEW m \in Nodes, NEW u \in tracked'[m] PROVE u \in {q.task : q \in {r \in posts' : r.node = m}}
      <3>1. u \in tracked[m] /\ (m = p.node => u # p.task) BY <2>2
      <3>2. PICK q \in posts : q.node = m /\ q.task = u BY <3>1
      <3>3. q # p BY <3>1, <3>2
      <3> QED BY <2>1, <3>2, <3>3
    <2> QED BY <2>1, <2>3
  <1> QED
    BY <1>1, <1>2, <1>3
    DEF clusterVars, Cl!ClusterNext, Cl!Register, Cl!Release, Cl!CheckAllNodes, Cl!SetStrategy, Cl!Deregister,
        Cl!Healthy, Cl!Unhealthy, Cl!DrainNode, Cl!PollDrain, Cl!work

(* WorkDistributor.distribute: what is tracked on a node has a post in flight  *)
(* to it, so a drain never waits for, and an outage never reports, a task     *)
(* that was answered.                                                       *)
THEOREM TrackedInFlight == Spec => []TrackedIsInFlight
  <1>1. Init => ClusterInv BY DEF Init, Cl!Init, ClusterInv, TrackedIsInFlight, Cl!TrackedIsInFlight
  <1>2. ClusterInv => TrackedIsInFlight BY DEF ClusterInv
  <1> QED BY <1>1, <1>2, Moves, ClusterStep, PTL DEF Spec, remoteVars

-----------------------------------------------------------------------------
(* What the registry is asked to do is about a node, and so are its members. *)
Statuses == {"online", "offline", "draining"}
OpType == [what : {"register", "deregister", "status", "heartbeat"}, node : Nodes, arg : Int \cup Statuses]
RegistryInv == members \in Seq(Nodes) /\ ops \in Seq(OpType)

LEMMA OpTyped ==
  ASSUME NEW n \in Nodes
  PROVE  /\ Cl!Op("register", n, 0) \in OpType
         /\ Cl!Op("deregister", n, 0) \in OpType
         /\ \A s \in Statuses : Cl!Op("status", n, s) \in OpType
         /\ \A l \in 0..MaxLoad : Cl!Op("heartbeat", n, l) \in OpType
  <1> DEFINE Arg == Int \cup Statuses
  <1>1. 0 \in Int /\ \A l \in 0..MaxLoad : l \in Int OBVIOUS
  <1>2. 0 \in Arg /\ (\A l \in 0..MaxLoad : l \in Arg) /\ \A s \in Statuses : s \in Arg BY <1>1, Zenon
  <1>3. OpType = [what : {"register", "deregister", "status", "heartbeat"}, node : Nodes, arg : Arg]
    BY DEF OpType
  <1> HIDE DEF Arg
  <1> QED BY <1>2, <1>3 DEF Cl!Op, Statuses

LEMMA SingleCall == ASSUME NEW op \in OpType PROVE <<op>> \in Seq(OpType)
  OBVIOUS

LEMMA CallTyped ==
  ASSUME RegistryInv, NEW list \in Seq(OpType), Cl!Calls(list) PROVE ops' \in Seq(OpType)
  <1>1. ops' = ops \o list BY DEF Cl!Calls
  <1> QED BY <1>1, ConcatProperties DEF RegistryInv

\* Applying an operation makes a member only of a node that is registered.
LEMMA Applied ==
  ASSUME RegistryInv, NEW op \in OpType, Cl!Apply(op)
  PROVE  /\ members' \in Seq(Nodes)
         /\ \A n \in Cl!ToSet(members') : n \in Cl!ToSet(members) \/ (op.what = "register" /\ n = op.node)
  <1>1. members \in Seq(Nodes) /\ op.node \in Nodes BY DEF RegistryInv, OpType
  <1>2. CASE op.what = "register"
    <2>1. members' = Append(members, op.node) BY <1>2 DEF Cl!Apply
    <2> QED BY <1>1, <1>2, <2>1 DEF Cl!ToSet
  <1>3. CASE op.what = "deregister"
    <2>1. members' = Cl!RemoveFirst(members, op.node) BY <1>3 DEF Cl!Apply
    <2>2. CASE op.node \in Cl!ToSet(members)
      <3>1. PICK i \in 1..Len(members) :
              \A j \in 1..Len(members)-1 : members'[j] = IF j < i THEN members[j] ELSE members[j+1]
        BY <1>1, <2>1, <2>2, FirstRemoved
      <3>2. members' \in Seq(Nodes) /\ Len(members') = Len(members) - 1 BY <1>1, <2>1, <2>2, FirstRemoved
      <3>3. ASSUME NEW j \in 1..Len(members') PROVE members'[j] \in Cl!ToSet(members)
        <4>1. PICK k \in 1..Len(members) : members'[j] = members[k] BY <1>1, <3>1, <3>2
        <4> QED BY <1>1, <4>1 DEF Cl!ToSet
      <3> QED BY <3>2, <3>3 DEF Cl!ToSet
    <2>3. CASE op.node \notin Cl!ToSet(members)
      <3>1. members' = members BY <2>1, <2>3 DEF Cl!RemoveFirst, Cl!ToSet
      <3> QED BY <1>1, <3>1
    <2> QED BY <2>2, <2>3
  <1>4. CASE op.what # "register" /\ op.what # "deregister"
    <2>1. members' = members BY <1>4 DEF Cl!Apply
    <2> QED BY <1>1, <2>1
  <1> QED BY <1>2, <1>3, <1>4

LEMMA RegistryStep == RegistryInv /\ [Cl!ClusterNext]_clusterVars => RegistryInv'
  <1> SUFFICES ASSUME RegistryInv, [Cl!ClusterNext]_clusterVars PROVE RegistryInv'
    OBVIOUS
  <1>1. CASE UNCHANGED <<members, ops>> BY <1>1 DEF RegistryInv
  <1>2. ASSUME NEW op \in OpType, members' = members, Cl!Calls(<<op>>) PROVE RegistryInv'
    BY <1>2, SingleCall, CallTyped DEF RegistryInv
  <1>3. CASE Cl!Register
    <2>1. PICK n \in Nodes \ known : Cl!Calls(<<Cl!Op("register", n, 0)>>) BY <1>3 DEF Cl!Register
    <2>2. members' = members BY <1>3 DEF Cl!Register
    <2> QED BY <1>2, <2>1, <2>2, OpTyped DEF Statuses
  <1>4. CASE Cl!Release
    <2>1. Head(ops) \in OpType /\ Tail(ops) \in Seq(OpType) /\ ops' = Tail(ops) /\ Cl!Apply(Head(ops))
      BY <1>4, HeadTailProperties DEF Cl!Release, RegistryInv
    <2> QED BY <2>1, Applied DEF RegistryInv
  <1>5. ASSUME NEW n \in Nodes, Cl!Deregister(n) \/ Cl!DrainNode(n) PROVE RegistryInv'
    <2>1. members' = members BY <1>5 DEF Cl!Deregister, Cl!DrainNode, Cl!registry
    <2>2. Cl!Calls(<<Cl!Op("deregister", n, 0)>>) \/ Cl!Calls(<<Cl!Op("status", n, "draining")>>)
      BY <1>5 DEF Cl!Deregister, Cl!DrainNode
    <2> QED BY <1>2, <2>1, <2>2, OpTyped DEF Statuses
  <1>6. ASSUME NEW n \in Nodes, Cl!Healthy(n) PROVE RegistryInv'
    <2>1. members' = members BY <1>6 DEF Cl!Healthy, Cl!registry
    <2>2. PICK l \in 0..MaxLoad :
            Cl!Calls(<<Cl!Op("heartbeat", n, l)>> \o
                     IF nodeStatus[n] = "offline" THEN <<Cl!Op("status", n, "online")>> ELSE <<>>)
      BY <1>6 DEF Cl!Healthy
    <2> DEFINE beat == <<Cl!Op("heartbeat", n, l)>>
               back == IF nodeStatus[n] = "offline" THEN <<Cl!Op("status", n, "online")>> ELSE <<>>
    <2>3. beat \in Seq(OpType) /\ back \in Seq(OpType)
      <3>1. Cl!Op("heartbeat", n, l) \in OpType /\ Cl!Op("status", n, "online") \in OpType BY OpTyped DEF Statuses
      <3>2. <<Cl!Op("heartbeat", n, l)>> \in Seq(OpType) /\ <<Cl!Op("status", n, "online")>> \in Seq(OpType)
        BY <3>1, SingleCall
      <3> QED BY <3>2
    <2>4. Cl!Calls(beat \o back) BY <2>2
    <2> HIDE DEF beat, back
    <2>5. beat \o back \in Seq(OpType) BY <2>3, ConcatProperties
    <2> QED BY <2>1, <2>4, <2>5, CallTyped DEF RegistryInv
  <1>7. ASSUME NEW n \in Nodes, Cl!Unhealthy(n) PROVE RegistryInv'
    <2>1. CASE UNCHANGED ops BY <1>1, <1>7, <2>1 DEF Cl!Unhealthy, Cl!registry
    <2>2. CASE Cl!Calls(<<Cl!Op("status", n, "offline")>>)
      <3>1. members' = members BY <1>7 DEF Cl!Unhealthy, Cl!registry
      <3> QED BY <1>2, <2>2, <3>1, OpTyped DEF Statuses
    <2> QED BY <1>7, <2>1, <2>2 DEF Cl!Unhealthy, Cl!MarkNodeOffline
  <1> QED
    BY <1>1, <1>3, <1>4, <1>5, <1>6, <1>7
    DEF clusterVars, Cl!ClusterNext, Cl!CheckAllNodes, Cl!SetStrategy, Cl!PollDrain, Cl!Distribute, Cl!Posted,
        Cl!registry

(* NodeRegistry.deregister: an answer of a health check or a drain that was   *)
(* under way does not bring a deregistered node back; only a registration     *)
(* that was asked for makes a member.                                       *)
THEOREM DeregisteredStaysGone == Spec => GoneStaysGone
  <1> DEFINE Stays == \A n \in Nodes :
                        ~Cl!Member(n) /\ (\A i \in DOMAIN ops : ops[i].what # "register" \/ ops[i].node # n)
                        /\ n \in known => ~Cl!Member(n)'
  <1>1. Init => RegistryInv BY DEF Init, Cl!Init, RegistryInv
  <1>2. RegistryInv /\ [Cl!ClusterNext]_clusterVars => [Stays]_(Cl!clusterVars)
    <2> SUFFICES ASSUME RegistryInv, [Cl!ClusterNext]_clusterVars,
                        NEW n \in Nodes, n \notin Cl!ToSet(members),
                        \A i \in DOMAIN ops : ops[i].what # "register" \/ ops[i].node # n
                 PROVE  n \notin Cl!ToSet(members')
      BY DEF Cl!Member, clusterVars, Cl!clusterVars, Cl!registry, Cl!work
    <2>1. CASE UNCHANGED members BY <2>1
    <2>2. CASE Cl!Release
      <3>1. Head(ops) \in OpType /\ Cl!Apply(Head(ops)) /\ 1 \in DOMAIN ops /\ Head(ops) = ops[1]
        BY <2>2 DEF Cl!Release, RegistryInv
      <3>2. Head(ops).what # "register" \/ Head(ops).node # n BY <3>1
      <3> QED BY <3>1, <3>2, Applied
    <2> QED
      BY <2>1, <2>2
      DEF clusterVars, Cl!ClusterNext, Cl!Register, Cl!CheckAllNodes, Cl!SetStrategy, Cl!Deregister, Cl!Healthy,
          Cl!Unhealthy, Cl!DrainNode, Cl!PollDrain, Cl!Distribute, Cl!Posted, Cl!registry
  <1> HIDE DEF Stays
  <1>3. Spec => [][Stays]_(Cl!clusterVars) BY <1>1, <1>2, Moves, RegistryStep, PTL DEF Spec, remoteVars
  <1> QED BY <1>3 DEF GoneStaysGone, Cl!GoneStaysGone, Stays

-----------------------------------------------------------------------------
(* The server's table of tasks and the streams of its subscribers.          *)

Status == {"working"} \cup A!Terminal
Line   == [kind : {"data", "blank"}, status : Status]

StreamTypeOK ==
  /\ table \in [TaskIds -> Status \cup {"none"}]
  /\ \A h \in handlers : h.task \in TaskIds
  /\ \A r \in requests : r.task \in TaskIds
  /\ sseClients \in [TaskIds -> SUBSET Subscribers]
  /\ stream \in [Subscribers -> TaskIds \cup {"none"}]
  /\ lines \in [Subscribers -> Seq(Line)]

(* A connection is listed for the task it subscribed to and for no other, so  *)
(* the events of two tasks never mix on one stream.                         *)
ListedOnce == \A t \in TaskIds : \A c \in sseClients[t] : stream[c] = t

StreamInv == StreamTypeOK /\ ListedOnce /\ SubscribersSeeTheLast

-----------------------------------------------------------------------------
\* An event goes to the end of a stream, with its status in its last line.
LEMMA EventIsLast ==
  ASSUME NEW s \in Seq(Line), NEW st \in Status
  PROVE  /\ s \o A!Event(st) \in Seq(Line) /\ s \o A!Event(st) # <<>>
         /\ A!Last(s \o A!Event(st)).status = st
  <1> DEFINE d == [kind |-> "data", status |-> st]
             b == [kind |-> "blank", status |-> st]
  <1>1. d \in Line /\ b \in Line BY DEF Line
  <1>2. A!Event(st) = <<d, b>> BY DEF A!Event
  <1>3. <<d, b>> \in Seq(Line) /\ Len(<<d, b>>) = 2 /\ <<d, b>>[2] = b BY <1>1
  <1> HIDE DEF d
  <1>4. /\ s \o <<d, b>> \in Seq(Line) /\ Len(s \o <<d, b>>) = Len(s) + 2
        /\ (s \o <<d, b>>)[Len(s) + 2] = b
    BY <1>3
  <1> QED BY <1>2, <1>4 DEF A!Last

\* What is left when a reader took a chunk ends as the whole did.
LEMMA RestEndsAlike ==
  ASSUME NEW s \in Seq(Line), NEW k \in 1..Len(s)
  PROVE  LET rest == SubSeq(s, k + 1, Len(s))
         IN  rest \in Seq(Line) /\ (rest # <<>> => s # <<>> /\ A!Last(rest) = A!Last(s))
  <1> DEFINE n == Len(s)
             rest == SubSeq(s, k + 1, n)
  <1>1. n \in Nat /\ n >= 1 /\ k \in 1..n /\ s # <<>> OBVIOUS
  <1>2. \A i \in (k + 1)..n : s[i] \in Line BY <1>1
  <1> HIDE DEF n
  <1>3. /\ rest \in Seq(Line) /\ Len(rest) = IF k + 1 <= n THEN n - (k + 1) + 1 ELSE 0
        /\ \A i \in 1..(n - (k + 1) + 1) : rest[i] = s[(k + 1) + i - 1]
    BY <1>1, <1>2, SubSeqProperties
  <1>4. ASSUME rest # <<>> PROVE A!Last(rest) = A!Last(s)
    <2>1. Len(rest) # 0 BY <1>3, <1>4
    <2>2. Len(rest) = n - k /\ n - k \in 1..(n - (k + 1) + 1) BY <1>1, <1>3, <2>1
    <2>3. rest[n - k] = s[n] BY <1>1, <1>3, <2>2
    <2> QED BY <2>2, <2>3 DEF A!Last, n
  <1> QED BY <1>1, <1>3, <1>4 DEF n

\* One task gets a status and its listed subscribers are told; others may go.
LEMMA Told ==
  ASSUME StreamInv, StreamTypeOK', NEW t \in TaskIds, NEW s \in Status,
         table'[t] = s, \A u \in TaskIds \ {t} : table'[u] \in {table[u], "none"},
         \A u \in TaskIds : sseClients'[u] \subseteq sseClients[u],
         A!NotifySubscribers(t, s, sseClients'[t])
  PROVE  SubscribersSeeTheLast'
  <1> SUFFICES ASSUME NEW u \in TaskIds, table'[u] # "none", NEW c \in sseClients'[u], lines'[c] # <<>>
               PROVE  A!Last(lines'[c]).status = table'[u]
    BY DEF SubscribersSeeTheLast, A!SubscribersSeeTheLast, A!Present
  <1>1. c \in Subscribers /\ c \in sseClients[u] /\ lines[c] \in Seq(Line) BY DEF StreamInv, StreamTypeOK
  <1>2. lines'[c] = IF c \in sseClients'[t] THEN lines[c] \o A!Event(s) ELSE lines[c]
    BY <1>1 DEF A!NotifySubscribers
  <1>3. CASE u = t BY <1>1, <1>2, <1>3, EventIsLast
  <1>4. CASE u # t
    <2>1. c \notin sseClients'[t] BY <1>1, <1>4 DEF StreamInv, ListedOnce
    <2>2. table[u] = table'[u] /\ u \in A!Present BY <1>4 DEF A!Present
    <2> QED BY <1>1, <1>2, <2>1, <2>2 DEF StreamInv, SubscribersSeeTheLast, A!SubscribersSeeTheLast
  <1> QED BY <1>3, <1>4

\* Events make streams of lines.
LEMMA ToldType ==
  ASSUME StreamTypeOK, NEW t \in TaskIds, NEW s \in Status, NEW L, A!NotifySubscribers(t, s, L)
  PROVE  lines' \in [Subscribers -> Seq(Line)]
  <1>1. \A c \in Subscribers : lines[c] \in Seq(Line) /\ lines[c] \o A!Event(s) \in Seq(Line)
    BY EventIsLast DEF StreamTypeOK
  <1> QED BY <1>1 DEF A!NotifySubscribers

-----------------------------------------------------------------------------
\* The actions that tell subscribers something.
LEMMA Sent == ASSUME StreamInv, NEW r \in requests, A!HandleJsonRpc(r), A!HandleTaskSend(r) PROVE StreamInv'
  <1> DEFINE tab == [table EXCEPT ![r.task] = "working"]
  <1>1. r.task \in TaskIds BY DEF StreamInv, StreamTypeOK
  <1>2. PICK gone \in SUBSET TaskIds :
          /\ A!EvictStaleTasks(tab, gone)
          /\ table' = [t \in TaskIds |-> IF t \in gone THEN "none" ELSE tab[t]]
          /\ sseClients' = [t \in TaskIds |-> IF t \in gone THEN {} ELSE sseClients[t]]
          /\ A!NotifySubscribers(r.task, "working", sseClients'[r.task])
          /\ A!Work(r)
    BY DEF A!HandleTaskSend
  <1>3. tab[r.task] = "working" /\ tab \in [TaskIds -> Status \cup {"none"}]
    BY <1>1 DEF StreamInv, StreamTypeOK, Status
  <1>4. r.task \notin gone
    BY <1>2, <1>3 DEF A!EvictStaleTasks, A!Terminal
  <1>5. /\ table' \in [TaskIds -> Status \cup {"none"}] /\ table'[r.task] = "working"
        /\ \A u \in TaskIds \ {r.task} : table'[u] \in {table[u], "none"}
    BY <1>1, <1>2, <1>3, <1>4 DEF StreamInv, StreamTypeOK
  <1>6. /\ sseClients' \in [TaskIds -> SUBSET Subscribers]
        /\ \A u \in TaskIds : sseClients'[u] \subseteq sseClients[u]
    BY <1>2 DEF StreamInv, StreamTypeOK
  <1>7. "working" \in Status BY DEF Status
  <1>8. lines' \in [Subscribers -> Seq(Line)] BY <1>1, <1>2, <1>7, ToldType DEF StreamInv
  <1>9. stream' = stream /\ requests' = requests \ {r} BY DEF A!HandleJsonRpc
  <1>10. StreamTypeOK'
    <2>1. \A h \in handlers' : h.task \in TaskIds BY <1>1, <1>2 DEF A!Work, StreamInv, StreamTypeOK
    <2> QED BY <1>5, <1>6, <1>8, <1>9, <2>1 DEF StreamInv, StreamTypeOK
  <1>11. ListedOnce' BY <1>6, <1>9 DEF StreamInv, ListedOnce
  <1>12. SubscribersSeeTheLast' BY <1>1, <1>2, <1>5, <1>6, <1>7, <1>10, Told
  <1> QED BY <1>10, <1>11, <1>12 DEF StreamInv

\* A status that a cancellation or the end of a handler gives a task.
LEMMA Answered ==
  ASSUME StreamInv, NEW t \in TaskIds, NEW s \in A!Terminal, handlers' \subseteq handlers, requests' \subseteq requests,
         table' = [table EXCEPT ![t] = s], A!NotifySubscribers(t, s, sseClients[t]), UNCHANGED <<sseClients, stream>>
  PROVE  StreamInv'
  <1>1. s \in Status BY DEF Status
  <1>2. /\ table' \in [TaskIds -> Status \cup {"none"}] /\ table'[t] = s
        /\ \A u \in TaskIds \ {t} : table'[u] \in {table[u], "none"}
    BY <1>1 DEF StreamInv, StreamTypeOK
  <1>3. lines' \in [Subscribers -> Seq(Line)] BY <1>1, ToldType DEF StreamInv
  <1>4. StreamTypeOK' BY <1>2, <1>3 DEF StreamInv, StreamTypeOK
  <1>5. ListedOnce' BY DEF StreamInv, ListedOnce
  <1>6. SubscribersSeeTheLast' BY <1>1, <1>2, <1>4, Told
  <1> QED BY <1>4, <1>5, <1>6 DEF StreamInv

\* The actions on the streams themselves.
LEMMA Subscribed ==
  ASSUME StreamInv, NEW c \in Subscribers, NEW t \in TaskIds, A!HandleTaskSubscribe(c, t)
  PROVE  StreamInv'
  <1>1. /\ stream[c] = "none" /\ lines[c] = <<>> /\ stream' = [stream EXCEPT ![c] = t]
        /\ sseClients' = [sseClients EXCEPT ![t] = @ \cup {c}]
        /\ lines' = [lines EXCEPT ![c] = IF table[t] = "none" THEN @ ELSE @ \o A!Event(table[t])]
        /\ UNCHANGED <<table, handlers, requests>>
    BY DEF A!HandleTaskSubscribe, A!callVars
  <1>2. \A u \in TaskIds : c \notin sseClients[u] BY <1>1, NoneAssumption DEF StreamInv, ListedOnce
  <1>3. table[t] # "none" => /\ lines[c] \o A!Event(table[t]) \in Seq(Line)
                             /\ A!Last(lines[c] \o A!Event(table[t])).status = table[t]
    BY EventIsLast DEF StreamInv, StreamTypeOK
  <1>4. lines' \in [Subscribers -> Seq(Line)] BY <1>1, <1>3 DEF StreamInv, StreamTypeOK
  <1>5. StreamTypeOK' BY <1>1, <1>4 DEF StreamInv, StreamTypeOK
  <1>6. ListedOnce' BY <1>1, <1>2 DEF StreamInv, ListedOnce, StreamTypeOK
  <1>7. SubscribersSeeTheLast'
    <2> SUFFICES ASSUME NEW u \in TaskIds, table[u] # "none", NEW d \in sseClients'[u], lines'[d] # <<>>
                 PROVE  A!Last(lines'[d]).status = table[u]
      BY <1>1 DEF SubscribersSeeTheLast, A!SubscribersSeeTheLast, A!Present
    <2>1. CASE d = c
      <3>1. u = t BY <1>1, <1>2, <2>1 DEF StreamInv, StreamTypeOK
      <3> QED BY <1>1, <1>3, <2>1, <3>1 DEF StreamInv, StreamTypeOK
    <2>2. CASE d # c
      BY <1>1, <2>2 DEF StreamInv, StreamTypeOK, SubscribersSeeTheLast, A!SubscribersSeeTheLast, A!Present
    <2> QED BY <2>1, <2>2
  <1> QED BY <1>5, <1>6, <1>7 DEF StreamInv

LEMMA Read == ASSUME StreamInv, NEW c \in Subscribers, A!SubscribeTask(c) PROVE StreamInv'
  <1>1. PICK k \in 1..Len(lines[c]) : lines' = [lines EXCEPT ![c] = SubSeq(@, k + 1, Len(@))]
    BY DEF A!SubscribeTask
  <1> DEFINE rest == SubSeq(lines[c], k + 1, Len(lines[c]))
  <1>2. lines[c] \in Seq(Line) BY DEF StreamInv, StreamTypeOK
  <1>3. rest \in Seq(Line) /\ (rest # <<>> => lines[c] # <<>> /\ A!Last(rest) = A!Last(lines[c]))
    BY <1>1, <1>2, RestEndsAlike
  <1> HIDE DEF rest
  <1>4. lines' = [lines EXCEPT ![c] = rest] BY <1>1 DEF rest
  <1>5. UNCHANGED <<table, handlers, sseClients, stream, requests>>
    BY DEF A!SubscribeTask, A!serverVars, A!callVars
  <1>6. StreamTypeOK' BY <1>3, <1>4, <1>5 DEF StreamInv, StreamTypeOK
  <1>7. ListedOnce' BY <1>5 DEF StreamInv, ListedOnce
  <1>8. SubscribersSeeTheLast'
    <2> SUFFICES ASSUME NEW u \in TaskIds, table[u] # "none", NEW d \in sseClients[u], lines'[d] # <<>>
                 PROVE  A!Last(lines'[d]).status = table[u]
      BY <1>5 DEF SubscribersSeeTheLast, A!SubscribersSeeTheLast, A!Present
    <2>1. d \in Subscribers /\ u \in A!Present BY DEF StreamInv, StreamTypeOK, A!Present
    <2>2. lines[d] # <<>> /\ A!Last(lines'[d]) = A!Last(lines[d]) BY <1>3, <1>4, <2>1 DEF StreamInv, StreamTypeOK
    <2> QED BY <2>1, <2>2 DEF StreamInv, SubscribersSeeTheLast, A!SubscribersSeeTheLast
  <1> QED BY <1>6, <1>7, <1>8 DEF StreamInv

LEMMA Closed == ASSUME StreamInv, NEW c \in Subscribers, A!StreamCloses(c) PROVE StreamInv'
  <1>1. /\ stream[c] # "none" /\ stream' = [stream EXCEPT ![c] = "none"]
        /\ sseClients' = [sseClients EXCEPT ![stream[c]] = @ \ {c}]
        /\ UNCHANGED <<table, handlers, lines, requests>>
    BY DEF A!StreamCloses, A!callVars
  <1>2. \A u \in TaskIds : sseClients'[u] \subseteq sseClients[u] \ {c}
    BY <1>1 DEF StreamInv, StreamTypeOK, ListedOnce
  <1>3. StreamTypeOK' BY <1>1, <1>2 DEF StreamInv, StreamTypeOK
  <1>4. ListedOnce' BY <1>1, <1>2 DEF StreamInv, StreamTypeOK, ListedOnce
  <1>5. SubscribersSeeTheLast' BY <1>1, <1>2 DEF StreamInv, SubscribersSeeTheLast, A!SubscribersSeeTheLast, A!Present
  <1> QED BY <1>3, <1>4, <1>5 DEF StreamInv

\* The actions that tell nobody: what is listed shrinks or stays.
LEMMA Silent ==
  ASSUME StreamInv, UNCHANGED <<table, lines>>, handlers' \subseteq handlers,
         \A r \in requests' : r.task \in TaskIds,
         \/ UNCHANGED <<sseClients, stream>>
         \/ /\ sseClients' = [t \in TaskIds |-> {}]
            /\ stream' = [c \in Subscribers |-> "none"]
  PROVE  StreamInv'
  <1>1. StreamTypeOK' BY DEF StreamInv, StreamTypeOK
  <1>2. ListedOnce' BY DEF StreamInv, ListedOnce
  <1>3. SubscribersSeeTheLast' BY DEF StreamInv, SubscribersSeeTheLast, A!SubscribersSeeTheLast, A!Present
  <1> QED BY <1>1, <1>2, <1>3 DEF StreamInv

LEMMA StreamStep == ASSUME StreamInv, [A!A2ANext]_a2aVars PROVE StreamInv'
  <1> USE DEF A!serverVars, A!streamVars, A!callVars
  <1>1. CASE UNCHANGED a2aVars BY <1>1, Silent DEF a2aVars, StreamInv, StreamTypeOK
  <1>2. CASE A!Stop BY <1>2, Silent DEF A!Stop, StreamInv, StreamTypeOK
  <1>3. CASE A!Start \/ A!SetTaskHandler
    BY <1>3, Silent DEF A!Start, A!SetTaskHandler, StreamInv, StreamTypeOK
  <1>4. ASSUME NEW method, A!RpcCall(method) PROVE StreamInv'
    <2>1. \A r \in requests' : r.task \in TaskIds BY <1>4 DEF A!RpcCall, StreamInv, StreamTypeOK
    <2> QED BY <1>4, <2>1, Silent DEF A!RpcCall
  <1>5. ASSUME NEW r \in requests, A!FetchTimesOut(r) PROVE StreamInv'
    BY <1>5, Silent DEF A!FetchTimesOut, StreamInv, StreamTypeOK
  <1>6. ASSUME NEW r \in requests, A!HandleJsonRpc(r) PROVE StreamInv'
    <2>1. CASE A!HandleTaskSend(r) BY <1>6, <2>1, Sent
    <2>2. CASE UNCHANGED <<table, handlers, sseClients, lines>>
      BY <1>6, <2>2, Silent DEF A!HandleJsonRpc, StreamInv, StreamTypeOK
    <2>3. CASE A!HandleTaskCancel(r) /\ table[r.task] # "none"
      <3>1. r.task \in TaskIds /\ "cancelled" \in A!Terminal BY DEF StreamInv, StreamTypeOK, A!Terminal
      <3> QED BY <1>6, <2>3, <3>1, Answered DEF A!HandleTaskCancel, A!HandleJsonRpc
    <2> QED BY <1>6, <2>1, <2>2, <2>3 DEF A!HandleJsonRpc, A!HandleTaskGet, A!HandleTaskCancel
  <1>7. ASSUME NEW h \in handlers, A!HandlerAnswers(h) \/ A!HandlerThrows(h) PROVE StreamInv'
    <2>1. h.task \in TaskIds /\ "failed" \in A!Terminal BY DEF StreamInv, StreamTypeOK, A!Terminal
    <2>2. PICK s \in A!Terminal : A!HandlerDone(h, s) BY <1>7, <2>1 DEF A!HandlerAnswers, A!HandlerThrows
    <2>3. handlers' = handlers \ {h} /\ UNCHANGED <<sseClients, stream, requests>>
      BY <1>7 DEF A!HandlerAnswers, A!HandlerThrows
    <2> QED BY <2>1, <2>2, <2>3, Answered DEF A!HandlerDone
  <1>8. ASSUME NEW c \in Subscribers, A!SubscribeTask(c) \/ A!StreamCloses(c) PROVE StreamInv'
    BY <1>8, Read, Closed
  <1>9. ASSUME NEW c \in Subscribers, NEW t \in TaskIds, A!HandleTaskSubscribe(c, t) PROVE StreamInv'
    BY <1>9, Subscribed
  <1> QED BY <1>1, <1>2, <1>3, <1>4, <1>5, <1>6, <1>7, <1>8, <1>9 DEF A!A2ANext

LEMMA StreamInit == Init => StreamInv
  <1> SUFFICES ASSUME Init PROVE StreamInv OBVIOUS
  <1>1. StreamTypeOK BY DEF Init, A!Init, StreamTypeOK
  <1>2. ListedOnce BY DEF Init, A!Init, ListedOnce
  <1>3. SubscribersSeeTheLast BY DEF Init, A!Init, SubscribersSeeTheLast, A!SubscribersSeeTheLast, A!Present
  <1> QED BY <1>1, <1>2, <1>3 DEF StreamInv

(* notifySubscribers: whatever sends, cancellations, answers of handlers that  *)
(* come after a cancellation or an eviction, failures and reconnections do,   *)
(* the last event sent to a listed subscriber is the status of its task.      *)
THEOREM SubscribersAreCurrent == Spec => []SubscribersSeeTheLast
  <1>1. StreamInv /\ [A!A2ANext]_a2aVars => StreamInv' BY StreamStep
  <1>2. StreamInv => SubscribersSeeTheLast BY DEF StreamInv
  <1> QED BY <1>1, <1>2, Moves, StreamInit, PTL DEF Spec, remoteVars

-----------------------------------------------------------------------------
(* handleTaskSend: a task that is shown as working has a handler at work,      *)
(* however many sends, evictions and late answers it went through, unless it   *)
(* was last sent while the server had no handler.                             *)
THEOREM NoOrphanedTask == Spec => []WorkingIsWorked
  <1>1. Init => WorkingIsWorked BY DEF Init, A!Init, WorkingIsWorked, A!WorkingIsWorked
  <1>2. StreamInv /\ WorkingIsWorked /\ [A!A2ANext]_a2aVars => WorkingIsWorked'
    <2> SUFFICES ASSUME StreamInv, WorkingIsWorked, [A!A2ANext]_a2aVars PROVE WorkingIsWorked'
      OBVIOUS
    <2> USE DEF A!serverVars, A!streamVars, A!callVars
    <2>1. ASSUME NEW h \in handlers, A!HandlerAnswers(h) \/ A!HandlerThrows(h) PROVE WorkingIsWorked'
      <3>1. PICK s \in A!Terminal : A!HandlerDone(h, s)
        BY <2>1 DEF A!HandlerAnswers, A!HandlerThrows, A!Terminal
      <3>2. h.task \in TaskIds /\ s # "working" BY DEF StreamInv, StreamTypeOK, A!Terminal
      <3>3. \A t \in TaskIds : table'[t] = "working" => table[t] = "working" /\ t # h.task
        BY <3>1, <3>2 DEF A!HandlerDone, StreamInv, StreamTypeOK
      <3>4. handlers' = handlers \ {h} /\ UNCHANGED unheard BY <2>1 DEF A!HandlerAnswers, A!HandlerThrows
      <3> QED BY <3>3, <3>4 DEF WorkingIsWorked, A!WorkingIsWorked
    <2>2. ASSUME NEW r \in requests, A!HandleTaskSend(r) PROVE WorkingIsWorked'
      <3>1. r.task \in TaskIds BY DEF StreamInv, StreamTypeOK
      <3>2. \A t \in TaskIds : table'[t] = "working" => table[t] = "working" \/ t = r.task
        BY <2>2, <3>1 DEF A!HandleTaskSend, StreamInv, StreamTypeOK
      <3>3. A!Work(r) BY <2>2 DEF A!HandleTaskSend
      <3>4. r.task \in unheard' \/ \E h \in handlers' : h.task = r.task
        <4> DEFINE h == [task |-> r.task, no |-> r.id]
        <4>1. h.task = r.task OBVIOUS
        <4>2. taskHandler => h \in handlers' BY <3>3 DEF A!Work
        <4>3. ~taskHandler => r.task \in unheard' BY <3>3 DEF A!Work
        <4> QED BY <4>1, <4>2, <4>3
      <3>5. \A t \in TaskIds : table[t] = "working" /\ t # r.task =>
              t \in unheard' \/ \E h \in handlers' : h.task = t
        BY <3>3 DEF A!Work, WorkingIsWorked, A!WorkingIsWorked
      <3> QED BY <3>2, <3>4, <3>5 DEF WorkingIsWorked, A!WorkingIsWorked
    <2>3. ASSUME NEW r \in requests, A!HandleTaskCancel(r) PROVE WorkingIsWorked'
      <3>1. \A t \in TaskIds : table'[t] = "working" => table[t] = "working"
        BY <2>3 DEF A!HandleTaskCancel, StreamInv, StreamTypeOK
      <3> QED BY <2>3, <3>1 DEF WorkingIsWorked, A!WorkingIsWorked, A!HandleTaskCancel
    <2>4. CASE UNCHANGED <<table, handlers, unheard>> BY <2>4 DEF WorkingIsWorked, A!WorkingIsWorked
    <2>5. UNCHANGED a2aVars => UNCHANGED <<table, handlers, unheard>> BY DEF a2aVars
    <2> QED
      BY <2>1, <2>2, <2>3, <2>4, <2>5
      DEF A!A2ANext, A!Stop, A!Start, A!SetTaskHandler, A!RpcCall, A!FetchTimesOut, A!HandleJsonRpc,
          A!HandleTaskGet, A!SubscribeTask, A!StreamCloses, A!HandleTaskSubscribe
  <1>3. StreamInv /\ [A!A2ANext]_a2aVars => StreamInv' BY StreamStep
  <1> QED BY <1>1, <1>2, <1>3, Moves, StreamInit, PTL DEF Spec, remoteVars

-----------------------------------------------------------------------------
(* The slots of the MCP client.                                             *)

WokenCalls == {c \in Callers : pcCall[c] = "woken"}

\* The callers in the queue are queued, each once; the woken ones can be counted.
QueueOK ==
  /\ callQueue \in Seq(Callers)
  /\ \A i \in DOMAIN callQueue : pcCall[callQueue[i]] = "queued"
  /\ \A i, j \in DOMAIN callQueue : callQueue[i] = callQueue[j] => i = j

SlotInv ==
  /\ pcCall \in [Callers -> {"idle", "queued", "calling", "settled", "woken", "done"}]
  /\ activeCalls \in Int
  /\ QueueOK /\ IsFiniteSet(WokenCalls)
  /\ NoIdleSlot

\* The invariant with the cardinality the theorems about finite sets speak of.
LEMMA NoIdleSlotMeans ==
  NoIdleSlot <=> (callQueue # <<>> => activeCalls + Cardinality(WokenCalls) >= MaxConcurrentCalls)
  <1>1. \A S : M!Cardinality(S) = Cardinality(S) BY DEF M!Cardinality, Cardinality
  <1> QED BY <1>1 DEF NoIdleSlot, M!NoIdleSlot, WokenCalls

LEMMA NoIdleSlotMeansNext ==
  NoIdleSlot' <=> (callQueue' # <<>> => activeCalls' + Cardinality(WokenCalls') >= MaxConcurrentCalls)
  <1>1. \A S : M!Cardinality(S) = Cardinality(S) BY DEF M!Cardinality, Cardinality
  <1> QED BY <1>1 DEF NoIdleSlot, M!NoIdleSlot, WokenCalls

LEMMA SlotInit == Init => SlotInv
  <1> SUFFICES ASSUME Init PROVE SlotInv OBVIOUS
  <1>1. WokenCalls = {} BY DEF Init, M!Init, WokenCalls
  <1>2. IsFiniteSet(WokenCalls) BY <1>1, FS_EmptySet
  <1> QED BY <1>2 DEF Init, M!Init, SlotInv, QueueOK, NoIdleSlot, M!NoIdleSlot

\* What settles a request wakes nobody and leaves the queue alone.
LEMMA SettledKeeps ==
  ASSUME SlotInv, NEW gone, M!Settled(gone), UNCHANGED <<callQueue, activeCalls>> PROVE SlotInv'
  <1>1. /\ pcCall' \in [Callers -> {"idle", "queued", "calling", "settled", "woken", "done"}]
        /\ \A c \in Callers : pcCall[c] \in {"queued", "woken"} <=> pcCall'[c] \in {"queued", "woken"}
        /\ \A c \in Callers : pcCall[c] \in {"queued", "woken"} => pcCall'[c] = pcCall[c]
    BY DEF M!Settled, SlotInv
  <1>2. WokenCalls' = WokenCalls BY <1>1 DEF WokenCalls
  <1>3. QueueOK' BY <1>1 DEF QueueOK, SlotInv
  <1> QED BY <1>1, <1>2, <1>3 DEF SlotInv, NoIdleSlot, M!NoIdleSlot, WokenCalls

\* A call that was not queued takes a slot: it counts, and is no longer woken.
LEMMA Occupied ==
  ASSUME SlotInv, NEW c \in Callers, pcCall[c] \in {"idle", "woken"}, M!Occupy(c), UNCHANGED callQueue
  PROVE  SlotInv'
  <1>1. activeCalls' = activeCalls + 1 BY DEF M!Occupy
  <1>2. PICK s \in {"settled", "calling"} : pcCall' = [pcCall EXCEPT ![c] = s] BY DEF M!Occupy
  <1>3. WokenCalls' = WokenCalls \ {c} BY <1>2 DEF WokenCalls, SlotInv
  <1>4. /\ IsFiniteSet(WokenCalls) /\ IsFiniteSet(WokenCalls')
        /\ Cardinality(WokenCalls) \in Nat /\ Cardinality(WokenCalls') \in Nat
        /\ Cardinality(WokenCalls') >= Cardinality(WokenCalls) - 1
    <2>1. IsFiniteSet(WokenCalls) BY DEF SlotInv
    <2>2. IsFiniteSet(WokenCalls \ {c}) BY <2>1, FS_RemoveElement
    <2>3. Cardinality(WokenCalls) \in Nat /\ Cardinality(WokenCalls \ {c}) \in Nat
      BY <2>1, <2>2, FS_CardinalityType
    <2>4. Cardinality(WokenCalls \ {c}) = IF c \in WokenCalls THEN Cardinality(WokenCalls) - 1
                                                           ELSE Cardinality(WokenCalls)
      BY <2>1, FS_RemoveElement
    <2> QED BY <1>3, <2>1, <2>2, <2>3, <2>4
  <1>5. QueueOK' BY <1>2 DEF QueueOK, SlotInv
  <1>6. NoIdleSlot' BY <1>1, <1>4, SlotsAssumption, NoIdleSlotMeans, NoIdleSlotMeansNext DEF SlotInv
  <1> QED BY <1>1, <1>2, <1>4, <1>5, <1>6 DEF SlotInv

\* With all the slots taken a call goes to the end of the queue.
LEMMA Queued ==
  ASSUME SlotInv, NEW c \in Callers, pcCall[c] = "idle", activeCalls >= MaxConcurrentCalls,
         callQueue' = Append(callQueue, c), pcCall' = [pcCall EXCEPT ![c] = "queued"], UNCHANGED activeCalls
  PROVE  SlotInv'
  <1>1. WokenCalls' = WokenCalls BY DEF WokenCalls, SlotInv
  <1>2. Cardinality(WokenCalls) \in Nat BY FS_CardinalityType DEF SlotInv
  <1>3. QueueOK'
    <2>1. \A i \in DOMAIN callQueue : callQueue[i] # c BY DEF QueueOK, SlotInv
    <2>2. /\ callQueue \in Seq(Callers) /\ callQueue' \in Seq(Callers) /\ Len(callQueue') = Len(callQueue) + 1
          /\ \A i \in 1..Len(callQueue) : callQueue'[i] = callQueue[i]
          /\ callQueue'[Len(callQueue) + 1] = c
      BY AppendProperties DEF QueueOK, SlotInv
    <2>3. \A i \in DOMAIN callQueue' : i \in DOMAIN callQueue \/ i = Len(callQueue) + 1 BY <2>2
    <2>4. ASSUME NEW i \in DOMAIN callQueue' PROVE pcCall'[callQueue'[i]] = "queued"
      BY <2>2, <2>3 DEF QueueOK, SlotInv
    <2>5. ASSUME NEW i \in DOMAIN callQueue', NEW j \in DOMAIN callQueue', callQueue'[i] = callQueue'[j]
          PROVE  i = j
      BY <2>1, <2>2, <2>3, <2>5 DEF QueueOK, SlotInv
    <2> QED BY <2>2, <2>4, <2>5 DEF QueueOK
  <1>4. NoIdleSlot' BY <1>1, <1>2, SlotsAssumption, NoIdleSlotMeans, NoIdleSlotMeansNext DEF SlotInv
  <1> QED BY <1>1, <1>3, <1>4 DEF SlotInv

\* A call that ends gives its slot up, and the first of the queue is woken for it.
LEMMA Finished == ASSUME SlotInv, NEW c \in Callers, M!Finish(c) PROVE SlotInv'
  <1>1. pcCall[c] = "settled" /\ activeCalls' = activeCalls - 1 BY DEF M!Finish
  <1>2. CASE callQueue = <<>>
    <2>1. pcCall' = [pcCall EXCEPT ![c] = "done"] /\ callQueue' = <<>> BY <1>2 DEF M!Finish
    <2>2. WokenCalls' = WokenCalls BY <1>1, <2>1 DEF WokenCalls, SlotInv
    <2>3. QueueOK' BY <2>1 DEF QueueOK
    <2> QED BY <1>1, <2>1, <2>2, <2>3 DEF SlotInv, NoIdleSlot, M!NoIdleSlot
  <1>3. CASE callQueue # <<>>
    <2> DEFINE h == Head(callQueue)
    <2>1. /\ pcCall' = [pcCall EXCEPT ![c] = "done", ![h] = "woken"]
          /\ callQueue' = Tail(callQueue)
      BY <1>3 DEF M!Finish
    <2>2. /\ h \in Callers /\ h = callQueue[1] /\ callQueue \in Seq(Callers) /\ callQueue' \in Seq(Callers)
          /\ Len(callQueue') = Len(callQueue) - 1
          /\ \A i \in 1..Len(callQueue') : callQueue'[i] = callQueue[i + 1]
      BY <1>3, <2>1, HeadTailProperties DEF QueueOK, SlotInv
    <2> HIDE DEF h
    <2>3. pcCall[h] = "queued" /\ h # c BY <1>1, <1>3, <2>2 DEF QueueOK, SlotInv
    <2>4. /\ WokenCalls' = WokenCalls \cup {h} /\ h \notin WokenCalls
          /\ pcCall' \in [Callers -> {"idle", "queued", "calling", "settled", "woken", "done"}]
      BY <1>1, <2>1, <2>2, <2>3 DEF WokenCalls, SlotInv
    <2>5. /\ IsFiniteSet(WokenCalls') /\ Cardinality(WokenCalls) \in Nat
          /\ Cardinality(WokenCalls') = Cardinality(WokenCalls) + 1
      BY <2>4, FS_AddElement, FS_CardinalityType DEF SlotInv
    <2>6. QueueOK'
      <3>1. ASSUME NEW i \in DOMAIN callQueue'
            PROVE  i + 1 \in DOMAIN callQueue /\ i + 1 # 1 /\ callQueue'[i] = callQueue[i + 1]
        BY <2>2
      <3>2. ASSUME NEW i \in DOMAIN callQueue' PROVE pcCall'[callQueue'[i]] = "queued"
        <4>1. callQueue[i + 1] # h /\ pcCall[callQueue[i + 1]] = "queued" /\ 1 \in DOMAIN callQueue
          BY <1>3, <2>2, <3>1 DEF QueueOK, SlotInv
        <4>2. callQueue[i + 1] \in Callers /\ callQueue[i + 1] # c BY <1>1, <2>2, <3>1, <4>1
        <4> QED BY <2>1, <3>1, <4>1, <4>2 DEF SlotInv
      <3>3. ASSUME NEW i \in DOMAIN callQueue', NEW j \in DOMAIN callQueue', callQueue'[i] = callQueue'[j]
            PROVE  i = j
        <4>1. i + 1 = j + 1 BY <3>1, <3>3 DEF QueueOK, SlotInv
        <4>2. i \in Nat /\ j \in Nat BY <2>2
        <4> QED BY <4>1, <4>2
      <3> QED BY <2>2, <3>2, <3>3 DEF QueueOK
    <2>7. NoIdleSlot' BY <1>1, <1>3, <2>5, SlotsAssumption, NoIdleSlotMeans, NoIdleSlotMeansNext DEF SlotInv
    <2> QED BY <1>1, <2>4, <2>5, <2>6, <2>7 DEF SlotInv
  <1> QED BY <1>2, <1>3

LEMMA SlotStep == SlotInv /\ [M!McpNext]_mcpVars => SlotInv'
  <1> SUFFICES ASSUME SlotInv, [M!McpNext]_mcpVars PROVE SlotInv'
    OBVIOUS
  <1> USE DEF M!linkVars, M!slotVars
  <1>1. CASE UNCHANGED <<pcCall, callQueue, activeCalls>>
    BY <1>1 DEF SlotInv, QueueOK, WokenCalls, NoIdleSlot, M!NoIdleSlot
  <1>2. CASE M!Connect BY <1>1, <1>2 DEF M!Connect
  <1>3. CASE M!Disconnect BY <1>3, SettledKeeps DEF M!Disconnect, M!RejectAllPending
  <1>4. ASSUME NEW n, M!ChildExits(n) \/ M!OnExit(n) PROVE SlotInv'
    BY <1>1, <1>4, SettledKeeps DEF M!ChildExits, M!OnExit, M!RejectAllPending
  <1>5. ASSUME NEW who, M!TimesOut(who) PROVE SlotInv' BY <1>5, SettledKeeps DEF M!TimesOut
  <1>6. ASSUME NEW c \in Callers, M!CallTool(c) PROVE SlotInv' BY <1>6, Occupied, Queued DEF M!CallTool
  <1>7. ASSUME NEW c \in Callers, M!Finish(c) PROVE SlotInv' BY <1>7, Finished
  <1>8. ASSUME NEW c \in Callers, M!Woken(c) PROVE SlotInv' BY <1>8, Occupied DEF M!Woken
  <1>9. ASSUME NEW r, M!Answer(r) PROVE SlotInv' BY <1>9, SettledKeeps DEF M!Answer
  <1>10. ASSUME NEW r, M!HandleInitialize(r) \/ M!HandleToolsCall(r) \/ M!PollWorkflowCompletion(r) PROVE SlotInv'
    BY <1>1, <1>9, <1>10 DEF M!HandleInitialize, M!HandleToolsCall, M!PollWorkflowCompletion, M!WorkflowTool
  <1> QED
    BY <1>1, <1>2, <1>3, <1>4, <1>5, <1>6, <1>7, <1>8, <1>10 DEF M!McpNext, mcpVars

(* callTool: whatever ends a call (its answer, its timer, an exit, a         *)
(* disconnection, the lack of a child), nobody stays in callQueue beside a    *)
(* slot that is neither taken nor about to be taken by a woken call.         *)
THEOREM QueueMovesOn == Spec => []NoIdleSlot
  <1>1. SlotInv => NoIdleSlot BY DEF SlotInv
  <1> QED BY <1>1, SlotInit, SlotStep, Moves, PTL DEF Spec, remoteVars

-----------------------------------------------------------------------------
(* The executor.                                                            *)

\* Where the record of an execution has its verdict, or has had one.
Decided == {"remove", "failed", "succeeded", "lost", "returned"}
Steps    == {"create", "start", "wait", "logs", "pid"} \cup Decided
Records  == {"pending", "running", "completed", "failed", "cancelled"}
Results  == Records \cup {"none"}
ExecType == [task : TaskNames, backend : E!Backends, step : Steps, result : Results]

ExecutorInv ==
  /\ exec \in Seq(ExecType) /\ recordStatus \in Seq(Records) /\ Len(recordStatus) = Len(exec)
  /\ recordOf \in [E!Backends -> [TaskNames -> 0..Len(exec)]]
  /\ \A c \in cancelling : c.task \in TaskNames
  /\ activeTasks = [t \in TaskNames |-> activeTasks[t]]
  /\ \A e \in DOMAIN exec : exec[e].step \in Decided => ~E!Open(recordStatus[e])
  /\ BlockersAreInFlight

\* An execution moves on, and its record gets a status: a step past the verdict
\* goes with one that is not open, and to return is to leave activeTasks.
LEMMA Moved ==
  ASSUME ExecutorInv, NEW e \in DOMAIN exec, NEW x \in ExecType, NEW s \in Records,
         x.task = exec[e].task, exec' = [exec EXCEPT ![e] = x],
         recordStatus' = [recordStatus EXCEPT ![e] = s],
         x.step \in Decided => ~E!Open(s),
         UNCHANGED <<recordOf, cancelling>>,
         \/ x.step # "returned" /\ activeTasks' = activeTasks
         \/ activeTasks' = [activeTasks EXCEPT ![exec[e].task] = "none"]
  PROVE  ExecutorInv'
  <1> DEFINE n == Len(exec)
  <1>1. /\ n \in Nat /\ DOMAIN exec = 1..n /\ DOMAIN recordStatus = 1..n
        /\ exec' \in Seq(ExecType) /\ recordStatus' \in Seq(Records)
        /\ Len(exec') = n /\ Len(recordStatus') = n
        /\ \A f \in 1..n : exec'[f] = IF f = e THEN x ELSE exec[f]
        /\ \A f \in 1..n : recordStatus'[f] = IF f = e THEN s ELSE recordStatus[f]
    BY DEF ExecutorInv
  <1>2. recordOf' \in [E!Backends -> [TaskNames -> 0..n]] BY DEF ExecutorInv
  <1>3. \A f \in 1..n : exec'[f].step \in Decided => ~E!Open(recordStatus'[f]) BY <1>1 DEF ExecutorInv
  <1>4. activeTasks' = [t \in TaskNames |-> activeTasks'[t]] BY DEF ExecutorInv
  <1>5. ASSUME NEW t \in TaskNames, NEW b \in E!Backends, recordOf'[b][t] # 0, E!Open(recordStatus'[recordOf'[b][t]])
        PROVE  recordOf'[b][t] \in E!InFlight'
    <2>1. recordOf'[b][t] \in 1..n BY <1>1, <1>2, <1>5
    <2>2. exec'[recordOf'[b][t]].step \notin Decided BY <1>3, <1>5, <2>1
    <2> QED BY <1>1, <2>1, <2>2 DEF E!InFlight, E!Execs, Decided
  <1>6. ASSUME NEW t \in TaskNames, activeTasks'[t] # "none" PROVE \E f \in E!InFlight' : exec'[f].task = t
    <2>1. activeTasks[t] # "none" /\ (x.step = "returned" => t # exec[e].task) BY <1>6 DEF ExecutorInv
    <2>2. PICK f \in 1..n : exec[f].step # "returned" /\ exec[f].task = t
      BY <1>1, <2>1 DEF ExecutorInv, BlockersAreInFlight, E!BlockersAreInFlight, E!InFlight, E!Execs
    <2>3. exec'[f].step # "returned" /\ exec'[f].task = t BY <1>1, <2>1, <2>2
    <2> QED BY <1>1, <2>3 DEF E!InFlight, E!Execs
  <1>7. BlockersAreInFlight' BY <1>5, <1>6 DEF BlockersAreInFlight, E!BlockersAreInFlight
  <1> QED BY <1>1, <1>2, <1>3, <1>4, <1>7 DEF ExecutorInv

\* Records are given up or closed, and tasks forgotten.
LEMMA Closing ==
  ASSUME ExecutorInv, exec' = exec, recordStatus' \in Seq(Records), Len(recordStatus') = Len(recordStatus),
         \A e \in DOMAIN exec : recordStatus'[e] = recordStatus[e] \/ ~E!Open(recordStatus'[e]),
         recordOf' \in [E!Backends -> [TaskNames -> 0..Len(exec)]],
         \A b \in E!Backends, t \in TaskNames : recordOf'[b][t] \in {0, recordOf[b][t]},
         activeTasks' = [t \in TaskNames |-> activeTasks'[t]],
         \A t \in TaskNames : activeTasks'[t] \in {"none", activeTasks[t]},
         \A c \in cancelling' : c.task \in TaskNames
  PROVE  ExecutorInv'
  <1>1. \A e \in DOMAIN exec : exec[e].step \in Decided => ~E!Open(recordStatus'[e]) BY DEF ExecutorInv
  <1>2. ASSUME NEW t \in TaskNames, NEW b \in E!Backends, recordOf'[b][t] # 0, E!Open(recordStatus'[recordOf'[b][t]])
        PROVE  recordOf'[b][t] \in E!InFlight'
    <2>1. recordOf'[b][t] \in DOMAIN exec BY <1>2 DEF ExecutorInv
    <2>2. exec[recordOf'[b][t]].step \notin Decided BY <1>1, <1>2, <2>1
    <2> QED BY <2>1, <2>2 DEF E!InFlight, E!Execs, Decided
  <1>3. ASSUME NEW t \in TaskNames, activeTasks'[t] # "none" PROVE \E f \in E!InFlight' : exec'[f].task = t
    <2>1. PICK f \in E!InFlight : exec[f].task = t
      BY <1>3 DEF ExecutorInv, BlockersAreInFlight, E!BlockersAreInFlight
    <2> QED BY <2>1 DEF E!InFlight, E!Execs
  <1>4. BlockersAreInFlight' BY <1>2, <1>3 DEF BlockersAreInFlight, E!BlockersAreInFlight
  <1> QED BY <1>1, <1>4 DEF ExecutorInv

\* A new execution has a record and is active; the one before it has none that is open.
LEMMA Begun == ASSUME ExecutorInv, NEW t \in TaskNames, NEW b \in E!Backends, E!Begin(t, b) PROVE ExecutorInv'
  <1> DEFINE n == Len(exec)
             r == recordOf[b][t]
  <1>1. n \in Nat /\ DOMAIN exec = 1..n /\ DOMAIN recordStatus = 1..n /\ r \in 0..n BY DEF ExecutorInv
  <1>2. CASE r # 0 /\ E!Open(recordStatus[r])
    <2>1. /\ activeTasks' = [activeTasks EXCEPT ![t] = "none"]
          /\ UNCHANGED <<exec, recordStatus, recordOf, cancelling>>
      BY <1>2 DEF E!Begin
    <2> QED BY <1>1, <2>1, Closing DEF ExecutorInv
  <1>3. CASE ~(r # 0 /\ E!Open(recordStatus[r]))
    <2> DEFINE x == [task |-> t, backend |-> b, result |-> "none",
                     step |-> IF b = "local" THEN "wait" ELSE "create"]
               st == IF b = "local" THEN "running" ELSE "pending"
    <2>1. /\ activeTasks' = [activeTasks EXCEPT ![t] = b] /\ recordOf' = [recordOf EXCEPT ![b][t] = n + 1]
          /\ recordStatus' = Append(recordStatus, st) /\ exec' = Append(exec, x) /\ UNCHANGED cancelling
      BY <1>3 DEF E!Begin
    <2>2. x \in ExecType /\ x.task = t /\ x.step \notin Decided /\ st \in Records
      BY DEF ExecType, Decided, Steps, Records, Results
    <2> HIDE DEF x, st
    <2>3. /\ exec' \in Seq(ExecType) /\ Len(exec') = n + 1 /\ DOMAIN exec' = 1..(n + 1)
          /\ \A f \in 1..n : exec'[f] = exec[f]
          /\ exec'[n + 1] = x
      BY <1>1, <2>1, <2>2, AppendProperties DEF ExecutorInv
    <2>4. /\ recordStatus' \in Seq(Records) /\ Len(recordStatus') = n + 1
          /\ \A f \in 1..n : recordStatus'[f] = recordStatus[f]
      BY <1>1, <2>1, <2>2, AppendProperties DEF ExecutorInv
    <2>5. recordOf' \in [E!Backends -> [TaskNames -> 0..(n + 1)]] BY <1>1, <2>1 DEF ExecutorInv
    <2>6. \A f \in 1..(n + 1) : exec'[f].step \in Decided => ~E!Open(recordStatus'[f])
      <3> TAKE f \in 1..(n + 1)
      <3>1. CASE f = n + 1 BY <2>2, <2>3, <3>1
      <3>2. CASE f # n + 1
        <4>1. f \in 1..n BY <1>1, <3>2
        <4> QED BY <1>1, <2>3, <2>4, <4>1 DEF ExecutorInv
      <3> QED BY <3>1, <3>2
    <2>7. ASSUME NEW u \in TaskNames, NEW a \in E!Backends, recordOf'[a][u] # 0,
                 E!Open(recordStatus'[recordOf'[a][u]])
          PROVE  recordOf'[a][u] \in E!InFlight'
      <3>1. recordOf'[a][u] \in 1..(n + 1) BY <1>1, <2>5, <2>7
      <3>2. exec'[recordOf'[a][u]].step \notin Decided BY <2>6, <2>7, <3>1
      <3> QED BY <2>3, <3>1, <3>2 DEF E!InFlight, E!Execs, Decided
    <2>8. ASSUME NEW u \in TaskNames, activeTasks'[u] # "none" PROVE \E f \in E!InFlight' : exec'[f].task = u
      <3>1. CASE u = t
        <4>1. n + 1 \in E!InFlight' BY <1>1, <2>2, <2>3 DEF E!InFlight, E!Execs, Decided
        <4> QED BY <2>2, <2>3, <3>1, <4>1
      <3>2. CASE u # t
        <4>1. activeTasks[u] # "none" BY <2>1, <2>8, <3>2 DEF ExecutorInv
        <4>2. PICK f \in 1..n : exec[f].step # "returned" /\ exec[f].task = u
          BY <1>1, <4>1 DEF ExecutorInv, BlockersAreInFlight, E!BlockersAreInFlight, E!InFlight, E!Execs
        <4>3. f \in 1..(n + 1) /\ exec'[f].step # "returned" /\ exec'[f].task = u BY <1>1, <2>3, <4>2
        <4> QED BY <2>3, <4>3 DEF E!InFlight, E!Execs
      <3> QED BY <3>1, <3>2
    <2>9. BlockersAreInFlight' BY <2>7, <2>8 DEF BlockersAreInFlight, E!BlockersAreInFlight
    <2>10. activeTasks' = [u \in TaskNames |-> activeTasks'[u]] BY <2>1 DEF ExecutorInv
    <2> QED BY <1>1, <2>1, <2>3, <2>4, <2>5, <2>6, <2>9, <2>10 DEF ExecutorInv
  <1> QED BY <1>2, <1>3

\* The steps of a backend: the execution moves on with a status or without, or returns.
LEMMA GoneTo ==
  ASSUME ExecutorInv, NEW e \in DOMAIN exec, NEW step \in Steps \ {"returned"}, NEW s \in Records,
         E!Goto(e, step), E!Within(e), recordStatus' = [recordStatus EXCEPT ![e] = s],
         step \in Decided => ~E!Open(s)
  PROVE  ExecutorInv'
  <1> DEFINE x == [exec[e] EXCEPT !.step = step]
  <1>1. exec[e] \in ExecType BY DEF ExecutorInv
  <1>2. x \in ExecType /\ x.task = exec[e].task /\ x.step = step BY <1>1 DEF ExecType
  <1>3. exec' = [exec EXCEPT ![e] = x] BY DEF E!Goto
  <1> HIDE DEF x
  <1> QED BY <1>2, <1>3, Moved DEF E!Within

LEMMA GoneOn ==
  ASSUME ExecutorInv, NEW e \in DOMAIN exec, NEW step \in Steps \ {"returned"},
         E!Goto(e, step), E!Within(e), recordStatus' = recordStatus,
         step \in Decided => exec[e].step \in Decided
  PROVE  ExecutorInv'
  <1> DEFINE s == recordStatus[e]
  <1>1. s \in Records /\ recordStatus' = [recordStatus EXCEPT ![e] = s] BY DEF ExecutorInv
  <1>2. step \in Decided => ~E!Open(s) BY DEF ExecutorInv
  <1> HIDE DEF s
  <1> QED BY <1>1, <1>2, GoneTo

LEMMA Returned ==
  ASSUME ExecutorInv, NEW e \in DOMAIN exec, NEW result \in Results, NEW s \in Records,
         E!Return(e, result), recordStatus' = [recordStatus EXCEPT ![e] = s], ~E!Open(s)
  PROVE  ExecutorInv'
  <1> DEFINE x == [exec[e] EXCEPT !.step = "returned", !.result = result]
  <1>1. exec[e] \in ExecType BY DEF ExecutorInv
  <1>2. x \in ExecType /\ x.task = exec[e].task BY <1>1 DEF ExecType, Steps, Decided
  <1>3. exec' = [exec EXCEPT ![e] = x] BY DEF E!Return
  <1> HIDE DEF x
  <1> QED BY <1>2, <1>3, Moved DEF E!Return

LEMMA ReturnedDecided ==
  ASSUME ExecutorInv, NEW e \in DOMAIN exec, NEW result \in Results,
         E!Return(e, result), recordStatus' = recordStatus, exec[e].step \in Decided
  PROVE  ExecutorInv'
  <1> DEFINE s == recordStatus[e]
  <1>1. s \in Records /\ recordStatus' = [recordStatus EXCEPT ![e] = s] /\ ~E!Open(s) BY DEF ExecutorInv
  <1> HIDE DEF s
  <1> QED BY <1>1, Returned

LEMMA DockerMoves == ASSUME ExecutorInv, NEW e \in DOMAIN exec, E!DockerStep(e) PROVE ExecutorInv'
  <1> USE DEF E!At, E!Open, E!Become, Steps, Decided, Records
  <1>1. CASE E!CreateContainer(e) BY <1>1, GoneTo DEF E!CreateContainer
  <1>2. CASE E!StartContainer(e) BY <1>2, GoneOn DEF E!StartContainer
  <1>3. CASE E!WaitForContainer(e) BY <1>3, GoneOn DEF E!WaitForContainer
  <1>4. CASE E!DockerFails(e)
    <2>1. PICK step \in {"failed", "remove"} : E!Goto(e, step) BY <1>4 DEF E!DockerFails
    <2> QED BY <1>4, <2>1, GoneTo DEF E!DockerFails
  <1>5. CASE E!RemoveContainer(e) BY <1>5, GoneOn DEF E!RemoveContainer
  <1> QED BY <1>1, <1>2, <1>3, <1>4, <1>5 DEF E!DockerStep

LEMMA JobMoves == ASSUME ExecutorInv, NEW e \in DOMAIN exec, E!JobStep(e) PROVE ExecutorInv'
  <1> USE DEF E!At, E!Open, E!Become, Steps, Decided, Records
  <1>1. CASE E!CreateJob(e) BY <1>1, GoneTo DEF E!CreateJob
  <1>2. CASE E!WaitForJob(e) BY <1>2, GoneTo DEF E!WaitForJob
  <1>3. CASE E!JobFails(e) BY <1>3, GoneTo DEF E!JobFails
  <1> QED BY <1>1, <1>2, <1>3 DEF E!JobStep

LEMMA SshMoves == ASSUME ExecutorInv, NEW e \in DOMAIN exec, E!SshStep(e) PROVE ExecutorInv'
  <1> USE DEF E!At, E!Open, E!Become, Steps, Decided, Records
  <1>1. CASE E!SshUpload(e) BY <1>1, GoneTo DEF E!SshUpload
  <1>2. CASE E!SshExec(e) BY <1>2, GoneOn DEF E!SshExec
  <1>3. CASE E!SshVerdict(e) BY <1>3, GoneTo DEF E!SshVerdict
  <1>4. CASE E!SshFails(e) BY <1>4, GoneTo DEF E!SshFails
  <1> QED BY <1>1, <1>2, <1>3, <1>4 DEF E!SshStep

LEMMA BackendReturns ==
  ASSUME ExecutorInv, NEW e \in DOMAIN exec,
         E!LocalReturns(e) \/ E!DockerReturns(e) \/ E!JobReturns(e) \/ E!SshReturns(e)
  PROVE  ExecutorInv'
  <1> USE DEF E!At, E!Open, E!Become, Decided, Records, Results
  <1>1. CASE E!LocalReturns(e)
    <2>1. PICK s \in {"completed", "cancelled", "failed"} : E!Become(e, s) /\ E!Return(e, s)
      BY <1>1 DEF E!LocalReturns
    <2> QED BY <2>1, Returned
  <1>2. CASE E!DockerReturns(e) BY <1>2, Returned, ReturnedDecided DEF E!DockerReturns
  <1>3. CASE E!JobReturns(e) BY <1>3, ReturnedDecided DEF E!JobReturns
  <1>4. CASE E!SshReturns(e) BY <1>4, ReturnedDecided DEF E!SshReturns
  <1> QED BY <1>1, <1>2, <1>3, <1>4

\* A status that is not open, given to one record by a cancel or a question about it.
LEMMA Corrected ==
  ASSUME ExecutorInv, NEW e, NEW s \in Records, ~E!Open(s), E!Become(e, s) \/ recordStatus' = recordStatus,
         UNCHANGED <<exec, recordOf>>,
         activeTasks' = activeTasks \/ \E t \in TaskNames : activeTasks' = [activeTasks EXCEPT ![t] = "none"],
         \A c \in cancelling' : c.task \in TaskNames
  PROVE  ExecutorInv'
  <1>1. /\ recordStatus' \in Seq(Records) /\ Len(recordStatus') = Len(recordStatus)
        /\ \A f \in DOMAIN recordStatus : recordStatus'[f] \in {recordStatus[f], s}
    <2>1. recordStatus \in Seq(Records) /\ recordStatus = [f \in DOMAIN recordStatus |-> recordStatus[f]]
      BY DEF ExecutorInv
    <2>2. recordStatus' = recordStatus \/ recordStatus' = [recordStatus EXCEPT ![e] = s] BY DEF E!Become
    <2>3. CASE e \in DOMAIN recordStatus BY <2>1, <2>2, <2>3
    <2>4. CASE e \notin DOMAIN recordStatus
      <3>1. recordStatus' = recordStatus BY <2>1, <2>2, <2>4
      <3> QED BY <2>1, <3>1
    <2> QED BY <2>3, <2>4
  <1>2. \A f \in DOMAIN exec : recordStatus'[f] = recordStatus[f] \/ ~E!Open(recordStatus'[f])
    BY <1>1 DEF ExecutorInv
  <1>3. /\ activeTasks' = [t \in TaskNames |-> activeTasks'[t]]
        /\ \A t \in TaskNames : activeTasks'[t] \in {"none", activeTasks[t]}
    BY DEF ExecutorInv
  <1> QED BY <1>1, <1>2, <1>3, Closing DEF ExecutorInv

LEMMA CancelStep ==
  ASSUME ExecutorInv,
         \/ \E t \in TaskNames : E!Cancel(t) \/ \E b \in E!Backends : E!GetStatus(t, b)
         \/ \E c \in cancelling : E!CancelDone(c)
  PROVE  ExecutorInv'
  <1>1. ASSUME NEW t \in TaskNames, E!Cancel(t) PROVE ExecutorInv'
    <2>1. PICK e : /\ cancelling' = cancelling \cup {[task |-> t, exec |-> e]}
                   /\ E!Become(e, "cancelled") \/ recordStatus' = recordStatus
      BY <1>1 DEF E!Cancel
    <2>2. \A c \in cancelling' : c.task \in TaskNames BY <2>1 DEF ExecutorInv
    <2>3. UNCHANGED <<exec, recordOf, activeTasks>> BY <1>1 DEF E!Cancel
    <2> QED BY <2>1, <2>2, <2>3, Corrected DEF E!Open, Records
  <1>2. ASSUME NEW t \in TaskNames, NEW b \in E!Backends, E!GetStatus(t, b) PROVE ExecutorInv'
    <2>1. PICK e : \E s \in {"completed", "failed"} : E!Become(e, s) BY <1>2 DEF E!GetStatus
    <2> QED BY <1>2, <2>1, Corrected DEF E!GetStatus, E!Open, Records, ExecutorInv
  <1>3. ASSUME NEW c \in cancelling, E!CancelDone(c) PROVE ExecutorInv'
    <2>1. PICK e : E!Become(e, "cancelled") \/ recordStatus' = recordStatus
      BY <1>3 DEF E!CancelDone, E!CancelledAtHost
    <2>2. c.task \in TaskNames /\ cancelling' = cancelling \ {c} BY <1>3 DEF ExecutorInv, E!CancelDone
    <2> QED BY <1>3, <2>1, <2>2, Corrected DEF E!CancelDone, E!Open, Records, ExecutorInv
  <1> QED BY <1>1, <1>2, <1>3

LEMMA DisposeStep ==
  ASSUME ExecutorInv,
         E!DisposeBackend \/ E!DisposeManager \/ \E t \in TaskNames : E!ScheduledCleanup(t)
  PROVE  ExecutorInv'
  <1>0. Len(exec) \in Nat /\ 0 \in 0..Len(exec) BY DEF ExecutorInv
  <1>1. CASE E!DisposeBackend
    <2>1. PICK b : recordOf' = [recordOf EXCEPT ![b] = [t \in TaskNames |-> 0]] BY <1>1 DEF E!DisposeBackend
    <2>2. PICK closed : recordStatus' = [e \in DOMAIN exec |-> IF e \in closed THEN "cancelled" ELSE recordStatus[e]]
      <3> DEFINE k == Registered[disposed']
                 closed == {e \in DOMAIN exec : /\ k = "local" /\ recordOf[k][exec[e].task] = e
                                                /\ E!Open(recordStatus[e])}
      <3>1. recordStatus' = [e \in DOMAIN exec |-> IF e \in closed THEN "cancelled" ELSE recordStatus[e]]
        BY <1>1 DEF E!DisposeBackend, E!Execs
      <3> HIDE DEF closed
      <3> QED BY <3>1
    <2>3. /\ recordStatus' \in Seq(Records) /\ Len(recordStatus') = Len(recordStatus)
          /\ \A e \in DOMAIN exec : recordStatus'[e] = recordStatus[e] \/ ~E!Open(recordStatus'[e])
      BY <2>2 DEF ExecutorInv, E!Open, Records
    <2>4. /\ recordOf' \in [E!Backends -> [TaskNames -> 0..Len(exec)]]
          /\ \A a \in E!Backends, t \in TaskNames : recordOf'[a][t] \in {0, recordOf[a][t]}
      BY <1>0, <2>1 DEF ExecutorInv
    <2>5. UNCHANGED <<exec, activeTasks, cancelling>> BY <1>1 DEF E!DisposeBackend
    <2> QED BY <2>3, <2>4, <2>5, Closing DEF ExecutorInv
  <1>2. CASE E!DisposeManager BY <1>2, Closing DEF E!DisposeManager, ExecutorInv
  <1>3. ASSUME NEW t \in TaskNames, E!ScheduledCleanup(t) PROVE ExecutorInv'
    <2>1. recordOf' = [recordOf EXCEPT !["local"][t] = 0] /\ UNCHANGED <<exec, recordStatus, activeTasks, cancelling>>
      BY <1>3 DEF E!ScheduledCleanup
    <2>2. /\ recordOf' \in [E!Backends -> [TaskNames -> 0..Len(exec)]]
          /\ \A a \in E!Backends, u \in TaskNames : recordOf'[a][u] \in {0, recordOf[a][u]}
      BY <1>0, <2>1 DEF ExecutorInv
    <2> QED BY <2>1, <2>2, Closing DEF ExecutorInv
  <1> QED BY <1>1, <1>2, <1>3

LEMMA ExecutorStep == ExecutorInv /\ [E!ExecutorNext]_executorVars => ExecutorInv'
  <1> SUFFICES ASSUME ExecutorInv, [E!ExecutorNext]_executorVars PROVE ExecutorInv'
    OBVIOUS
  <1>1. CASE UNCHANGED <<exec, recordOf, recordStatus, activeTasks, cancelling>>
    BY <1>1
    DEF ExecutorInv, BlockersAreInFlight, E!BlockersAreInFlight, E!InFlight, E!Execs
  <1>2. ASSUME NEW e, E!WorkEnds(e) PROVE ExecutorInv' BY <1>1, <1>2 DEF E!WorkEnds
  <1> QED
    BY <1>1, <1>2, Begun, DockerMoves, JobMoves, SshMoves, BackendReturns, CancelStep, DisposeStep DEF E!ExecutorNext, executorVars, E!Execs

(* ExecutorManager.execute and the backends: a record that makes execute      *)
(* refuse a task id, and a task counted as active, have an execution in      *)
(* flight, whatever failed, timed out, was cancelled, disposed or asked about. *)
THEOREM NothingBlocksForever == Spec => []BlockersAreInFlight
  <1>1. Init => ExecutorInv
    <2> SUFFICES ASSUME Init PROVE ExecutorInv OBVIOUS
    <2>1. exec = <<>> /\ recordStatus = <<>> /\ cancelling = {} /\ activeTasks = [t \in TaskNames |-> "none"]
          /\ recordOf = [b \in E!Backends |-> [t \in TaskNames |-> 0]]
      BY DEF Init, E!Init
    <2> QED BY <2>1 DEF ExecutorInv, BlockersAreInFlight, E!BlockersAreInFlight
  <1>2. ExecutorInv => BlockersAreInFlight BY DEF ExecutorInv
  <1> QED BY <1>1, <1>2, ExecutorStep, Moves, PTL DEF Spec, remoteVars
=============================================================================
