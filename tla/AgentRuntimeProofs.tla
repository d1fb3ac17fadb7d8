------------------------- MODULE AgentRuntimeProofs -------------------------
(***************************************************************************)
(* Proofs about AgentRuntime for any number of turns and any bound of the   *)
(* tool loop.                                                               *)
(***************************************************************************)
EXTENDS AgentRuntime, SequenceTheorems, TLAPS

(* Only the last turn begun is parked at an await, and it holds the lock.   *)
Locked == \A t \in Turns : pc[t] # "idle" => inProgress /\ t = turn

(* No row belongs to a turn that has not begun.                             *)
RowsAreOld == \A i \in DOMAIN history : history[i][1] <= turn

IndInv ==
  TypeOK /\ Locked /\ RowsAreOld /\ TurnsDoNotMix /\ StoppedHoldsNoTools

-----------------------------------------------------------------------------
\* Rows appended by the current turn keep the conversation in turn order.
LEMMA SayKeepsOrder ==
  ASSUME IndInv, turn \in Turns, NEW kinds \in Seq(Kinds), Say(turn, kinds), turn' = turn
  PROVE  history' \in Seq(Turns \X Kinds) /\ RowsAreOld' /\ TurnsDoNotMix'
  <1> DEFINE rows == [i \in DOMAIN kinds |-> <<turn, kinds[i]>>]
  <1>1. turn \in Nat /\ history \in Seq(Turns \X Kinds)
    BY DEF IndInv, TypeOK, Turns
  <1>2. rows \in Seq(Turns \X Kinds)
    BY <1>1
  <1>3. history' = history \o rows
    BY DEF Say
  <1>4. history' \in Seq(Turns \X Kinds)
    BY <1>1, <1>2, <1>3
  <1>5. \A i \in DOMAIN rows : rows[i][1] = turn
    OBVIOUS
  <1>6. RowsAreOld'
    <2> SUFFICES ASSUME NEW i \in DOMAIN history' PROVE history'[i][1] <= turn
      BY DEF RowsAreOld
    <2>1. CASE i <= Len(history)
      BY <1>1, <1>2, <1>3, <2>1 DEF IndInv, RowsAreOld
    <2>2. CASE i > Len(history)
      <3>1. history'[i] = rows[i - Len(history)] /\ i - Len(history) \in DOMAIN rows
        BY <1>1, <1>2, <1>3, <2>2
      <3> QED BY <1>1, <1>5, <3>1
    <2> QED BY <1>1, <1>2, <1>3, <2>1, <2>2
  <1>7. TurnsDoNotMix'
    <2> SUFFICES ASSUME NEW i \in DOMAIN history', NEW j \in DOMAIN history', i < j
                 PROVE  history'[i][1] <= history'[j][1]
      BY DEF TurnsDoNotMix
    <2>1. CASE j <= Len(history)
      BY <1>1, <1>2, <1>3, <2>1 DEF IndInv, TurnsDoNotMix
    <2>2. CASE j > Len(history)
      <3>1. history'[j] = rows[j - Len(history)] /\ j - Len(history) \in DOMAIN rows
        BY <1>1, <1>2, <1>3, <2>2
      <3>2. history'[j][1] = turn BY <1>5, <3>1
      <3> QED BY <1>6, <3>2 DEF RowsAreOld
    <2> QED BY <1>1, <1>2, <1>3, <2>1, <2>2
  <1> QED BY <1>4, <1>6, <1>7

\* transitionStatus stays among the statuses.
LEMMA ValidStatuses ==
  /\ "created" \in DOMAIN Valid /\ "error" \in DOMAIN Valid
  /\ \A s \in DOMAIN Valid : Valid[s] \subseteq DOMAIN Valid
  BY DEF Valid

LEMMA InitInv == Init => IndInv
  <1> SUFFICES ASSUME Init PROVE IndInv
    OBVIOUS
  <1>1. history \in Seq(Turns \X Kinds) /\ DOMAIN history = {}
    BY DEF Init
  <1>3. tools \in BOOLEAN /\ inProgress \in BOOLEAN
    BY Zenon DEF Init
  <1>4. turn \in 0..MaxTurns /\ iterations \in [Turns -> 0..MaxIterations]
       /\ completed \subseteq Turns /\ cut \subseteq Turns
    BY AgentAssumption DEF Init
  <1>2. TypeOK
    BY <1>1, <1>3, <1>4, ValidStatuses DEF Init, TypeOK
  <1> QED
    BY <1>1, <1>2 DEF Init, IndInv, Locked, RowsAreOld, TurnsDoNotMix, StoppedHoldsNoTools

LEMMA StepInv ==
  ASSUME IndInv, [Next]_vars
  PROVE  IndInv'
  <1> USE AgentAssumption, ValidStatuses DEF IndInv
  <1> DEFINE Same == history' = history /\ turn' = turn
  <1>0. Same => RowsAreOld' /\ TurnsDoNotMix'
    BY DEF RowsAreOld, TurnsDoNotMix
  <1> USE DEF Locked, StoppedHoldsNoTools, Transition
  <1>1. CASE UNCHANGED vars
    BY <1>0, <1>1 DEF vars, agent, lock, talk, TypeOK
  <1>2. CASE Initialize \/ Initialized \/ InitializeThrows \/ Started \/ Pause \/ Resume
             \/ ResetFromError
    <2>1. status' \in DOMAIN Valid
      BY <1>2 DEF Initialize, Initialized, InitializeThrows, Started, Pause, Resume,
                  ResetFromError, TypeOK
    <2>2. /\ UNCHANGED <<stopping, tools, lock, pc, talk, completed, cut>>
          /\ init' \in {"initialized", "started", "done", "threw", init}
      BY <1>2 DEF Initialize, Initialized, InitializeThrows, Started, Pause, Resume, ResetFromError
    <2> QED BY <1>0, <2>1, <2>2 DEF lock, talk, TypeOK
  <1>3. CASE Stop \/ Stopped
    BY <1>0, <1>3 DEF Stop, Stopped, lock, talk, TypeOK
  <1>4. CASE RunTurn
    <2>1. \A t \in Turns : pc[t] = "idle" BY <1>4 DEF RunTurn
    <2>2. TypeOK' /\ Locked' /\ StoppedHoldsNoTools'
      BY <1>4, <2>1 DEF RunTurn, Goto, Turns, agent, talk, TypeOK
    <2>3. RowsAreOld' /\ TurnsDoNotMix'
      BY <1>4 DEF RunTurn, Turns, agent, talk, TypeOK, RowsAreOld, TurnsDoNotMix
    <2> QED BY <2>2, <2>3
  <1>5. ASSUME NEW t \in Turns, TurnStep(t) PROVE IndInv'
    <2>1. pc[t] # "idle" /\ inProgress /\ t = turn
      BY <1>5 DEF TurnStep, LoseTurn, AppendUser, ModelAnswers, AppendCalls, AppendResults, AskCorrection,
                  Corrected, AppendAnswer, CompleteTurn, FailTurn, MayFail, ReleaseTools, ThrowError
    <2>2. \A q \in Turns \ {t} : pc[q] = "idle"
      BY <2>1
    <2> USE <2>1, <2>2 DEF Goto
    <2>3. CASE LoseTurn(t)
      BY <1>0, <2>3 DEF LoseTurn, agent, lock, talk, TypeOK
    <2>4. CASE ModelAnswers(t)
      <3>1. iterations' \in [Turns -> 0..MaxIterations]
        BY <2>4 DEF ModelAnswers, MoreTools, TypeOK
      <3>2. /\ \E place \in {"tools", "output", "invalid"} : Goto(t, place)
            /\ UNCHANGED <<agent, lock, history, completed, cut>>
        BY <2>4 DEF ModelAnswers, MoreTools
      <3> QED BY <1>0, <3>1, <3>2 DEF agent, lock, TypeOK
    <2>5. CASE Corrected(t)
      BY <1>0, <2>5 DEF Corrected, agent, lock, talk, TypeOK
    <2>6. CASE CompleteTurn(t)
      BY <1>0, <2>6 DEF CompleteTurn, agent, talk, TypeOK
    <2>7. CASE FailTurn(t)
      <3>0. cut' \subseteq Turns
        BY <2>7 DEF FailTurn, TypeOK
      <3>1. CASE "error" \in Valid[status] /\ status' = "error" /\ Goto(t, "recording") /\ UNCHANGED inProgress
        BY <1>0, <2>7, <3>0, <3>1 DEF FailTurn, talk, TypeOK
      <3>2. CASE Goto(t, "idle") /\ inProgress' = FALSE /\ UNCHANGED status
        BY <1>0, <2>7, <3>0, <3>2 DEF FailTurn, talk, TypeOK
      <3> QED BY <2>7, <3>1, <3>2 DEF FailTurn, EnterError
    <2>8. CASE ReleaseTools(t)
      BY <1>0, <2>8 DEF ReleaseTools, lock, talk, TypeOK
    <2>9. CASE ThrowError(t)
      BY <1>0, <2>9 DEF ThrowError, agent, talk, TypeOK
    <2>10. ASSUME NEW kinds \in Seq(Kinds), Say(t, kinds),
                  NEW place \in {"calling", "results", "correcting", "completing"}, Goto(t, place),
                  UNCHANGED <<agent, lock, iterations, completed, cut>>
           PROVE  IndInv'
      <3>1. history' \in Seq(Turns \X Kinds) /\ RowsAreOld' /\ TurnsDoNotMix'
        BY <2>10, SayKeepsOrder DEF lock
      <3> QED BY <2>10, <3>1 DEF agent, lock, TypeOK
    <2>11. /\ <<"user">> \in Seq(Kinds) /\ <<"calls">> \in Seq(Kinds) /\ <<"results">> \in Seq(Kinds)
           /\ <<"assistant">> \in Seq(Kinds) /\ <<"assistant", "user">> \in Seq(Kinds)
      BY DEF Kinds
    <2>12. CASE AppendUser(t) \/ AppendCalls(t) \/ AppendResults(t) \/ AskCorrection(t) \/ AppendAnswer(t)
      BY <2>10, <2>11, <2>12 DEF AppendUser, AppendCalls, AppendResults, AskCorrection, AppendAnswer
    <2> QED
      BY <1>5, <2>3, <2>4, <2>5, <2>6, <2>7, <2>8, <2>9, <2>12 DEF TurnStep
  <1> QED BY <1>1, <1>2, <1>3, <1>4, <1>5 DEF Next

-----------------------------------------------------------------------------
(* The inductive invariant holds in every behaviour of the runtime.         *)
THEOREM Inductive == Spec => []IndInv
  BY InitInv, StepInv, PTL DEF Spec

(* The runtime's state keeps its types; the tool loop never passes its      *)
(* bound, for any bound.                                                    *)
THEOREM TypeCorrect == Spec => []TypeOK
  BY Inductive, PTL DEF IndInv

(* The turn lock keeps the rows of each turn together in the conversation.  *)
THEOREM TurnsSeparated == Spec => []TurnsDoNotMix
  BY Inductive, PTL DEF IndInv

(* When stop is over the agent holds no tools, whatever turn is in flight.  *)
THEOREM StopReleases == Spec => []StoppedHoldsNoTools
  BY Inductive, PTL DEF IndInv

(* No error path and no call revives a stopped agent.                       *)
THEOREM StopIsFinal == Spec => StoppedIsFinal
  <1>1. [Next]_vars => [status = "stopped" => status' = "stopped"]_vars
    BY DEF Next, TurnStep, Initialize, Initialized, InitializeThrows, Started, Pause, Resume,
           ResetFromError, Stop, Stopped, RunTurn, LoseTurn, AppendUser, ModelAnswers, AppendCalls,
           AppendResults, AskCorrection, Corrected, AppendAnswer, CompleteTurn, FailTurn, EnterError,
           ReleaseTools, ThrowError, Transition, Valid, agent
  <1> QED BY <1>1, PTL DEF Spec, StoppedIsFinal
-----------------------------------------------------------------------------
(* The conversation that the next model call is sent.                       *)

LastRow(rows) == rows[Len(rows)]

\* The conversation ends with a row of turn t.
EndsIn(rows, t) == rows # <<>> /\ LastRow(rows)[1] = t

\* All of turn t is in the conversation, and it ends with the answer.
Finished(rows, t) ==
  /\ \E i \in DOMAIN rows : rows[i][1] = t
  /\ \A i \in DOMAIN rows : rows[i][1] = t /\ Closes(rows, i) => rows[i][2] = "assistant"

(* Where a turn is parked tells what the conversation ends with.            *)
Ending ==
  \A t \in Turns :
    /\ pc[t] = "announcing" => \A i \in DOMAIN history : history[i][1] # t
    /\ pc[t] \in {"calling", "tools", "invalid", "correcting", "output"} =>
         EndsIn(history, t) /\ LastRow(history)[2] # "calls"
    /\ pc[t] = "results" => EndsIn(history, t) /\ LastRow(history)[2] = "calls"
    /\ pc[t] = "completing" => EndsIn(history, t) /\ LastRow(history)[2] = "assistant"

Conversation ==
  /\ \A i \in DOMAIN history : Answered(history, i)
  /\ \A t \in completed : t <= turn /\ pc[t] = "idle" /\ Finished(history, t)
  /\ Ending

\* A row that opens its turn is the user's, and results follow calls.
Follows(rows, row) ==
  /\ rows = <<>> \/ LastRow(rows)[1] # row[1] => row[2] = "user"
  /\ rows # <<>> /\ LastRow(rows)[1] = row[1] =>
       (LastRow(rows)[2] = "calls" <=> row[2] = "results")

LEMMA RowAdded ==
  ASSUME NEW rows \in Seq(Turns \X Kinds), NEW row \in Turns \X Kinds,
         \A i \in DOMAIN rows : Answered(rows, i), Follows(rows, row)
  PROVE  /\ Append(rows, row) \in Seq(Turns \X Kinds)
         /\ EndsIn(Append(rows, row), row[1]) /\ LastRow(Append(rows, row)) = row
         /\ \A i \in DOMAIN Append(rows, row) : Answered(Append(rows, row), i)
         /\ \A t \in Turns \ {row[1]} :
              Finished(rows, t) => Finished(Append(rows, row), t)
  <1> DEFINE n == Len(rows)
             more == Append(rows, row)
  <1>1. /\ n \in Nat /\ DOMAIN rows = 1..n
        /\ more \in Seq(Turns \X Kinds) /\ Len(more) = n + 1 /\ DOMAIN more = 1..(n + 1)
        /\ more[n + 1] = row /\ \A i \in 1..n : more[i] = rows[i]
        /\ rows = <<>> <=> n = 0
    OBVIOUS
  <1>0. n = Len(rows)
    OBVIOUS
  <1> HIDE DEF more, n
  <1>2. EndsIn(more, row[1]) /\ LastRow(more) = row
    BY <1>1 DEF EndsIn, LastRow
  <1>3. ASSUME NEW i \in 1..(n + 1)
        PROVE  Answered(more, i)
    <2>1. CASE i < n
      <3>0. i \in 1..n /\ i + 1 \in 1..n /\ (i # 1 => i - 1 \in 1..n)
        BY <1>1, <2>1
      <3>1. more[i] = rows[i] /\ more[i + 1] = rows[i + 1] /\ (i # 1 => more[i - 1] = rows[i - 1])
        BY <1>1, <3>0
      <3>2. Answered(rows, i)
        BY <1>1, <3>0
      <3> QED BY <1>0, <1>1, <2>1, <3>1, <3>2 DEF Answered, Opens, Closes
    <2>2. CASE i = n
      <3>1. more[i] = rows[i] /\ more[i + 1] = row /\ (i # 1 => more[i - 1] = rows[i - 1])
        BY <1>1, <2>2
      <3>2. Answered(rows, i) /\ rows # <<>>
        BY <1>1, <2>2
      <3> QED BY <1>0, <1>1, <2>2, <3>1, <3>2 DEF Answered, Opens, Closes, Follows, LastRow
    <2>3. CASE i = n + 1
      <3>1. more[i] = row /\ (i # 1 => more[i - 1] = rows[n] /\ rows # <<>>)
        BY <1>1, <2>3
      <3> QED BY <1>0, <1>1, <2>3, <3>1 DEF Answered, Opens, Closes, Follows, LastRow
    <2> QED BY <1>1, <2>1, <2>2, <2>3
  <1>4. ASSUME NEW t \in Turns \ {row[1]}, Finished(rows, t)
        PROVE  Finished(more, t)
    <2>1. \E i \in DOMAIN more : more[i][1] = t
      BY <1>1, <1>4 DEF Finished
    <2>2. ASSUME NEW i \in DOMAIN more, more[i][1] = t, Closes(more, i)
          PROVE  more[i][2] = "assistant"
      <3>1. i \in 1..n /\ more[i] = rows[i]
        BY <1>1, <2>2
      <3>2. Closes(rows, i)
        BY <1>0, <1>1, <2>2, <3>1 DEF Closes
      <3> QED BY <1>1, <1>4, <2>2, <3>1, <3>2 DEF Finished
    <2> QED BY <2>1, <2>2 DEF Finished
  <1> QED BY <1>1, <1>2, <1>3, <1>4 DEF more, n

LEMMA SaysOne ==
  ASSUME NEW t \in Turns, NEW k \in Kinds, history \in Seq(Turns \X Kinds), Say(t, <<k>>)
  PROVE  history' = Append(history, <<t, k>>)
  <1>1. [i \in DOMAIN <<k>> |-> <<t, <<k>>[i]>>] = <<<<t, k>>>>
    OBVIOUS
  <1>2. history' = history \o <<<<t, k>>>>
    BY <1>1 DEF Say
  <1> QED BY <1>2

LEMMA SaysTwo ==
  ASSUME NEW t \in Turns, NEW k \in Kinds, NEW l \in Kinds,
         history \in Seq(Turns \X Kinds), Say(t, <<k, l>>)
  PROVE  history' = Append(Append(history, <<t, k>>), <<t, l>>)
  <1>1. [i \in DOMAIN <<k, l>> |-> <<t, <<k, l>>[i]>>] = <<<<t, k>>, <<t, l>>>>
    OBVIOUS
  <1>2. history' = history \o <<<<t, k>>, <<t, l>>>>
    BY <1>1 DEF Say
  <1>3. history \o <<<<t, k>>, <<t, l>>>> = Append(Append(history, <<t, k>>), <<t, l>>)
    OBVIOUS
  <1> QED BY <1>2, <1>3

\* The same for a row spelled out as its turn and its kind.
LEMMA SaidRow ==
  ASSUME NEW rows \in Seq(Turns \X Kinds), NEW t \in Turns, NEW k \in Kinds,
         \A i \in DOMAIN rows : Answered(rows, i), Follows(rows, <<t, k>>),
         NEW more, more = Append(rows, <<t, k>>)
  PROVE  /\ more \in Seq(Turns \X Kinds) /\ EndsIn(more, t) /\ LastRow(more) = <<t, k>>
         /\ \A i \in DOMAIN more : Answered(more, i)
         /\ \A q \in Turns \ {t} : Finished(rows, q) => Finished(more, q)
  <1> DEFINE row == <<t, k>>
  <1>1. row \in Turns \X Kinds /\ row[1] = t /\ row = <<t, k>>
    OBVIOUS
  <1>2. more = Append(rows, row) /\ Follows(rows, row)
    OBVIOUS
  <1>3. \A i \in DOMAIN rows : Answered(rows, i)
    OBVIOUS
  <1> HIDE DEF row
  <1>4. /\ Append(rows, row) \in Seq(Turns \X Kinds)
        /\ EndsIn(Append(rows, row), row[1]) /\ LastRow(Append(rows, row)) = row
        /\ \A i \in DOMAIN Append(rows, row) : Answered(Append(rows, row), i)
        /\ \A q \in Turns \ {row[1]} :
              Finished(rows, q) => Finished(Append(rows, row), q)
    BY ONLY <1>1, <1>2, <1>3, rows \in Seq(Turns \X Kinds), RowAdded
  <1> QED BY ONLY <1>1, <1>2, <1>4

\* And for an answer that the agent itself asks to be corrected.
LEMMA AskKeepsConversation ==
  ASSUME NEW t \in Turns, history \in Seq(Turns \X Kinds),
         \A i \in DOMAIN history : Answered(history, i), Follows(history, <<t, "assistant">>),
         history' = Append(Append(history, <<t, "assistant">>), <<t, "user">>)
  PROVE  /\ EndsIn(history', t) /\ LastRow(history') = <<t, "user">>
         /\ \A i \in DOMAIN history' : Answered(history', i)
         /\ \A q \in Turns \ {t} : Finished(history, q) => Finished(history', q)
  <1> DEFINE answer == <<t, "assistant">>
             request == <<t, "user">>
             one == Append(history, answer)
  <1>1. /\ answer \in Turns \X Kinds /\ answer[1] = t
        /\ request \in Turns \X Kinds /\ request[1] = t /\ request = <<t, "user">>
    BY DEF Kinds
  <1>2. /\ Follows(history, answer) /\ history' = Append(one, request)
        /\ \A i \in DOMAIN history : Answered(history, i)
    OBVIOUS
  <1>3. \A rows : EndsIn(rows, t) /\ LastRow(rows) = answer => Follows(rows, request)
    BY DEF EndsIn, Follows
  <1> HIDE DEF answer, request
  <1>4. /\ one \in Seq(Turns \X Kinds) /\ EndsIn(one, answer[1]) /\ LastRow(one) = answer
        /\ \A i \in DOMAIN one : Answered(one, i)
        /\ \A q \in Turns \ {answer[1]} : Finished(history, q) => Finished(one, q)
    BY ONLY <1>1, <1>2, history \in Seq(Turns \X Kinds), RowAdded
  <1> HIDE DEF one
  <1>5. Follows(one, request)
    BY ONLY <1>1, <1>3, <1>4
  <1>6. /\ EndsIn(Append(one, request), request[1]) /\ LastRow(Append(one, request)) = request
        /\ \A i \in DOMAIN Append(one, request) : Answered(Append(one, request), i)
        /\ \A q \in Turns \ {request[1]} :
              Finished(one, q) => Finished(Append(one, request), q)
    BY ONLY <1>1, <1>4, <1>5, RowAdded
  <1> QED BY ONLY <1>1, <1>2, <1>4, <1>6

\* Every turn that completed is still finished after turn t said something.
LEMMA SayKeepsConversation ==
  ASSUME IndInv, Conversation, NEW t \in Turns, t = turn, pc[t] # "idle", UNCHANGED <<turn, completed>>,
         NEW place, Goto(t, place), NEW k \in Kinds, history' = Append(history, <<t, k>>),
         Follows(history, <<t, k>>)
  PROVE  /\ \A i \in DOMAIN history' : Answered(history', i)
         /\ \A q \in completed : q <= turn /\ pc'[q] = "idle" /\ Finished(history', q)
         /\ EndsIn(history', t) /\ LastRow(history') = <<t, k>>
  <1>1. history \in Seq(Turns \X Kinds) /\ <<t, k>> \in Turns \X Kinds /\ completed \subseteq Turns
    BY DEF IndInv, TypeOK
  <1>2. t \notin completed
    BY DEF Conversation
  <1>3. \A q \in completed : pc'[q] = "idle"
    BY <1>1, <1>2 DEF Conversation, Goto, IndInv, TypeOK
  <1>4. /\ \A i \in DOMAIN history : Answered(history, i)
        /\ \A q \in completed : q <= turn /\ Finished(history, q)
    BY DEF Conversation
  <1>5. /\ EndsIn(history', t) /\ LastRow(history') = <<t, k>>
        /\ \A i \in DOMAIN history' : Answered(history', i)
        /\ \A q \in Turns \ {t} : Finished(history, q) => Finished(history', q)
    BY ONLY <1>1, <1>4, t \in Turns, k \in Kinds, Follows(history, <<t, k>>),
            history' = Append(history, <<t, k>>), SaidRow
  <1> QED BY ONLY <1>1, <1>2, <1>3, <1>4, <1>5

LEMMA ConversationStep ==
  ASSUME IndInv, Conversation, [Next]_vars
  PROVE  Conversation'
  <1> DEFINE Quiet == UNCHANGED <<history, turn, completed>>
  <1>1. CASE UNCHANGED <<history, turn, completed, pc>>
    BY <1>1 DEF Conversation, Ending, Finished, EndsIn, LastRow, Answered, Opens, Closes
  <1>2. CASE RunTurn
    <2>1. \A q \in Turns \ {turn + 1} : pc'[q] = pc[q]
      BY <1>2 DEF RunTurn, Goto, IndInv, TypeOK
    <2>2. \A i \in DOMAIN history : history[i][1] # turn + 1
      BY <1>2, AgentAssumption DEF IndInv, RowsAreOld, TypeOK, Turns
    <2>3. \A q \in Turns : pc'[q] \in {"idle", "announcing", pc[q]}
      BY <1>2, <2>1 DEF RunTurn, Goto, IndInv, TypeOK
    <2>4. Ending'
      <3> SUFFICES ASSUME NEW q \in Turns
                   PROVE  /\ pc'[q] = "announcing" => \A i \in DOMAIN history : history[i][1] # q
                          /\ pc'[q] \in {"calling", "tools", "invalid", "correcting", "output"} =>
                               EndsIn(history, q) /\ LastRow(history)[2] # "calls"
                          /\ pc'[q] = "results" =>
                               EndsIn(history, q) /\ LastRow(history)[2] = "calls"
                          /\ pc'[q] = "completing" =>
                               EndsIn(history, q) /\ LastRow(history)[2] = "assistant"
        BY <1>2 DEF Ending, RunTurn, talk, EndsIn, LastRow
      <3>1. CASE q = turn + 1
        BY <1>2, <2>2, <3>1 DEF RunTurn, Goto, IndInv, TypeOK
      <3>2. CASE q # turn + 1
        BY <2>1, <3>2 DEF Conversation, Ending
      <3> QED BY <3>1, <3>2
    <2>5. \A q \in completed : q <= turn + 1 /\ pc'[q] = "idle"
      BY <1>2, <2>1 DEF Conversation, IndInv, TypeOK, Turns
    <2> QED
      BY <1>2, <2>4, <2>5 DEF Conversation, RunTurn, talk, Finished, Answered, Opens, Closes
  <1>3. ASSUME NEW t \in Turns, TurnStep(t)
        PROVE  Conversation'
    <2>1. /\ pc[t] # "idle" /\ t = turn /\ \A q \in Turns \ {t} : pc[q] = "idle"
          /\ t \notin completed /\ completed \subseteq Turns
          /\ history \in Seq(Turns \X Kinds) /\ DOMAIN pc = Turns /\ pc = [q \in Turns |-> pc[q]]
      <3>1. pc[t] # "idle"
        BY <1>3 DEF TurnStep, LoseTurn, AppendUser, ModelAnswers, AppendCalls, AppendResults,
                    AskCorrection, Corrected, AppendAnswer, CompleteTurn, FailTurn, MayFail,
                    ReleaseTools, ThrowError
      <3> QED BY <3>1 DEF IndInv, Locked, TypeOK, Conversation
    <2>2. ASSUME NEW place, Goto(t, place), Quiet,
                 place \in {"idle", "lost", "recording", "reporting"}
                 \/ /\ place \in {"tools", "invalid", "output"}
                    /\ pc[t] \in {"calling", "correcting"}
          PROVE  Conversation'
      <3>1. \A q \in Turns : pc'[q] = (IF q = t THEN place ELSE pc[q])
        BY <2>1, <2>2 DEF Goto
      <3>2. \A q \in completed : pc'[q] = "idle"
        BY <2>1, <3>1 DEF Conversation
      <3>3. Ending'
        BY <2>1, <2>2, <3>1 DEF Conversation, Ending, EndsIn, LastRow
      <3>4. /\ history' = history /\ completed' = completed /\ turn' = turn
            /\ \A i \in DOMAIN history : Answered(history, i)
            /\ \A q \in completed : q <= turn /\ Finished(history, q)
        BY <2>2 DEF Conversation
      <3> QED
        BY <3>2, <3>3, <3>4 DEF Conversation
    <2>3. CASE LoseTurn(t) \/ ModelAnswers(t) \/ Corrected(t) \/ FailTurn(t) \/ ReleaseTools(t)
               \/ ThrowError(t)
      <3>1. Quiet
        BY <2>3 DEF LoseTurn, ModelAnswers, Corrected, FailTurn, ReleaseTools, ThrowError, lock, talk
      <3> HIDE DEF Quiet
      <3>2. CASE LoseTurn(t) \/ FailTurn(t) \/ ReleaseTools(t) \/ ThrowError(t)
        BY <2>2, <3>1, <3>2 DEF LoseTurn, FailTurn, EnterError, ReleaseTools, ThrowError
      <3>3. CASE ModelAnswers(t) \/ Corrected(t)
        BY <2>2, <3>1, <3>3 DEF ModelAnswers, MoreTools, Corrected
      <3> QED BY <2>3, <3>2, <3>3
    <2>4. CASE CompleteTurn(t)
      <3>1. EndsIn(history, t) /\ LastRow(history)[2] = "assistant"
        BY <2>4 DEF CompleteTurn, Conversation, Ending
      <3>2. \A i \in DOMAIN history : history[i][1] = t /\ Closes(history, i) => i = Len(history)
        <4> SUFFICES ASSUME NEW i \in DOMAIN history, history[i][1] = t, Closes(history, i),
                            i # Len(history)
                     PROVE  FALSE
          OBVIOUS
        <4>1. i + 1 \in DOMAIN history /\ history[i + 1][1] # t /\ i < i + 1
          BY <2>1 DEF Closes
        <4>2. t <= history[i + 1][1] /\ history[i + 1][1] <= t
          BY <2>1, <4>1 DEF IndInv, TurnsDoNotMix, RowsAreOld
        <4>3. history[i + 1][1] \in Turns
          BY <2>1, <4>1
        <4> QED BY <4>1, <4>2, <4>3 DEF Turns
      <3>3. Finished(history, t)
        BY <2>1, <3>1, <3>2 DEF Finished, EndsIn, LastRow
      <3>4. \A q \in Turns : pc'[q] = "idle"
        BY <2>1, <2>4 DEF CompleteTurn, Goto
      <3>5. t <= turn
        BY <2>1 DEF Turns
      <3>6. Ending'
        BY <3>4 DEF Ending
      <3>7. completed' = completed \cup {t} /\ UNCHANGED <<history, turn>>
        BY <2>4 DEF CompleteTurn, talk
      <3>8. \A q \in completed' : q <= turn /\ pc'[q] = "idle" /\ Finished(history, q)
        BY <2>1, <3>3, <3>4, <3>5, <3>7 DEF Conversation
      <3> QED
        BY <3>6, <3>7, <3>8 DEF Conversation, Finished, Answered, Opens, Closes
    <2>5. ASSUME NEW k \in Kinds, history' = Append(history, <<t, k>>), Follows(history, <<t, k>>),
                 NEW place, Goto(t, place), UNCHANGED <<turn, completed>>,
                 \/ place = "results" /\ k = "calls"
                 \/ place = "completing" /\ k = "assistant"
                 \/ place \in {"calling", "correcting"} /\ k # "calls"
          PROVE  Conversation'
      <3>1. /\ \A i \in DOMAIN history' : Answered(history', i)
            /\ \A q \in completed : q <= turn /\ pc'[q] = "idle" /\ Finished(history', q)
            /\ EndsIn(history', t) /\ LastRow(history') = <<t, k>>
        BY ONLY <2>1, <2>5, t \in Turns, IndInv, Conversation, SayKeepsConversation
      <3>2. \A q \in Turns : pc'[q] = (IF q = t THEN place ELSE "idle")
        BY <2>1, <2>5 DEF Goto
      <3>3. Ending'
        BY <2>5, <3>1, <3>2 DEF Ending, EndsIn, LastRow
      <3> QED BY <2>5, <3>1, <3>3 DEF Conversation, Answered, Finished, Opens, Closes
    <2>6. CASE AppendUser(t) \/ AppendCalls(t) \/ AppendResults(t) \/ AppendAnswer(t)
      <3>1. UNCHANGED <<turn, completed>>
        BY <2>6 DEF AppendUser, AppendCalls, AppendResults, AppendAnswer, lock
      <3>2. CASE AppendUser(t)
        <4>1. Say(t, <<"user">>) /\ Goto(t, "calling") /\ pc[t] = "announcing"
          BY <3>2 DEF AppendUser
        <4>2. history' = Append(history, <<t, "user">>)
          BY <2>1, <4>1, SaysOne DEF Kinds
        <4>3. Follows(history, <<t, "user">>)
          BY <2>1, <4>1 DEF Follows, LastRow, Conversation, Ending
        <4> QED BY <2>5, <3>1, <4>1, <4>2, <4>3 DEF Kinds
      <3>3. CASE AppendCalls(t)
        <4>1. Say(t, <<"calls">>) /\ Goto(t, "results") /\ pc[t] = "tools"
          BY <3>3 DEF AppendCalls
        <4>2. history' = Append(history, <<t, "calls">>)
          BY <2>1, <4>1, SaysOne DEF Kinds
        <4>3. Follows(history, <<t, "calls">>)
          BY <2>1, <4>1 DEF Follows, EndsIn, Conversation, Ending
        <4> QED BY <2>5, <3>1, <4>1, <4>2, <4>3 DEF Kinds
      <3>4. CASE AppendResults(t)
        <4>1. Say(t, <<"results">>) /\ Goto(t, "calling") /\ pc[t] = "results"
          BY <3>4 DEF AppendResults
        <4>2. history' = Append(history, <<t, "results">>)
          BY <2>1, <4>1, SaysOne DEF Kinds
        <4>3. Follows(history, <<t, "results">>)
          BY <2>1, <4>1 DEF Follows, EndsIn, Conversation, Ending
        <4> QED BY <2>5, <3>1, <4>1, <4>2, <4>3 DEF Kinds
      <3>5. CASE AppendAnswer(t)
        <4>1. Say(t, <<"assistant">>) /\ Goto(t, "completing") /\ pc[t] = "output"
          BY <3>5 DEF AppendAnswer
        <4>2. history' = Append(history, <<t, "assistant">>)
          BY <2>1, <4>1, SaysOne DEF Kinds
        <4>3. Follows(history, <<t, "assistant">>)
          BY <2>1, <4>1 DEF Follows, EndsIn, Conversation, Ending
        <4> QED BY <2>5, <3>1, <4>1, <4>2, <4>3 DEF Kinds
      <3> QED BY <2>6, <3>2, <3>3, <3>4, <3>5
    <2>7. CASE AskCorrection(t)
      <3>1. /\ Say(t, <<"assistant", "user">>) /\ Goto(t, "correcting") /\ pc[t] = "invalid"
            /\ UNCHANGED <<turn, completed>>
        BY <2>7 DEF AskCorrection, lock
      <3>2. history' = Append(Append(history, <<t, "assistant">>), <<t, "user">>)
        BY <2>1, <3>1, SaysTwo DEF Kinds
      <3>3. Follows(history, <<t, "assistant">>)
        BY <2>1, <3>1 DEF Follows, EndsIn, Conversation, Ending
      <3>4. \A i \in DOMAIN history : Answered(history, i)
        BY DEF Conversation
      <3>5. history \in Seq(Turns \X Kinds)
        BY ONLY <2>1
      <3>8. /\ EndsIn(history', t) /\ LastRow(history') = <<t, "user">>
            /\ \A i \in DOMAIN history' : Answered(history', i)
            /\ \A q \in Turns \ {t} : Finished(history, q) => Finished(history', q)
        BY ONLY <3>2, <3>3, <3>4, <3>5, t \in Turns, AskKeepsConversation
      <3>9. \A q \in Turns : pc'[q] = (IF q = t THEN "correcting" ELSE "idle")
        BY <2>1, <3>1 DEF Goto
      <3>10. Ending'
        BY <3>8, <3>9 DEF Ending, EndsIn, LastRow
      <3>11. \A q \in completed' : q <= turn' /\ pc'[q] = "idle" /\ Finished(history', q)
        BY <2>1, <3>1, <3>8, <3>9 DEF Conversation
      <3> QED BY <3>8, <3>10, <3>11 DEF Conversation, Answered, Finished, Opens, Closes
    <2> QED BY <1>3, <2>3, <2>4, <2>6, <2>7 DEF TurnStep
  <1> QED
    BY <1>1, <1>2, <1>3 DEF Next, vars, agent, lock, talk, Initialize, Initialized, InitializeThrows,
       Started, Pause, Resume, ResetFromError, Stop, Stopped

-----------------------------------------------------------------------------
(* The calls that stay without an answer.                                   *)

(* A turn is cut when it is over or in its error path; and calls that close *)
(* their turn belong to a turn between its two writes or to a turn cut.     *)
CutInv ==
  /\ \A q \in cut : q <= turn /\ q \notin completed /\ pc[q] \in {"idle", "recording", "reporting"}
  /\ \A i \in DOMAIN history : Closes(history, i) /\ history[i][2] = "calls" =>
       pc[history[i][1]] = "results" \/ history[i][1] \in cut

\* A row that closes its turn in a longer conversation closed it before.
LEMMA StillCloses ==
  ASSUME NEW rows \in Seq(Turns \X Kinds), NEW more \in Seq(Turns \X Kinds), Len(rows) <= Len(more),
         \A i \in 1..Len(rows) : more[i] = rows[i],
         NEW i \in 1..Len(rows), Closes(more, i)
  PROVE  Closes(rows, i)
  <1>1. CASE i = Len(rows)
    BY <1>1 DEF Closes
  <1>2. CASE i < Len(rows)
    <2>1. i # Len(more) /\ i + 1 \in 1..Len(rows)
      BY <1>2
    <2>2. more[i + 1][1] # more[i][1]
      BY <2>1 DEF Closes
    <2> QED BY <2>1, <2>2 DEF Closes
  <1> QED BY <1>1, <1>2

\* The rows of the turn under way come last, so only its last row closes it.
LEMMA OnlyTheLastCloses ==
  ASSUME IndInv, turn \in Turns, NEW i \in DOMAIN history, history[i][1] = turn, Closes(history, i)
  PROVE  i = Len(history)
  <1> SUFFICES ASSUME i # Len(history) PROVE FALSE
    OBVIOUS
  <1>0. history \in Seq(Turns \X Kinds)
    BY DEF IndInv, TypeOK
  <1>1. i + 1 \in DOMAIN history /\ history[i + 1][1] # turn /\ i < i + 1
    BY <1>0 DEF Closes
  <1>2. turn <= history[i + 1][1] /\ history[i + 1][1] <= turn
    BY <1>0, <1>1 DEF IndInv, TurnsDoNotMix, RowsAreOld
  <1>3. history[i + 1][1] \in Turns
    BY <1>0, <1>1
  <1> QED BY <1>1, <1>2, <1>3 DEF Turns

LEMMA CutStep ==
  ASSUME IndInv, Conversation, CutInv, [Next]_vars
  PROVE  CutInv'
  <1>0. /\ history \in Seq(Turns \X Kinds) /\ pc = [q \in Turns |-> pc[q]] /\ turn \in Nat
        /\ completed \subseteq Turns /\ cut \subseteq Turns
        /\ \A i \in DOMAIN history : history[i][1] \in Turns /\ history[i][1] <= turn
    BY AgentAssumption DEF IndInv, TypeOK, RowsAreOld
  <1>1. CASE UNCHANGED <<history, turn, completed, pc, cut>>
    BY <1>1 DEF CutInv, Closes
  <1>2. CASE RunTurn
    <2>1. UNCHANGED <<history, completed, cut>> /\ turn' = turn + 1
      BY <1>2 DEF RunTurn, talk
    <2>2. \A q \in Turns : q <= turn => pc'[q] = pc[q]
      BY <1>0, <1>2 DEF RunTurn, Goto
    <2>3. \A q \in cut : q \in Turns /\ q <= turn /\ q <= turn + 1
      <3>1. \A q \in Turns : q \in Nat
        BY AgentAssumption DEF Turns
      <3>2. \A q \in cut : q \in Turns /\ q <= turn
        BY <1>0 DEF CutInv
      <3> QED BY <1>0, <3>1, <3>2
    <2> QED BY <1>0, <2>1, <2>2, <2>3 DEF CutInv, Closes
  <1>3. ASSUME NEW t \in Turns, TurnStep(t)
        PROVE  CutInv'
    <2>1. t = turn /\ t \notin completed
      <3>1. pc[t] # "idle"
        BY <1>3 DEF TurnStep, LoseTurn, AppendUser, ModelAnswers, AppendCalls, AppendResults,
                    AskCorrection, Corrected, AppendAnswer, CompleteTurn, FailTurn, MayFail,
                    ReleaseTools, ThrowError
      <3> QED BY <3>1 DEF IndInv, Locked, Conversation
    <2>2. CASE FailTurn(t)
      <3>1. /\ UNCHANGED <<history, turn, completed>>
            /\ cut' = IF pc[t] = "results" THEN cut \cup {t} ELSE cut
        BY <2>2 DEF FailTurn, talk
      <3>2. \E place \in {"recording", "idle"} : Goto(t, place)
        BY <2>2 DEF FailTurn, EnterError
      <3>3. \A q \in Turns : q # t => pc'[q] = pc[q]
        BY <1>0, <3>2 DEF Goto
      <3>4. pc'[t] \in {"recording", "idle"} /\ t <= turn
        BY <1>0, <2>1, <3>2 DEF Goto
      <3> QED BY <1>0, <2>1, <3>1, <3>3, <3>4 DEF CutInv, Closes
    <2>3. CASE LoseTurn(t) \/ ModelAnswers(t) \/ Corrected(t) \/ ReleaseTools(t) \/ ThrowError(t)
      <3>1. UNCHANGED <<history, turn, completed, cut>> /\ pc[t] # "results"
        BY <2>3 DEF LoseTurn, ModelAnswers, Corrected, ReleaseTools, ThrowError, lock, talk
      <3>2. \E place : Goto(t, place) /\ (pc[t] \in {"recording", "reporting"} => place \in {"idle", "reporting"})
        BY <2>3 DEF LoseTurn, ModelAnswers, MoreTools, Corrected, ReleaseTools, ThrowError
      <3>3. pc[t] # "idle"
        BY <2>3 DEF LoseTurn, ModelAnswers, Corrected, ReleaseTools, ThrowError
      <3>4. \A q \in Turns : q # t => pc'[q] = pc[q]
        BY <1>0, <3>2 DEF Goto
      <3>5. pc[t] \in {"recording", "reporting"} => pc'[t] \in {"idle", "reporting"}
        BY <1>0, <3>2 DEF Goto
      <3> QED BY <1>0, <3>1, <3>3, <3>4, <3>5 DEF CutInv, Closes
    <2>4. CASE CompleteTurn(t)
      <3>1. /\ UNCHANGED <<history, turn, cut>> /\ completed' = completed \cup {t}
            /\ pc[t] = "completing" /\ Goto(t, "idle")
        BY <2>4 DEF CompleteTurn, talk
      <3>2. \A q \in Turns : q # t => pc'[q] = pc[q]
        BY <1>0, <3>1 DEF Goto
      <3>3. t \notin cut
        BY <3>1 DEF CutInv
      <3> QED BY <1>0, <3>1, <3>2, <3>3 DEF CutInv, Closes
    <2>5. ASSUME NEW place, Goto(t, place), UNCHANGED <<turn, completed, cut>>,
                 pc[t] \notin {"idle", "recording", "reporting"},
                 history' \in Seq(Turns \X Kinds), Len(history) < Len(history'),
                 \A i \in 1..Len(history) : history'[i] = history[i],
                 \A i \in 1..Len(history') : i > Len(history) =>
                    history'[i][1] = t /\ (history'[i][2] = "calls" => place = "results")
          PROVE  CutInv'
      <3>1. \A q \in Turns : pc'[q] = IF q = t THEN place ELSE pc[q]
        BY <1>0, <2>5 DEF Goto
      <3>2. t \notin cut
        BY <2>5 DEF CutInv
      <3>3. \A q \in cut : q <= turn /\ q \notin completed /\ pc'[q] \in {"idle", "recording", "reporting"}
        BY <1>0, <3>1, <3>2 DEF CutInv
      <3>4. ASSUME NEW i \in DOMAIN history', Closes(history', i), history'[i][2] = "calls"
            PROVE  pc'[history'[i][1]] = "results" \/ history'[i][1] \in cut
        <4>0. i \in 1..Len(history') /\ Len(history) \in Nat /\ Len(history') \in Nat
          BY <1>0, <2>5
        <4>1. CASE i > Len(history)
          BY <2>5, <3>1, <3>4, <4>0, <4>1
        <4>2. CASE i \in 1..Len(history)
          <5>0. Len(history) <= Len(history')
            BY <2>5, <4>0
          <5>1. history'[i] = history[i] /\ Closes(history, i)
            BY ONLY <1>0, <2>5, <3>4, <4>2, <5>0, StillCloses
          <5>2. history[i][1] # t
            <6> SUFFICES ASSUME history[i][1] = t PROVE FALSE
              OBVIOUS
            <6>1. i = Len(history)
              BY <1>0, <2>1, <4>2, <5>1, OnlyTheLastCloses
            <6>2. Len(history) + 1 \in 1..Len(history') /\ history'[Len(history) + 1][1] = t
              BY <1>0, <2>5
            <6> QED BY <1>0, <2>5, <3>4, <5>1, <6>1, <6>2 DEF Closes
          <5> QED BY <1>0, <3>1, <3>4, <4>2, <5>1, <5>2 DEF CutInv
        <4> QED BY <4>0, <4>1, <4>2
      <3> QED BY <2>5, <3>3, <3>4 DEF CutInv
    <2>6. ASSUME NEW place, Goto(t, place), UNCHANGED <<turn, completed, cut>>,
                 pc[t] \notin {"idle", "recording", "reporting"}, NEW k \in Kinds,
                 k = "calls" => place = "results", Say(t, <<k>>)
          PROVE  CutInv'
      <3>1. history' = Append(history, <<t, k>>)
        BY <1>0, <2>6, SaysOne
      <3>2. /\ history' \in Seq(Turns \X Kinds) /\ Len(history') = Len(history) + 1
            /\ \A i \in 1..Len(history) : history'[i] = history[i]
            /\ history'[Len(history) + 1] = <<t, k>>
        BY <1>0, <3>1
      <3>3. \A i \in 1..Len(history') : i > Len(history) =>
               history'[i][1] = t /\ (history'[i][2] = "calls" => place = "results")
        BY <1>0, <2>6, <3>2
      <3>4. Len(history) < Len(history')
        BY <1>0, <3>2
      <3> QED BY <2>5, <2>6, <3>2, <3>3, <3>4
    <2>7. CASE AppendUser(t) \/ AppendCalls(t) \/ AppendResults(t) \/ AppendAnswer(t)
      BY <2>6, <2>7 DEF AppendUser, AppendCalls, AppendResults, AppendAnswer, lock, Kinds
    <2>8. CASE AskCorrection(t)
      <3>1. /\ Say(t, <<"assistant", "user">>) /\ Goto(t, "correcting") /\ pc[t] = "invalid"
            /\ UNCHANGED <<turn, completed, cut>>
        BY <2>8 DEF AskCorrection, lock
      <3>2. history' = Append(Append(history, <<t, "assistant">>), <<t, "user">>)
        BY <1>0, <3>1, SaysTwo DEF Kinds
      <3>3. /\ history' \in Seq(Turns \X Kinds) /\ Len(history') = Len(history) + 2
            /\ \A i \in 1..Len(history) : history'[i] = history[i]
            /\ history'[Len(history) + 1] = <<t, "assistant">>
            /\ history'[Len(history) + 2] = <<t, "user">>
        BY <1>0, <3>2 DEF Kinds
      <3>4. \A i \in 1..Len(history') : i > Len(history) =>
               history'[i][1] = t /\ history'[i][2] # "calls"
        BY <1>0, <3>3
      <3>5. Len(history) < Len(history')
        BY <1>0, <3>3
      <3> QED BY <2>5, <3>1, <3>3, <3>4, <3>5
    <2> QED BY <1>3, <2>2, <2>3, <2>4, <2>7, <2>8 DEF TurnStep
  <1> QED
    BY <1>1, <1>2, <1>3 DEF Next, vars, agent, lock, talk, Initialize, Initialized, InitializeThrows,
       Started, Pause, Resume, ResetFromError, Stop, Stopped

\* Calls without an answer are the last row of a turn between its writes, or of a turn cut.
Told == Conversation /\ CutInv

LEMMA ToldAlways == Spec => []Told
  <1>1. Init => Told
    BY DEF Init, Told, Conversation, Ending, CutInv
  <1>2. IndInv /\ Told /\ [Next]_vars => Told'
    BY ConversationStep, CutStep DEF Told
  <1> QED BY Inductive, <1>1, <1>2, PTL DEF Spec

(* In the whole conversation that the turns of the agent share, whatever    *)
(* failed half-way, each batch of tool calls is answered by the very next   *)
(* row, except the one between the two writes now and those of the turns    *)
(* that lost their second write; completed turns end with the assistant.    *)
THEOREM ConversationIsValid == Spec => []CallsAreAnswered
  <1>1. Told => CallsAreAnswered
    BY DEF Told, CutInv, Conversation, CallsAreAnswered, Finished
  <1> QED BY ToldAlways, <1>1, PTL

(* With stores that do not throw, every model call is sent a conversation   *)
(* without an unanswered call, whatever the other turns met.                *)
THEOREM AnsweredUnlessAWriteFails == ~StoreFaults => (Spec => []NextCallIsAnswered)
  <1> DEFINE Uncut == ~StoreFaults => cut = {}
  <1>1. Init => Uncut
    BY DEF Init
  <1>2. Uncut /\ [Next]_vars => Uncut'
    <2> SUFFICES ASSUME Uncut, [Next]_vars, ~StoreFaults PROVE cut' = {}
      OBVIOUS
    <2>1. CASE \E t \in Turns : FailTurn(t)
      BY <2>1 DEF FailTurn, MayFail
    <2> QED
      BY <2>1 DEF Next, TurnStep, vars, Initialize, Initialized, InitializeThrows, Started, Pause, Resume,
         ResetFromError, Stop, Stopped, RunTurn, LoseTurn, AppendUser, ModelAnswers, AppendCalls,
         AppendResults, AskCorrection, Corrected, AppendAnswer, CompleteTurn, ReleaseTools, ThrowError
  <1>3. ~StoreFaults /\ IndInv /\ Told /\ Uncut => NextCallIsAnswered
    <2> SUFFICES ASSUME IndInv, Told, cut = {}, NEW t \in Turns, pc[t] = "calling",
                        NEW i \in DOMAIN history, history[i][2] = "calls"
                 PROVE  i < Len(history) /\ history[i + 1] = <<history[i][1], "results">>
      BY DEF NextCallIsAnswered
    <2>1. history \in Seq(Turns \X Kinds) /\ history[i][1] \in Turns
      BY DEF IndInv, TypeOK
    <2>2. ~Closes(history, i)
      BY <2>1 DEF Told, CutInv, IndInv, Locked
    <2>3. i < Len(history) /\ history[i + 1][1] = history[i][1] /\ history[i + 1][2] = "results"
      BY <2>1, <2>2 DEF Closes, Told, Conversation, Answered
    <2>4. history[i + 1] \in Turns \X Kinds
      BY <2>1, <2>3
    <2> QED BY <2>3, <2>4
  <1> HIDE DEF Uncut
  <1>4. Spec => []Uncut
    BY <1>1, <1>2, PTL DEF Spec
  <1>5. CASE StoreFaults
    BY <1>5
  <1>6. CASE ~StoreFaults
    <2>1. IndInv /\ Told /\ Uncut => NextCallIsAnswered
      BY <1>3, <1>6
    <2>2. Spec => []NextCallIsAnswered
      BY Inductive, ToldAlways, <1>4, <2>1, PTL
    <2> QED BY <2>2
  <1> QED BY <1>5, <1>6

=============================================================================
