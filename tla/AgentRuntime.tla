---------------------------- MODULE AgentRuntime ----------------------------
(***************************************************************************)
(* One agent instance (packages/core/src/agent/runtime.ts): the status      *)
(* machine, the turn lock, the tool-use loop, structured-output correction  *)
(* and the error path of runTurn, interleaved at every await with stop,     *)
(* pause, resume and resetFromError.                                        *)
(*                                                                         *)
(* The conversation is abstract: what matters of an entry is its turn and   *)
(* its kind.  The model, the guardrails and the tools answer anything.      *)
(* A definition Def_Bug is a variant of Def with a plausible fault; it is   *)
(* not part of the specification.                                          *)
(***************************************************************************)
EXTENDS Naturals, Sequences

CONSTANTS
  MaxTurns,       \* bound on the calls of runTurn that take the lock
  MaxIterations,  \* maxToolCallIterations (20 in the code)
  Structured,     \* does the definition have an outputSchema?
  StoreFaults     \* may the event store and the memory store throw?

ASSUME AgentAssumption ==
  /\ MaxTurns \in Nat \ {0} /\ MaxIterations \in Nat \ {0}
  /\ Structured \in BOOLEAN /\ StoreFaults \in BOOLEAN

VARIABLES
  status,      \* the agent's status
  init,        \* the await at which initialize is parked
  stopping,    \* the await at which stop is parked
  inProgress,  \* turnInProgress, the lock of runTurn
  turn,        \* metrics.totalTurns: the turns begun so far
  pc,          \* the await at which each turn is parked
  iterations,  \* toolCallIterations of each turn
  tools,       \* is the tools map still filled?
  history,     \* the instance's conversation_history rows, in rowid order
  completed,   \* the turns that returned an answer
  cut          \* for the properties only: the turns broken off between their calls and the results

Turns == 1..MaxTurns

agent == <<status, init, stopping, tools>>
lock  == <<inProgress, turn>>
talk  == <<iterations, history>>
vars  == <<agent, lock, pc, talk, completed, cut>>

\* VALID_TRANSITIONS.
Valid == [created      |-> {"initializing"},
          initializing |-> {"running", "error"},
          running      |-> {"paused", "stopped", "error", "completed"},
          paused       |-> {"running", "stopped", "error"},
          error        |-> {"running", "stopped"},
          stopping     |-> {"stopped", "error"},
          completed    |-> {"stopped"},
          stopped      |-> {}]

\* transitionStatus, when it does not throw.
Transition(s) == s \in Valid[status] /\ status' = s

Say(t, kinds) == history' = history \o [i \in DOMAIN kinds |-> <<t, kinds[i]>>]
Goto(t, place) == pc' = [pc EXCEPT ![t] = place]

-----------------------------------------------------------------------------
Init ==
  /\ status = "created" /\ init = "idle" /\ stopping = "idle" /\ tools = TRUE
  /\ inProgress = FALSE /\ turn = 0 /\ pc = [t \in Turns |-> "idle"]
  /\ iterations = [t \in Turns |-> 0] /\ history = <<>>
  /\ completed = {} /\ cut = {}

(* initialize: two transitions, an event after each.                       *)
Initialize ==
  /\ init = "idle" /\ Transition("initializing")
  /\ init' = "initialized"
  /\ UNCHANGED <<stopping, tools, lock, pc, talk, completed, cut>>

Initialized ==
  /\ init = "initialized" /\ Transition("running")
  /\ init' = "started"
  /\ UNCHANGED <<stopping, tools, lock, pc, talk, completed, cut>>

\* AGENT_INITIALIZED or AGENT_STARTED was not persisted: initialize throws.
InitializeThrows ==
  /\ StoreFaults /\ init \in {"initialized", "started"}
  /\ init' = "threw"
  /\ UNCHANGED <<status, stopping, tools, lock, pc, talk, completed, cut>>

Started ==
  /\ init = "started" /\ init' = "done"
  /\ UNCHANGED <<status, stopping, tools, lock, pc, talk, completed, cut>>

(* pause, resume and resetFromError do nothing in any other state.          *)
Pause ==
  /\ status = "running" /\ Transition("paused")
  /\ UNCHANGED <<init, stopping, tools, lock, pc, talk, completed, cut>>

Resume ==
  /\ status = "paused" /\ Transition("running")
  /\ UNCHANGED <<init, stopping, tools, lock, pc, talk, completed, cut>>

ResetFromError ==
  /\ status = "error" /\ Transition("running")
  /\ UNCHANGED <<init, stopping, tools, lock, pc, talk, completed, cut>>

(* stop: throws when the transition is not allowed; the tools are released  *)
(* after the event, persisted or not.                                       *)
Stop ==
  /\ Transition("stopped")
  /\ stopping' = "announcing"
  /\ UNCHANGED <<init, tools, lock, pc, talk, completed, cut>>

Stopped_OnlyIfPublished ==
  /\ stopping = "announcing"
  /\ stopping' = "done"
  /\ tools' \in (IF StoreFaults THEN {FALSE, tools} ELSE {FALSE})
  /\ UNCHANGED <<status, init, lock, pc, talk, completed, cut>>

Stopped ==
  /\ stopping = "announcing"
  /\ stopping' = "done" /\ tools' = FALSE
  /\ UNCHANGED <<status, init, lock, pc, talk, completed, cut>>

-----------------------------------------------------------------------------
(* runTurn.                                                                *)

RunTurn_NoLock ==
  /\ status = "running" /\ turn < MaxTurns
  /\ inProgress' = TRUE /\ turn' = turn + 1
  /\ Goto(turn + 1, "announcing")
  /\ UNCHANGED <<agent, talk, completed, cut>>

RunTurn ==
  /\ status = "running" /\ ~inProgress /\ turn < MaxTurns
  /\ inProgress' = TRUE /\ turn' = turn + 1
  /\ Goto(turn + 1, "announcing")
  /\ UNCHANGED <<agent, talk, completed, cut>>

\* AGENT_TURN_STARTED was not persisted: it is published outside the try,
\* so the lock stays taken.
LoseTurn(t) ==
  /\ StoreFaults /\ pc[t] = "announcing"
  /\ Goto(t, "lost")
  /\ UNCHANGED <<agent, lock, talk, completed, cut>>

\* The input guardrails let the (rewritten) input through.
AppendUser(t) ==
  /\ pc[t] = "announcing"
  /\ Say(t, <<"user">>)
  /\ Goto(t, "calling")
  /\ UNCHANGED <<agent, lock, iterations, completed, cut>>

MoreTools_OffByOne(t) ==
  /\ iterations[t] <= MaxIterations /\ iterations' = [iterations EXCEPT ![t] = @ + 1]
  /\ Goto(t, "tools")

MoreTools(t) ==
  /\ iterations[t] < MaxIterations /\ iterations' = [iterations EXCEPT ![t] = @ + 1]
  /\ Goto(t, "tools")

(* The model answered, at the first or a later attempt of withRetry, with   *)
(* tool calls or with a final text.  Past the limit the loop is left.       *)
ModelAnswers(t) ==
  /\ pc[t] = "calling"
  /\ \/ MoreTools(t)
     \/ Goto(t, "output") /\ UNCHANGED iterations
     \/ Structured /\ Goto(t, "invalid") /\ UNCHANGED iterations
  /\ UNCHANGED <<agent, lock, history, completed, cut>>

\* Each call found its handler or not, returned or threw: the results are
\* text in any case.  The calls are appended, then the results.
AppendCalls(t) ==
  /\ pc[t] = "tools"
  /\ Say(t, <<"calls">>)
  /\ Goto(t, "results")
  /\ UNCHANGED <<agent, lock, iterations, completed, cut>>

AppendResults_Once(t) ==
  /\ pc[t] = "results"
  /\ Say(t, IF iterations[t] > 1 THEN <<>> ELSE <<"results">>)
  /\ Goto(t, "calling")
  /\ UNCHANGED <<agent, lock, iterations, completed, cut>>

AppendResults(t) ==
  /\ pc[t] = "results"
  /\ Say(t, <<"results">>)
  /\ Goto(t, "calling")
  /\ UNCHANGED <<agent, lock, iterations, completed, cut>>

\* The final text did not match the schema: append it and a correction, and
\* ask once more; whatever comes back is the answer.
AskCorrection(t) ==
  /\ pc[t] = "invalid"
  /\ Say(t, <<"assistant", "user">>)
  /\ Goto(t, "correcting")
  /\ UNCHANGED <<agent, lock, iterations, completed, cut>>

Corrected(t) ==
  /\ pc[t] = "correcting"
  /\ Goto(t, "output")
  /\ UNCHANGED <<agent, lock, talk, completed, cut>>

\* The output guardrails let the answer through.
AppendAnswer(t) ==
  /\ pc[t] = "output"
  /\ Say(t, <<"assistant">>)
  /\ Goto(t, "completing")
  /\ UNCHANGED <<agent, lock, iterations, completed, cut>>

CompleteTurn(t) ==
  /\ pc[t] = "completing"
  /\ completed' = completed \cup {t}
  /\ inProgress' = FALSE /\ Goto(t, "idle")
  /\ UNCHANGED <<agent, turn, talk, cut>>

-----------------------------------------------------------------------------
(* The catch block.  A guardrail blocks, the model fails at every attempt,  *)
(* or a store throws.  The status becomes "error", unless the agent was     *)
(* stopped meanwhile: then transitionStatus throws out of the catch block.  *)
MayFail(t) ==
  \/ pc[t] \in {"announcing", "calling", "correcting", "output"}
  \/ StoreFaults /\ pc[t] \in {"tools", "results", "invalid", "completing"}

EnterError_Unchecked(t) ==
  /\ status' = "error" /\ Goto(t, "recording")
  /\ UNCHANGED inProgress

EnterError(t) ==
  \/ Transition("error") /\ Goto(t, "recording") /\ UNCHANGED inProgress
  \/ /\ "error" \notin Valid[status]
     /\ Goto(t, "idle") /\ inProgress' = FALSE
     /\ UNCHANGED status

FailTurn(t) ==
  /\ MayFail(t)
  /\ EnterError(t)
  /\ cut' = IF pc[t] = "results" THEN cut \cup {t} ELSE cut
  /\ UNCHANGED <<init, stopping, tools, turn, talk, completed>>

\* The episode was recorded (or was not): release the tools.
ReleaseTools(t) ==
  /\ pc[t] = "recording"
  /\ tools' = FALSE
  /\ Goto(t, "reporting")
  /\ UNCHANGED <<status, init, stopping, lock, talk, completed, cut>>

ThrowError_OnlyIfPublished(t) ==
  /\ pc[t] = "reporting"
  /\ inProgress' \in (IF StoreFaults THEN {FALSE, inProgress} ELSE {FALSE})
  /\ Goto(t, "idle")
  /\ UNCHANGED <<agent, turn, talk, completed, cut>>

\* AGENT_ERROR was published (or was not): throw, finally unlock.
ThrowError(t) ==
  /\ pc[t] = "reporting"
  /\ inProgress' = FALSE /\ Goto(t, "idle")
  /\ UNCHANGED <<agent, turn, talk, completed, cut>>

-----------------------------------------------------------------------------
TurnStep(t) ==
  \/ LoseTurn(t) \/ AppendUser(t) \/ ModelAnswers(t) \/ AppendCalls(t)
  \/ AppendResults(t) \/ AskCorrection(t) \/ Corrected(t) \/ AppendAnswer(t)
  \/ CompleteTurn(t) \/ FailTurn(t) \/ ReleaseTools(t) \/ ThrowError(t)

Next ==
  \/ Initialize \/ Initialized \/ InitializeThrows \/ Started
  \/ Pause \/ Resume \/ ResetFromError \/ Stop \/ Stopped
  \/ RunTurn \/ \E t \in Turns : TurnStep(t)

Spec == Init /\ [][Next]_vars

\* Model calls carry a timeout and tool handlers return.  Nothing else is
\* certain to happen.
FairSpec == Spec /\ (\A t \in Turns : WF_vars(TurnStep(t))) /\ WF_vars(Stopped)

-----------------------------------------------------------------------------
Kinds == {"user", "assistant", "calls", "results"}

TypeOK ==
  /\ status \in DOMAIN Valid
  /\ init \in {"idle", "initialized", "started", "done", "threw"}
  /\ stopping \in {"idle", "announcing", "done"}
  /\ tools \in BOOLEAN /\ inProgress \in BOOLEAN
  /\ turn \in 0..MaxTurns /\ iterations \in [Turns -> 0..MaxIterations]
  /\ pc \in [Turns -> {"idle", "lost", "announcing", "calling", "tools", "results", "invalid",
             "correcting", "output", "completing", "recording", "reporting"}]
  /\ history \in Seq(Turns \X Kinds)
  /\ completed \subseteq Turns /\ cut \subseteq Turns

(* Turns never mix in the conversation, although runTurn is called by       *)
(* engine, loop and handoff callers: the rows of a turn are contiguous.     *)
TurnsDoNotMix ==
  \A i, j \in DOMAIN history : i < j => history[i][1] <= history[j][1]

(* The conversation that all turns of the agent share is what the next      *)
(* model call is sent.  In all of it, a turn opens with the user's row, and *)
(* every batch of tool calls is answered by the very next row, a row of the *)
(* same turn.  There is no other exception than the batch of the turn that  *)
(* is between its two writes now, or that lost the second one (its store    *)
(* threw).  Completed turns are whole, and the assistant speaks last.       *)
Opens(rows, i)  == i = 1 \/ rows[i - 1][1] # rows[i][1]
Closes(rows, i) == i = Len(rows) \/ rows[i + 1][1] # rows[i][1]
Answered(rows, i) ==
  /\ Opens(rows, i) => rows[i][2] = "user"
  /\ ~Closes(rows, i) => (rows[i][2] = "calls" <=> rows[i + 1][2] = "results")

CallsAreAnswered ==
  /\ \A i \in DOMAIN history :
       /\ Answered(history, i)
       /\ Closes(history, i) /\ history[i][2] = "calls" =>
            pc[history[i][1]] = "results" \/ history[i][1] \in cut
  /\ cut \cap completed = {}
  /\ \A t \in completed :
       /\ \E i \in DOMAIN history : history[i][1] = t
       /\ \A i \in DOMAIN history :
            history[i][1] = t /\ Closes(history, i) => history[i][2] = "assistant"

(* A stopped agent holds no tools once stop is over, although the turn may  *)
(* still run and the AGENT_STOPPED event may be lost.                       *)
StoppedHoldsNoTools == stopping = "done" => ~tools

(* Nothing revives a stopped agent: not the error path of a turn that was   *)
(* in flight, nor resume or resetFromError.                                 *)
StoppedIsFinal == [][status = "stopped" => status' = "stopped"]_vars

(* Every turn ends and gives the lock back, whatever the model asks for and  *)
(* whatever the stores lose, except when the turn's first event is lost.    *)
TurnEnds == inProgress ~> (~inProgress \/ \E t \in Turns : pc[t] = "lost")

-----------------------------------------------------------------------------
(* What the code does not keep.                                             *)

(* runtime.ts:647, "Reset from error state to running, allowing retries":   *)
(* the agent that is reset and not stopped runs its retry with its tools.   *)
ResetAllowsRetries == status = "running" => tools

(* After a turn was cut, resetFromError lets the next turn run, and its     *)
(* model calls are sent the unanswered batch: nothing removes it.           *)
NextCallIsAnswered ==
  \A t \in Turns : pc[t] = "calling" =>
    \A i \in DOMAIN history : history[i][2] = "calls" =>
      i < Len(history) /\ history[i + 1] = <<history[i][1], "results">>
=============================================================================
