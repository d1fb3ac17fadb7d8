---------------------------- MODULE AgentMemory ----------------------------
(***************************************************************************)
(* The conversation history of the memory manager                           *)
(* (packages/core/src/memory/manager.ts) and the context manager that        *)
(* replaces old turns by a summary (packages/core/src/agent/               *)
(* context-manager.ts).  Agent instances share the table; the turn id is     *)
(* its primary key, and every summary has the same turn id.                  *)
(*                                                                         *)
(* The turns of an instance are numbered; what a row stands for is the set of  *)
(* turns it covers.  An instance manages its context between its turns.  A   *)
(* call on the memory is a step: the awaits between them let the others in.  *)
(***************************************************************************)
EXTENDS Integers, Sequences

CONSTANTS
  Instances,     \* the agent instances that share the memory
  RecentTurns,   \* recentTurnsToKeep
  MaxTurns,      \* bound on the turns of an instance
  MaxFailures    \* bound on the failures of the store

VARIABLES
  historyRows,  \* the rows of conversation_history of each instance, by rowid: id and covers
  said,         \* how many turns each instance appended
  managing,     \* each instance: idle, summarizing, writing or restoring
  original,     \* history, as manageContext read it
  toWrite,      \* the rows still to be appended
  lost,         \* the instances whose restore failed
  failures      \* the failures so far

memoryVars == <<historyRows, said, managing, original, toWrite, lost, failures>>

SummaryMarker == <<"__context_summary__", 0>>

Init ==
  /\ historyRows = [i \in Instances |-> <<>>] /\ said = [i \in Instances |-> 0]
  /\ managing = [i \in Instances |-> "idle"]
  /\ original = [i \in Instances |-> <<>>] /\ toWrite = [i \in Instances |-> <<>>]
  /\ lost = {} /\ failures = 0

\* The turn id is the primary key of the table, whoever the row belongs to.
Inserts(row) == \A i \in Instances : \A k \in DOMAIN historyRows[i] : historyRows[i][k].id # row.id

\* A turn of the agent.
AppendTurn(i) ==
  /\ managing[i] = "idle" /\ said[i] < MaxTurns
  /\ LET turn == said[i] + 1
     IN  /\ said' = [said EXCEPT ![i] = turn]
         /\ historyRows' = [historyRows EXCEPT ![i] = Append(@, [id |-> <<i, turn>>, covers |-> {turn}])]
  /\ UNCHANGED <<managing, original, toWrite, lost, failures>>

-----------------------------------------------------------------------------
\* Over the threshold, with turns that are not recent: they are summarized.
ManageContext(i) ==
  /\ managing[i] = "idle" /\ Len(historyRows[i]) > RecentTurns
  /\ managing' = [managing EXCEPT ![i] = "summarizing"]
  /\ original' = [original EXCEPT ![i] = historyRows[i]]
  /\ UNCHANGED <<historyRows, said, toWrite, lost, failures>>

SummarizeFails(i) ==
  /\ managing[i] = "summarizing" /\ managing' = [managing EXCEPT ![i] = "idle"]
  /\ UNCHANGED <<historyRows, said, original, toWrite, lost, failures>>

\* The prompt holds all the old turns, an earlier summary too.
SummarizeHistory_NewTurnsOnly(old) == UNION {old[k].covers : k \in {n \in DOMAIN old : old[n].id # SummaryMarker}}
SummarizeHistory(old) == UNION {old[k].covers : k \in DOMAIN old}

\* The summary comes: the history is cleared and written anew.
ClearAndWrite(i) ==
  /\ managing[i] = "summarizing" /\ managing' = [managing EXCEPT ![i] = "writing"]
  /\ LET split == Len(original[i]) - RecentTurns
         summary == [id |-> SummaryMarker, covers |-> SummarizeHistory(SubSeq(original[i], 1, split))]
     IN  toWrite' = [toWrite EXCEPT ![i] = <<summary>> \o SubSeq(original[i], split + 1, Len(original[i]))]
  /\ historyRows' = [historyRows EXCEPT ![i] = <<>>]
  /\ UNCHANGED <<said, original, lost, failures>>

WriteTurn(i) ==
  /\ managing[i] \in {"writing", "restoring"} /\ toWrite[i] # <<>> /\ Inserts(Head(toWrite[i]))
  /\ historyRows' = [historyRows EXCEPT ![i] = Append(@, Head(toWrite[i]))]
  /\ toWrite' = [toWrite EXCEPT ![i] = Tail(@)]
  /\ UNCHANGED <<said, managing, original, lost, failures>>

Written(i) ==
  /\ managing[i] \in {"writing", "restoring"} /\ toWrite[i] = <<>>
  /\ managing' = [managing EXCEPT ![i] = "idle"]
  /\ UNCHANGED <<historyRows, said, original, toWrite, lost, failures>>

\* A row that cannot be inserted: the turn id is taken, or the store fails.
Fails(i) ==
  /\ toWrite[i] # <<>>
  /\ IF Inserts(Head(toWrite[i])) THEN failures < MaxFailures /\ failures' = failures + 1
     ELSE UNCHANGED failures

WriteFails(i) ==
  /\ managing[i] = "writing" /\ Fails(i)
  /\ managing' = [managing EXCEPT ![i] = "restoring"]
  /\ toWrite' = [toWrite EXCEPT ![i] = original[i]] /\ historyRows' = [historyRows EXCEPT ![i] = <<>>]
  /\ UNCHANGED <<said, original, lost>>

RestoreFails(i) ==
  /\ managing[i] = "restoring" /\ Fails(i)
  /\ managing' = [managing EXCEPT ![i] = "idle"] /\ toWrite' = [toWrite EXCEPT ![i] = <<>>]
  /\ lost' = lost \cup {i}
  /\ UNCHANGED <<historyRows, said, original>>

MemoryNext ==
  \E i \in Instances :
    \/ AppendTurn(i) \/ ManageContext(i) \/ SummarizeFails(i) \/ ClearAndWrite(i)
    \/ WriteTurn(i) \/ Written(i) \/ WriteFails(i) \/ RestoreFails(i)

Spec == Init /\ [][MemoryNext]_memoryVars

-----------------------------------------------------------------------------
\* The rows cover the first n turns, each once and in order.
Tells(history, n) ==
  /\ UNION {history[k].covers : k \in DOMAIN history} = 1..n
  /\ \A k, l \in DOMAIN history : k < l => \A x \in history[k].covers, y \in history[l].covers : x < y

(* Between two managements the history of an instance stands for its whole    *)
(* conversation, in order, however often it was summarized and whatever the   *)
(* other instances and the store did, unless a restore failed.               *)
HistoryTellsAll ==
  \A i \in Instances \ lost : managing[i] = "idle" => Tells(historyRows[i], said[i])

-----------------------------------------------------------------------------
(* What the code does not keep: a history whose summary cannot be written is  *)
(* restored, as context-manager.ts:136 says, as long as the store works.     *)
FailedWritesAreRestored == failures = 0 => lost = {}
=============================================================================
