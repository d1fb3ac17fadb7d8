----------------------------- MODULE Blackboard -----------------------------
(***************************************************************************)
(* The blackboard agents share (core/src/agent/blackboard.ts).  post calls   *)
(* the handlers one after another, synchronously, in a for-of loop over the  *)
(* live array: a handler may post, subscribe, unsubscribe or clear before    *)
(* the loop goes on.  `frames' is the stack of the posts under way.          *)
(***************************************************************************)
EXTENDS Naturals, Sequences, SequencesExt, FiniteSets

CONSTANTS
  Subscribers,    \* the subscriptions anybody makes
  Filter,         \* Filter[s]: the fields subscription s asks for
  Drafts,         \* what is posted, a record of all the fields of an entry
  MaxEntries      \* bound: calls of post

VARIABLES
  entries,        \* what was posted, oldest first
  arrays,         \* the arrays `subscribers' has been: the last is the present one
  joined,         \* subscriptions made so far
  frames,         \* the posts under way, the innermost last
  heard,          \* handler calls so far, <<subscription, entry>>
  published       \* entries whose domain event reached the bus, in that order

boardVars == <<entries, arrays, joined, frames, heard, published>>

-----------------------------------------------------------------------------
(* An entry is the index of its draft in `entries'.  A field a filter leaves *)
(* out matches everything, and so does an empty list of tags.               *)
MatchesFilter(e, s) ==
  LET entry == entries[e]  filter == Filter[s] IN
  /\ \A field \in DOMAIN filter \ {"since", "tags"} : entry[field] = filter[field]
  /\ "since" \in DOMAIN filter => entry.timestamp >= filter.since
  /\ "tags" \in DOMAIN filter => filter.tags = {} \/ filter.tags \cap entry.tags # {}

Present  == Len(arrays)
Top      == Last(frames)
Audience == arrays[Top.array]        \* the array the innermost post walks along

\* A handler is running, or nobody posts and anybody may call.
MayCall == frames # <<>> => Top.calling

-----------------------------------------------------------------------------
Init ==
  /\ entries = <<>> /\ arrays = << <<>> >> /\ joined = {}
  /\ frames = <<>> /\ heard = <<>> /\ published = <<>>

Post(draft) ==
  /\ MayCall /\ Len(entries) < MaxEntries
  /\ entries' = Append(entries, draft)
  /\ frames' = Append(frames, [entry |-> Len(entries'), array |-> Present, at |-> 1, calling |-> FALSE,
                               from |-> ToSet(arrays[Present]), disturbed |-> FALSE])
  /\ UNCHANGED <<arrays, joined, heard, published>>

Pushed_InFront(array, s) == <<s>> \o array

\* The subscribers after subscribe pushed a new one.
Pushed(array, s) == Append(array, s)

Subscribe(s) ==
  /\ MayCall /\ s \notin joined
  /\ arrays' = [arrays EXCEPT ![Present] = Pushed(@, s)]
  /\ joined' = joined \cup {s}
  /\ UNCHANGED <<entries, frames, heard, published>>

\* The function subscribe returned looks for its subscription in the array of
\* now: after clear it finds nothing, and the posts under way walk on.
Unsubscribe(s) ==
  /\ MayCall /\ s \in ToSet(arrays[Present])
  /\ arrays' = [arrays EXCEPT ![Present] = RemoveFirst(@, s)]
  /\ frames' = [f \in DOMAIN frames |->
                  IF frames[f].array = Present THEN [frames[f] EXCEPT !.disturbed = TRUE] ELSE frames[f]]
  /\ UNCHANGED <<entries, joined, heard, published>>

\* Both fields get a new empty array.  The entries a handler may still hold
\* are kept here by number; `query' would not find them.
Clear ==
  /\ MayCall /\ arrays[Present] # <<>>
  /\ arrays' = Append(arrays, <<>>)
  /\ UNCHANGED <<entries, joined, frames, heard, published>>

\* One turn of the loop: the handler of the next subscriber is called if its
\* filter matches.  Whether it returns or throws, the loop goes on.
Notify ==
  /\ frames # <<>> /\ ~Top.calling /\ Top.at <= Len(Audience)
  /\ LET s == Audience[Top.at] IN
     IF MatchesFilter(Top.entry, s)
     THEN /\ heard' = Append(heard, <<s, Top.entry>>)
          /\ frames' = [frames EXCEPT ![Len(frames)].at = @ + 1, ![Len(frames)].calling = TRUE]
     ELSE /\ frames' = [frames EXCEPT ![Len(frames)].at = @ + 1]
          /\ UNCHANGED heard
  /\ UNCHANGED <<entries, arrays, joined, published>>

HandlerReturns ==
  /\ frames # <<>> /\ Top.calling
  /\ frames' = [frames EXCEPT ![Len(frames)].calling = FALSE]
  /\ UNCHANGED <<entries, arrays, joined, heard, published>>

\* The loop is over: the domain event is published and post returns.
Publish ==
  /\ frames # <<>> /\ ~Top.calling /\ Top.at > Len(Audience)
  /\ published' = Append(published, Top.entry)
  /\ frames' = Front(frames)
  /\ UNCHANGED <<entries, arrays, joined, heard>>

BoardNext ==
  \/ \E draft \in Drafts : Post(draft)
  \/ \E s \in Subscribers : Subscribe(s) \/ Unsubscribe(s)
  \/ Clear \/ Notify \/ HandlerReturns \/ Publish

-----------------------------------------------------------------------------
(* Whatever the handlers do meanwhile, nobody hears an entry twice, and when *)
(* a post ends everybody who was subscribed when it began and asked for such *)
(* an entry has heard it, unless somebody unsubscribed during the loop.      *)
EveryoneHearsOnce ==
  /\ IsInjective(heard)
  /\ (frames # <<>> /\ ~Top.calling /\ Top.at > Len(Audience) /\ ~Top.disturbed) =>
       \A s \in Top.from : MatchesFilter(Top.entry, s) => <<s, Top.entry>> \in ToSet(heard)

(* Not kept: unsubscribing moves the later subscribers one place down, and   *)
(* the loop passes over the next of them.                                    *)
NobodyIsPassedOver ==
  (frames # <<>> /\ ~Top.calling /\ Top.at > Len(Audience)) =>
    \A s \in Top.from \cap ToSet(Audience) : MatchesFilter(Top.entry, s) => <<s, Top.entry>> \in ToSet(heard)

(* Not kept: a handler that answers an entry posts inside the post, so the    *)
(* answer reaches the bus, and the later subscribers, before its question.   *)
PublishedInOrder == \A i, j \in DOMAIN published : i < j => published[i] < published[j]
=============================================================================
