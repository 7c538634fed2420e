------------------------------ MODULE QwenAdapter ------------------------------
(***************************************************************************)
(* The reader of a Qwen-ASR realtime task (internal/realtime/qwen.go):     *)
(* readQwen takes one message of the service at a time, convert turns it   *)
(* into an event or an error, and emit hands that to the consumer through  *)
(* a bounded channel, unless the task was cancelled.                       *)
(*                                                                         *)
(* The service is not trusted: it may mention items in any order, repeat   *)
(* itself, revise a text, leave out a time stamp, exceed the limits or     *)
(* end the session too early.  What the adapter makes of it is the event   *)
(* stream of ItemStream.                                                   *)
(*                                                                         *)
(* The lock, the timer and the connection of a task are in UpstreamSession. *)
(* A definition named Op_Variant is Op with a plausible mistake; see        *)
(* WsBridge.                                                               *)
(***************************************************************************)
EXTENDS Integers, Sequences, FiniteSets, FiniteSetsExt

CONSTANTS Id,          \* the items the service may name
          Texts,       \* the texts the service may report
          MaxPending,  \* items without an outcome
          MaxItems,    \* MaxSessionItems
          MaxItemText, \* bytes of an item
          MaxAllText,  \* bytes of all items without an outcome
          EventsCap    \* capacity of the channel events

ASSUME AdapterAssumption ==
  /\ IsFiniteSet(Id)
  /\ Texts \subseteq Seq(Nat)
  /\ {MaxPending, MaxItems, EventsCap} \subseteq Nat \ {0}
  /\ {MaxItemText, MaxAllText} \subseteq Nat

VARIABLES
  items,     \* s.items: what is known of each item
  pending,   \* s.pending
  textBytes, \* s.textBytes
  finishing, \* s.finishing
  closed,    \* the task was cancelled and closed
  reader,    \* "read", "emit", "close" or "ended": where readQwen is
  next,      \* the last event that readQwen produced
  events     \* the channel

state == <<items, pending, textBytes>>
vars  == <<items, pending, textBytes, finishing, closed, reader, next, events>>

StageKind == {"started", "stopped", "committed"}
EndKind   == {"finished", "err"}
Kind      == StageKind \cup EndKind \cup {"delta", "completed", "failed"}
Nobody    == "nobody"

Text == Seq(Nat)
Item == [known : BOOLEAN, stages : SUBSET StageKind, done : BOOLEAN, text : Text]
Event == [kind : Kind, id : Id \cup {Nobody}, delta : Text, text : Text]

NoEvent     == [kind |-> "none", id |-> Nobody, delta |-> <<>>, text |-> <<>>]
Plain(k, i) == [kind |-> k, id |-> i, delta |-> <<>>, text |-> <<>>]

Extends(t, s) == Len(s) <= Len(t) /\ SubSeq(t, 1, Len(s)) = s
Growth(t, s)  == SubSeq(t, Len(s) + 1, Len(t))

Init ==
  /\ items = [i \in Id |-> [known |-> FALSE, stages |-> {}, done |-> FALSE, text |-> <<>>]]
  /\ pending = 0 /\ textBytes = 0
  /\ finishing = FALSE /\ closed = FALSE
  /\ reader = "read" /\ next = NoEvent /\ events = <<>>

-----------------------------------------------------------------------------
(* readQwen and convert: what a message becomes.                           *)

Produce(e) == reader' = "emit" /\ next' = e
Ignore     == UNCHANGED <<reader, next>>
Abort      == Produce(Plain("err", Nobody))

KnownItems == {i \in Id : items[i].known}

\* A new item is within the limits of the session.
Admissible(i) ==
  items[i].known \/ (pending < MaxPending /\ Cardinality(KnownItems) < MaxItems)

\* The pending items once the item of a message has been looked up.
Looked(i) == IF items[i].known THEN pending ELSE pending + 1

\* After the lookup, with the other fields of the item as they were.
Mentioned(i) == [items EXCEPT ![i].known = TRUE]

ConvertStage(i, k, valid) ==
  /\ pending' = Looked(i) /\ UNCHANGED textBytes
  /\ \/ ~valid /\ k # "committed" /\ Abort /\ items' = Mentioned(i)
     \/ valid /\ k \in items[i].stages /\ Ignore /\ items' = Mentioned(i)
     \/ /\ valid /\ k \notin items[i].stages
        /\ items' = [Mentioned(i) EXCEPT ![i].stages = @ \cup {k}]
        /\ Produce(Plain(k, i))

ConvertText_Final(i, k, t) ==
  LET s == items[i].text
      bytes == textBytes + Len(t) - Len(s)
  IN  /\ Len(t) <= MaxItemText /\ (k = "delta" => Extends(t, s)) /\ bytes <= MaxAllText
      /\ items' = [Mentioned(i) EXCEPT ![i].text = IF k = "delta" THEN t ELSE <<>>,
                                       ![i].done = k = "completed"]
      /\ pending' = IF k = "delta" THEN Looked(i) ELSE Looked(i) - 1
      /\ textBytes' = IF k = "delta" THEN bytes ELSE bytes - Len(t)
      /\ Produce([kind |-> k, id |-> i, delta |-> Growth(t, s), text |-> t])
ConvertText_Kept(i, k, t) ==
  LET s == items[i].text
      bytes == textBytes + Len(t) - Len(s)
  IN  /\ Len(t) <= MaxItemText /\ Extends(t, s) /\ bytes <= MaxAllText
      /\ items' = [Mentioned(i) EXCEPT ![i].text = IF k = "delta" THEN t ELSE <<>>,
                                       ![i].done = k = "completed"]
      /\ pending' = IF k = "delta" THEN Looked(i) ELSE Looked(i) - 1
      /\ textBytes' = bytes
      /\ Produce([kind |-> k, id |-> i, delta |-> Growth(t, s), text |-> t])

ConvertText(i, k, t) ==
  LET s == items[i].text
      bytes == textBytes + Len(t) - Len(s)
      fits == Len(t) <= MaxItemText /\ Extends(t, s)
  IN  \/ /\ ~fits
         /\ items' = Mentioned(i) /\ pending' = Looked(i) /\ UNCHANGED textBytes
         /\ Abort
      \/ /\ fits /\ bytes > MaxAllText
         /\ items' = Mentioned(i) /\ pending' = Looked(i) /\ textBytes' = bytes
         /\ Abort
      \/ /\ fits /\ bytes <= MaxAllText
         /\ Produce([kind |-> k, id |-> i, delta |-> Growth(t, s), text |-> t])
         /\ \/ /\ k = "delta"
               /\ items' = [Mentioned(i) EXCEPT ![i].text = t]
               /\ pending' = Looked(i) /\ textBytes' = bytes
            \/ /\ k = "completed"
               /\ items' = [Mentioned(i) EXCEPT ![i].text = <<>>, ![i].done = TRUE]
               /\ pending' = Looked(i) - 1 /\ textBytes' = bytes - Len(t)

ConvertFailed_Pending(i) ==
  /\ items' = [Mentioned(i) EXCEPT ![i].text = <<>>, ![i].done = TRUE]
  /\ pending' = Looked(i) /\ textBytes' = textBytes - Len(items[i].text)
  /\ Produce(Plain("failed", i))
ConvertFailed(i) ==
  /\ items' = [Mentioned(i) EXCEPT ![i].text = <<>>, ![i].done = TRUE]
  /\ pending' = Looked(i) - 1 /\ textBytes' = textBytes - Len(items[i].text)
  /\ Produce(Plain("failed", i))

\* A message about item i.
Convert(i) ==
  \/ ~Admissible(i) /\ Abort /\ UNCHANGED state
  \/ Admissible(i) /\ items[i].done /\ Ignore /\ UNCHANGED state
  \/ /\ Admissible(i) /\ ~items[i].done
     /\ \/ \E k \in StageKind, valid \in BOOLEAN : ConvertStage(i, k, valid)
        \/ \E k \in {"delta", "completed"}, t \in Texts : ConvertText(i, k, t)
        \/ ConvertFailed(i)

Receive ==
  /\ reader = "read"
  /\ \E i \in Id : Convert(i)
  /\ UNCHANGED <<finishing, closed, events>>

\* An error of the service, a message that names no item, or a connection
\* that is gone: lost, cut by the finish timer, or closed by the owner.
Lost ==
  /\ reader = "read"
  /\ Abort
  /\ UNCHANGED <<state, finishing, closed, events>>

\* session.finished counts after Finish, when every item has its outcome.
SessionFinished ==
  /\ reader = "read"
  /\ IF finishing /\ \A i \in KnownItems : items[i].done
     THEN Produce(Plain("finished", Nobody))
     ELSE Abort
  /\ UNCHANGED <<state, finishing, closed, events>>

-----------------------------------------------------------------------------
(* emit, and the end of the reader.                                        *)

Put ==
  /\ reader = "emit" /\ Len(events) < EventsCap
  /\ events' = Append(events, next)
  /\ reader' = IF next.kind \in EndKind THEN "close" ELSE "read"
  /\ UNCHANGED <<state, finishing, closed, next>>

Drop ==
  /\ reader = "emit" /\ closed
  /\ reader' = "close"
  /\ UNCHANGED <<state, finishing, closed, next, events>>

\* The deferred calls: Close, then close(events).
Exit ==
  /\ reader = "close"
  /\ reader' = "ended" /\ closed' = TRUE
  /\ UNCHANGED <<state, finishing, next, events>>

-----------------------------------------------------------------------------
(* The owner of the task.                                                  *)

Finish ==
  /\ ~closed /\ ~finishing
  /\ finishing' = TRUE
  /\ UNCHANGED <<state, closed, reader, next, events>>

Close ==
  /\ ~closed
  /\ closed' = TRUE
  /\ UNCHANGED <<state, finishing, reader, next, events>>

Take ==
  /\ events # <<>>
  /\ events' = Tail(events)
  /\ UNCHANGED <<state, finishing, closed, reader, next>>

Emit  == Put \/ Drop
Owner == Finish \/ Close \/ Take
Next  == Receive \/ Lost \/ SessionFinished \/ Emit \/ Exit \/ Owner

Spec == Init /\ [][Next]_vars

-----------------------------------------------------------------------------
(* Properties.                                                             *)

TypeOK ==
  /\ items \in [Id -> Item]
  /\ pending \in 0 .. MaxPending /\ textBytes \in Nat
  /\ finishing \in BOOLEAN /\ closed \in BOOLEAN
  /\ reader \in {"read", "emit", "close", "ended"}
  /\ next \in Event \cup {NoEvent}
  /\ events \in Seq(Event) /\ Len(events) <= EventsCap

OpenItems == {i \in Id : items[i].known /\ ~items[i].done}
GivenUp   == next.kind = "err"

\* The counter that limits the items without an outcome is the number of
\* those items, whichever way they got it: completed, failed, or both named
\* for the first time and completed by one message.  Were it to drift, a long
\* session would be refused with nothing pending, or never.
PendingCounted == pending = Cardinality(OpenItems)

\* The text counted against the limit of all items is the text of the items
\* without an outcome: a completed or failed item gives its share back.
TextAccounted ==
  ~GivenUp =>
    /\ textBytes = MapThenSumSet(LAMBDA i : Len(items[i].text), Id)
    /\ textBytes <= MaxAllText

-----------------------------------------------------------------------------
(* The adapter implements the event stream that its consumers rely on.     *)

Stream == INSTANCE ItemStream WITH
  text  <- [i \in Id |-> IF GivenUp THEN <<>> ELSE items[i].text],
  open  <- IF GivenUp THEN {} ELSE OpenItems,
  done  <- {i \in Id : items[i].done},
  over  <- next.kind \in EndKind,
  event <- next

\* Updates only extend a text, nothing follows the outcome of an item, and
\* the stream ends once, normally only if the input was finished and no item
\* is open (ItemStream), whatever the service sends.
Contract == Stream!Spec

=============================================================================
