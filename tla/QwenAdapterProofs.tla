--------------------------- MODULE QwenAdapterProofs ---------------------------
(***************************************************************************)
(* Proofs about QwenAdapter for any number of items, any texts and limits: *)
(* the counts of the pending items and of their text are exact, and the    *)
(* adapter implements ItemStream whatever the service sends.               *)
(*                                                                         *)
(* The inductive invariant is AdapterInv: an item that nobody has named    *)
(* has no history, one that is done has no text, pending counts the open   *)
(* ones, and the reader reads no more once it has ended the stream.  Every *)
(* message that is not ignored changes one item to one that is known:      *)
(* Becomes.  The count of the text is the sum over all items (CountInv);   *)
(* that a sum changes with one of its terms comes by induction over the    *)
(* size of the set (Inductive).                                            *)
(***************************************************************************)
EXTENDS QwenAdapter, FiniteSetTheorems, TLAPS

\* What is known of an item makes sense.
Sensible(x) ==
  /\ x.done => x.text = <<>>
  /\ ~x.known => ~x.done /\ x.stages = {} /\ x.text = <<>>

AdapterInv ==
  /\ items \in [Id -> Item] /\ pending \in Int
  /\ \A i \in Id : Sensible(items[i])
  /\ PendingCounted
  /\ reader = "read" => next.kind \notin EndKind

LEMMA Assumed == IsFiniteSet(Id) /\ \A t \in Texts : t \in Text
BY AdapterAssumption DEF AdapterAssumption, Text

LEMMA OpenFinite ==
  IsFiniteSet(OpenItems) /\ Cardinality(OpenItems) \in Nat
<1>1. OpenItems \in SUBSET Id
  BY DEF OpenItems
<1> QED BY <1>1, Assumed, FS_Subset, FS_CardinalityType

-----------------------------------------------------------------------------
(* The outcomes of a message about item i.                                 *)

\* Item i is now x, and pending has followed.
Becomes(i, x) ==
  /\ ~items[i].done
  /\ x \in Item /\ x.known /\ (x.done => x.text = <<>>)
  /\ items' = [items EXCEPT ![i] = x]
  /\ pending' = IF x.done THEN Looked(i) - 1 ELSE Looked(i)

LEMMA BecomesCounts ==
  ASSUME AdapterInv, NEW i \in Id, NEW x, Becomes(i, x)
  PROVE  /\ items' \in [Id -> Item] /\ pending' \in Int
         /\ \A j \in Id : Sensible(items'[j])
         /\ PendingCounted'
         /\ \A j \in Id : items'[j] = IF j = i THEN x ELSE items[j]
         /\ OpenItems' = IF x.done THEN OpenItems \ {i} ELSE OpenItems \cup {i}
<1>0. /\ items \in [Id -> Item] /\ pending \in Int /\ pending = Cardinality(OpenItems)
      /\ IsFiniteSet(OpenItems) /\ x.done \in BOOLEAN /\ items[i].known \in BOOLEAN
  BY OpenFinite DEF AdapterInv, PendingCounted, Becomes, Item
<1>1. \A j \in Id : items'[j] = IF j = i THEN x ELSE items[j]
  BY <1>0 DEF Becomes
<1>2. items' \in [Id -> Item] /\ \A j \in Id : Sensible(items'[j])
  BY <1>0, <1>1 DEF Becomes, AdapterInv, Sensible
<1>3. i \in OpenItems <=> items[i].known
  BY DEF Becomes, OpenItems
<1>4. Looked(i) = IF i \in OpenItems THEN pending ELSE pending + 1
  BY <1>3 DEF Looked
<1>5. CASE x.done
  <2>1. OpenItems' = OpenItems \ {i}
    BY <1>1, <1>5 DEF OpenItems
  <2>2. Cardinality(OpenItems \ {i}) = IF i \in OpenItems THEN pending - 1 ELSE pending
    BY <1>0, FS_RemoveElement
  <2>3. pending' = Cardinality(OpenItems \ {i}) /\ pending' \in Int
    BY <1>0, <1>4, <1>5, <2>2 DEF Becomes
  <2> QED BY <1>1, <1>2, <1>5, <2>1, <2>3 DEF PendingCounted
<1>6. CASE ~x.done
  <2>1. OpenItems' = OpenItems \cup {i}
    BY <1>1, <1>6 DEF OpenItems, Becomes
  <2>2. Cardinality(OpenItems \cup {i}) = IF i \in OpenItems THEN pending ELSE pending + 1
    BY <1>0, FS_AddElement
  <2>3. pending' = Cardinality(OpenItems \cup {i}) /\ pending' \in Int
    BY <1>0, <1>4, <1>6, <2>2 DEF Becomes
  <2> QED BY <1>1, <1>2, <1>6, <2>1, <2>3 DEF PendingCounted
<1> QED BY <1>5, <1>6

\* The items that a message may leave behind.
Known(i)      == [items[i] EXCEPT !.known = TRUE]
Staged(i, k)  == [items[i] EXCEPT !.known = TRUE, !.stages = @ \cup {k}]
Worded(i, t)  == [items[i] EXCEPT !.known = TRUE, !.text = t]
Settled(i)    == [items[i] EXCEPT !.known = TRUE, !.text = <<>>, !.done = TRUE]

Ignored == UNCHANGED <<items, pending, reader, next>>
Aborted(i) ==
  /\ reader' = "emit" /\ next' = Plain("err", Nobody)
  /\ UNCHANGED <<items, pending>> \/ Becomes(i, Known(i))
StageTaken(i) ==
  \E k \in StageKind :
    Becomes(i, Staged(i, k)) /\ reader' = "emit" /\ next' = Plain(k, i)
TextTaken(i) ==
  \E t \in Texts, k \in {"delta", "completed"} :
    /\ Extends(t, items[i].text)
    /\ Becomes(i, IF k = "delta" THEN Worded(i, t) ELSE Settled(i))
    /\ reader' = "emit"
    /\ next' = [kind |-> k, id |-> i, delta |-> Growth(t, items[i].text), text |-> t]
FailureTaken(i) ==
  Becomes(i, Settled(i)) /\ reader' = "emit" /\ next' = Plain("failed", i)

LEMMA ItemTypes ==
  ASSUME AdapterInv, NEW i \in Id
  PROVE  /\ Known(i) \in Item /\ Known(i).known /\ Known(i).done = items[i].done
         /\ \A k \in StageKind : /\ Staged(i, k) \in Item /\ Staged(i, k).known
                                 /\ Staged(i, k).done = items[i].done
         /\ \A t \in Texts : /\ Worded(i, t) \in Item /\ Worded(i, t).known
                             /\ Worded(i, t).done = items[i].done
         /\ Settled(i) \in Item /\ Settled(i).known /\ Settled(i).done /\ Settled(i).text = <<>>
<1>1. items[i] \in Item
  BY DEF AdapterInv
<1>2. <<>> \in Text
  BY DEF Text
<1>3. Known(i) \in Item /\ Known(i).known /\ Known(i).done = items[i].done
  BY <1>1 DEF Known, Item
<1>4. ASSUME NEW k \in StageKind
      PROVE  /\ Staged(i, k) \in Item /\ Staged(i, k).known
             /\ Staged(i, k).done = items[i].done
  <2>1. items[i].stages \cup {k} \in SUBSET StageKind
    BY <1>1 DEF Item
  <2> QED BY <1>1, <2>1 DEF Staged, Item
<1>5. ASSUME NEW t \in Texts
      PROVE  /\ Worded(i, t) \in Item /\ Worded(i, t).known
             /\ Worded(i, t).done = items[i].done
  BY <1>1, Assumed DEF Worded, Item
<1>6. Settled(i) \in Item /\ Settled(i).known /\ Settled(i).done /\ Settled(i).text = <<>>
  BY <1>1, <1>2 DEF Settled, Item
<1> QED BY <1>3, <1>4, <1>5, <1>6

LEMMA ConvertOutcome ==
  ASSUME AdapterInv, NEW i \in Id, Convert(i)
  PROVE  Ignored \/ Aborted(i) \/ StageTaken(i) \/ TextTaken(i) \/ FailureTaken(i)
<1>0. items \in [Id -> Item] /\ items[i] \in Item /\ Sensible(items[i])
  BY DEF AdapterInv
<1>1. CASE ~Admissible(i) /\ Abort /\ UNCHANGED state
  BY <1>1 DEF Abort, Produce, state, Aborted
<1>2. CASE Ignore /\ UNCHANGED state
  BY <1>2 DEF Ignore, state, Ignored
<1>3. ASSUME ~items[i].done, NEW k \in StageKind, NEW valid \in BOOLEAN, ConvertStage(i, k, valid)
      PROVE  Ignored \/ Aborted(i) \/ StageTaken(i)
  <2>1. CASE Abort /\ items' = Mentioned(i)
    <3>1. items' = [items EXCEPT ![i] = Known(i)] /\ pending' = Looked(i)
      BY <1>0, <1>3, <2>1 DEF Mentioned, Known, ConvertStage
    <3>2. Becomes(i, Known(i))
      BY <1>3, <3>1, ItemTypes DEF Becomes
    <3> QED BY <2>1, <3>2 DEF Abort, Produce, Aborted
  <2>2. CASE k \in items[i].stages /\ Ignore /\ items' = Mentioned(i)
    <3>1. items[i].known = TRUE
      BY <1>0, <2>2 DEF Sensible, Item
    <3>2. items' = items
      BY <1>0, <2>2, <3>1 DEF Mentioned, Item
    <3>3. pending' = pending
      BY <1>3, <3>1 DEF ConvertStage, Looked
    <3> QED BY <2>2, <3>2, <3>3 DEF Ignore, Ignored
  <2>3. CASE /\ items' = [Mentioned(i) EXCEPT ![i].stages = @ \cup {k}]
             /\ Produce(Plain(k, i))
    <3>0. pending' = Looked(i)
      BY <1>3 DEF ConvertStage
    <3>a. Mentioned(i)[i].stages = items[i].stages /\ Mentioned(i) = [items EXCEPT ![i] = Known(i)]
      BY <1>0 DEF Mentioned, Known, Item
    <3>b. [Known(i) EXCEPT !.stages = items[i].stages \cup {k}] = Staged(i, k)
      BY <1>0 DEF Known, Staged, Item
    <3>1. items' = [items EXCEPT ![i] = Staged(i, k)]
      BY <1>0, <2>3, <3>a, <3>b
    <3>2. Becomes(i, Staged(i, k))
      BY <1>3, <3>0, <3>1, ItemTypes DEF Becomes
    <3> QED BY <2>3, <3>2 DEF Produce, StageTaken
  <2> QED BY <1>3, <2>1, <2>2, <2>3 DEF ConvertStage
<1>4. ASSUME ~items[i].done, NEW k \in {"delta", "completed"}, NEW t \in Texts, ConvertText(i, k, t)
      PROVE  Aborted(i) \/ TextTaken(i)
  <2>1. CASE items' = Mentioned(i) /\ pending' = Looked(i) /\ Abort
    <3>1. items' = [items EXCEPT ![i] = Known(i)]
      BY <1>0, <2>1 DEF Mentioned, Known
    <3>2. Becomes(i, Known(i))
      BY <1>4, <2>1, <3>1, ItemTypes DEF Becomes
    <3> QED BY <2>1, <3>2 DEF Abort, Produce, Aborted
  <2>2. CASE /\ Extends(t, items[i].text)
             /\ Produce([kind |-> k, id |-> i, delta |-> Growth(t, items[i].text), text |-> t])
             /\ k = "delta" /\ items' = [Mentioned(i) EXCEPT ![i].text = t] /\ pending' = Looked(i)
    <3>1. items' = [items EXCEPT ![i] = Worded(i, t)]
      BY <1>0, <2>2 DEF Mentioned, Worded
    <3>2. Becomes(i, Worded(i, t))
      BY <1>4, <2>2, <3>1, ItemTypes DEF Becomes
    <3> QED BY <2>2, <3>2 DEF Produce, TextTaken
  <2>3. CASE /\ Extends(t, items[i].text)
             /\ Produce([kind |-> k, id |-> i, delta |-> Growth(t, items[i].text), text |-> t])
             /\ k = "completed"
             /\ items' = [Mentioned(i) EXCEPT ![i].text = <<>>, ![i].done = TRUE]
             /\ pending' = Looked(i) - 1
    <3>1. items' = [items EXCEPT ![i] = Settled(i)]
      BY <1>0, <2>3 DEF Mentioned, Settled
    <3>2. Becomes(i, Settled(i))
      BY <1>4, <2>3, <3>1, ItemTypes DEF Becomes
    <3> QED BY <2>3, <3>2 DEF Produce, TextTaken
  <2> QED BY <1>4, <2>1, <2>2, <2>3 DEF ConvertText
<1>5. ASSUME ~items[i].done, ConvertFailed(i) PROVE FailureTaken(i)
  <2>1. items' = [items EXCEPT ![i] = Settled(i)] /\ pending' = Looked(i) - 1
    BY <1>0, <1>5 DEF Mentioned, Settled, ConvertFailed
  <2>2. Becomes(i, Settled(i))
    BY <1>5, <2>1, ItemTypes DEF Becomes
  <2> QED BY <1>5, <2>2 DEF ConvertFailed, Produce, FailureTaken
<1> QED BY <1>1, <1>2, <1>3, <1>4, <1>5 DEF Convert

-----------------------------------------------------------------------------
(* The invariant.                                                          *)

\* The reader has a new event, or none.
LEMMA ConvertKeeps ==
  ASSUME AdapterInv, NEW i \in Id, Convert(i), reader = "read"
  PROVE  AdapterInv'
<1>1. CASE Ignored
  BY <1>1 DEF Ignored, AdapterInv, PendingCounted, OpenItems
<1>2. ASSUME UNCHANGED <<items, pending>>, reader' = "emit" PROVE AdapterInv'
  BY <1>2 DEF AdapterInv, PendingCounted, OpenItems
<1>3. ASSUME NEW x, Becomes(i, x), reader' = "emit" PROVE AdapterInv'
  BY <1>3, BecomesCounts DEF AdapterInv
<1>4. CASE Aborted(i)
  BY <1>2, <1>3, <1>4 DEF Aborted
<1>5. CASE StageTaken(i)
  BY <1>3, <1>5 DEF StageTaken
<1>6. CASE TextTaken(i)
  BY <1>3, <1>6 DEF TextTaken
<1>7. CASE FailureTaken(i)
  BY <1>3, <1>7 DEF FailureTaken
<1> QED BY <1>1, <1>4, <1>5, <1>6, <1>7, ConvertOutcome

LEMMA AdapterInvInit == Init => AdapterInv
<1> SUFFICES ASSUME Init PROVE AdapterInv
  OBVIOUS
<1>1. items \in [Id -> Item] /\ \A i \in Id : Sensible(items[i])
  BY DEF Init, Item, Text, Sensible
<1>2. OpenItems = {}
  BY DEF Init, OpenItems
<1>3. PendingCounted
  BY <1>2, FS_EmptySet DEF Init, PendingCounted
<1> QED BY <1>1, <1>3 DEF Init, AdapterInv, NoEvent, EndKind

LEMMA AdapterInvStep == AdapterInv /\ [Next]_vars => AdapterInv'
<1> SUFFICES ASSUME AdapterInv, [Next]_vars PROVE AdapterInv'
  OBVIOUS
<1>1. CASE Receive
  BY <1>1, ConvertKeeps DEF Receive
<1>2. ASSUME UNCHANGED state, reader' = "read" => next'.kind \notin EndKind PROVE AdapterInv'
  BY <1>2 DEF AdapterInv, PendingCounted, OpenItems, state
<1>3. CASE Lost
  BY <1>2, <1>3 DEF Lost, Abort, Produce
<1>4. CASE SessionFinished
  BY <1>2, <1>4 DEF SessionFinished, Abort, Produce
<1>5. CASE Emit
  BY <1>2, <1>5 DEF Emit, Put, Drop
<1>6. CASE Exit
  BY <1>2, <1>6 DEF Exit
<1>7. CASE Owner \/ UNCHANGED vars
  BY <1>2, <1>7 DEF Owner, Finish, Close, Take, vars, state, AdapterInv
<1> QED BY <1>1, <1>3, <1>4, <1>5, <1>6, <1>7 DEF Next

LEMMA AdapterInvariant == Spec => []AdapterInv
BY AdapterInvInit, AdapterInvStep, PTL DEF Spec

\* The counter pending of a session is the number of its items that were
\* named and have no outcome, so MaxPending limits just these.
THEOREM PendingCountedHolds == Spec => []PendingCounted
<1>1. AdapterInv => PendingCounted
  BY DEF AdapterInv
<1> QED BY <1>1, AdapterInvariant, PTL

-----------------------------------------------------------------------------
(* The refinement of ItemStream.                                           *)

StreamText == [i \in Id |-> IF GivenUp THEN <<>> ELSE items[i].text]
StreamOpen == IF GivenUp THEN {} ELSE OpenItems
StreamDone == {i \in Id : items[i].done}
StreamOver == next.kind \in EndKind

USE DEF StreamText, StreamOpen, StreamDone, StreamOver

LEMMA SameNames ==
  /\ Stream!StageKind = StageKind /\ Stream!EndKind = EndKind
  /\ Stream!NoEvent = NoEvent /\ Stream!Nobody = Nobody
  /\ \A k, i : Stream!Plain(k, i) = Plain(k, i)
  /\ \A t, s : Stream!Growth(t, s) = Growth(t, s)
  /\ \A t, s : Stream!Extends(t, s) <=> Extends(t, s)
BY DEF Stream!StageKind, Stream!EndKind, Stream!NoEvent, Stream!Plain, Stream!Nobody,
       Stream!Growth, Stream!Extends, StageKind, EndKind, NoEvent, Nobody, Plain, Growth, Extends

LEMMA InitRefines == Init => Stream!Init
<1> SUFFICES ASSUME Init PROVE Stream!Init
  OBVIOUS
<1>1. next = NoEvent /\ next.kind = "none" /\ ~GivenUp
  BY DEF Init, NoEvent, GivenUp
<1>2. StreamText = [i \in Id |-> <<>>] /\ StreamOpen = {} /\ StreamDone = {}
  BY <1>1 DEF Init, OpenItems
<1> QED BY <1>1, <1>2, SameNames DEF Init, Stream!Init, EndKind

\* An error ends the stream, whatever became of the items that are open.
LEMMA EndRefines ==
  ASSUME AdapterInv, reader = "read", next' = Plain("err", Nobody),
         UNCHANGED finishing, StreamDone' = StreamDone
  PROVE  Stream!Next
<1>1. next'.kind = "err" /\ StreamOver' /\ ~StreamOver
  BY DEF AdapterInv, Plain, EndKind
<1>2. StreamText' = [i \in Id |-> <<>>] /\ StreamOpen' = {}
  BY <1>1 DEF GivenUp
<1>3. Stream!EndInError
  BY <1>1, <1>2, SameNames DEF Stream!EndInError
<1> QED BY <1>1, <1>3 DEF Stream!Next

\* An item that is left open, or gets its outcome.
LEMMA TakenRefines ==
  ASSUME AdapterInv, reader = "read", NEW i \in Id, NEW x, Becomes(i, x),
         next'.kind \notin EndKind
  PROVE  /\ i \notin StreamDone /\ ~StreamOver /\ ~StreamOver' /\ StreamText[i] = items[i].text
         /\ StreamText' = [StreamText EXCEPT ![i] = x.text]
         /\ x.done => StreamDone' = StreamDone \cup {i} /\ StreamOpen' = StreamOpen \ {i}
         /\ ~x.done => StreamDone' = StreamDone /\ StreamOpen' = StreamOpen \cup {i}
<1>1. ~GivenUp /\ ~GivenUp' /\ ~StreamOver /\ ~StreamOver'
  BY DEF AdapterInv, GivenUp, EndKind
<1>2. /\ \A j \in Id : items'[j] = IF j = i THEN x ELSE items[j]
      /\ OpenItems' = IF x.done THEN OpenItems \ {i} ELSE OpenItems \cup {i}
  BY BecomesCounts
<1>3. i \notin StreamDone
  BY DEF Becomes
<1>4. StreamText' = [StreamText EXCEPT ![i] = x.text]
  BY <1>1, <1>2
<1>5. x.done => StreamDone' = StreamDone \cup {i}
  BY <1>2
<1>6. ~x.done => StreamDone' = StreamDone
  BY <1>2, <1>3
<1> QED BY <1>1, <1>2, <1>3, <1>4, <1>5, <1>6

LEMMA ReceiveRefines ==
  ASSUME AdapterInv, Receive
  PROVE  [Stream!Next]_(Stream!stream)
<1> PICK i \in Id : Convert(i)
  BY DEF Receive
<1>0. reader = "read" /\ UNCHANGED finishing /\ items[i] \in Item
  BY DEF Receive, AdapterInv
<1>1. CASE Ignored
  BY <1>0, <1>1 DEF Ignored, Stream!stream, GivenUp, OpenItems
<1>2. CASE Aborted(i)
  <2>1. StreamDone' = StreamDone
    <3>1. CASE UNCHANGED items
      BY <3>1
    <3>2. CASE Becomes(i, Known(i))
      <4>1. \A j \in Id : items'[j] = IF j = i THEN Known(i) ELSE items[j]
        BY <3>2, BecomesCounts
      <4> QED BY <4>1, ItemTypes
    <3> QED BY <1>2, <3>1, <3>2 DEF Aborted
  <2> QED BY <1>0, <1>2, <2>1, EndRefines DEF Aborted
<1>3. CASE StageTaken(i)
  <2>1. PICK k \in StageKind : Becomes(i, Staged(i, k)) /\ next' = Plain(k, i)
    BY <1>3 DEF StageTaken
  <2>2. Staged(i, k).text = items[i].text /\ ~Staged(i, k).done
    BY <1>0, <2>1, ItemTypes DEF Staged, Item, Becomes
  <2>3. next'.kind \notin EndKind
    BY <2>1 DEF Plain, StageKind, EndKind
  <2>4. /\ i \notin StreamDone /\ ~StreamOver /\ ~StreamOver' /\ StreamText[i] = items[i].text
        /\ StreamText' = [StreamText EXCEPT ![i] = items[i].text]
        /\ StreamDone' = StreamDone /\ StreamOpen' = StreamOpen \cup {i}
    BY <1>0, <2>1, <2>2, <2>3, TakenRefines
  <2>5. StreamText' = StreamText
    BY <2>4
  <2>6. Stream!Stage(i, k)
    BY <1>0, <2>1, <2>4, <2>5, SameNames DEF Stream!Stage
  <2> QED BY <2>4, <2>6, SameNames DEF Stream!Next, Stream!Report
<1>4. CASE TextTaken(i)
  <2>1. PICK t \in Texts, k \in {"delta", "completed"} :
          /\ Extends(t, items[i].text)
          /\ Becomes(i, IF k = "delta" THEN Worded(i, t) ELSE Settled(i))
          /\ next' = [kind |-> k, id |-> i, delta |-> Growth(t, items[i].text), text |-> t]
    BY <1>4 DEF TextTaken
  <2>2. next'.kind \notin EndKind
    BY <2>1 DEF EndKind
  <2>3. CASE k = "delta"
    <3>1. Worded(i, t).text = t /\ ~Worded(i, t).done
      BY <1>0, <2>1, <2>3, ItemTypes DEF Worded, Item, Becomes
    <3>2. /\ i \notin StreamDone /\ ~StreamOver /\ ~StreamOver' /\ StreamText[i] = items[i].text
          /\ StreamText' = [StreamText EXCEPT ![i] = t]
          /\ StreamDone' = StreamDone /\ StreamOpen' = StreamOpen \cup {i}
      BY <1>0, <2>1, <2>2, <2>3, <3>1, TakenRefines
    <3>3. Stream!Update(i, t)
      BY <1>0, <2>1, <2>3, <3>2, SameNames DEF Stream!Update
    <3> QED BY <3>2, <3>3 DEF Stream!Next, Stream!Report
  <2>4. CASE k = "completed"
    <3>2. /\ i \notin StreamDone /\ ~StreamOver /\ ~StreamOver' /\ StreamText[i] = items[i].text
          /\ StreamText' = [StreamText EXCEPT ![i] = <<>>]
          /\ StreamDone' = StreamDone \cup {i} /\ StreamOpen' = StreamOpen \ {i}
      BY <1>0, <2>1, <2>2, <2>4, ItemTypes, TakenRefines
    <3>3. Stream!Complete(i, t)
      BY <1>0, <2>1, <2>4, <3>2, SameNames DEF Stream!Complete
    <3> QED BY <3>2, <3>3 DEF Stream!Next, Stream!Report
  <2> QED BY <2>3, <2>4
<1>5. CASE FailureTaken(i)
  <2>1. next'.kind \notin EndKind
    BY <1>5 DEF FailureTaken, Plain, EndKind
  <2>2. /\ i \notin StreamDone /\ ~StreamOver /\ ~StreamOver'
        /\ StreamText' = [StreamText EXCEPT ![i] = <<>>]
        /\ StreamDone' = StreamDone \cup {i} /\ StreamOpen' = StreamOpen \ {i}
    BY <1>0, <1>5, <2>1, ItemTypes, TakenRefines DEF FailureTaken
  <2>3. Stream!Fail(i)
    BY <1>0, <1>5, <2>2, SameNames DEF FailureTaken, Stream!Fail
  <2> QED BY <2>2, <2>3 DEF Stream!Next, Stream!Report
<1> QED BY <1>1, <1>2, <1>3, <1>4, <1>5, ConvertOutcome

LEMMA StepRefines == AdapterInv /\ [Next]_vars => [Stream!Next]_(Stream!stream)
<1> SUFFICES ASSUME AdapterInv, [Next]_vars PROVE [Stream!Next]_(Stream!stream)
  OBVIOUS
<1>1. CASE Receive
  BY <1>1, ReceiveRefines
<1>2. CASE Lost
  <2>1. next' = Plain("err", Nobody) /\ reader = "read" /\ UNCHANGED <<items, finishing>>
    BY <1>2 DEF Lost, Abort, Produce, state
  <2> QED BY <2>1, EndRefines
<1>3. CASE SessionFinished
  <2>1. reader = "read" /\ UNCHANGED <<items, finishing>>
    BY <1>3 DEF SessionFinished, state
  <2>2. CASE next' = Plain("err", Nobody)
    BY <2>1, <2>2, EndRefines
  <2>3. CASE /\ finishing /\ \A i \in KnownItems : items[i].done
             /\ next' = Plain("finished", Nobody)
    <3>1. next'.kind = "finished" /\ ~GivenUp /\ ~GivenUp' /\ StreamOver' /\ ~StreamOver
      BY <2>1, <2>3 DEF AdapterInv, Plain, GivenUp, EndKind
    <3>2. OpenItems = {} /\ OpenItems' = {}
      BY <2>1, <2>3 DEF OpenItems, KnownItems
    <3>3. Stream!EndNormally
      BY <2>1, <2>3, <3>1, <3>2, SameNames DEF Stream!EndNormally
    <3> QED BY <3>1, <3>3 DEF Stream!Next
  <2> QED BY <1>3, <2>2, <2>3 DEF SessionFinished, Abort, Produce
<1>4. ASSUME UNCHANGED <<items, next, finishing>> PROVE UNCHANGED Stream!stream
  BY <1>4 DEF Stream!stream, GivenUp, OpenItems
<1>5. CASE Emit \/ Exit
  BY <1>4, <1>5 DEF Emit, Put, Drop, Exit, state
<1>6. CASE Finish
  <2>1. finishing' = TRUE /\ UNCHANGED <<items, next>>
    BY <1>6 DEF Finish, state
  <2>2. Stream!Finish
    BY <2>1 DEF Stream!Finish, GivenUp, OpenItems
  <2> QED BY <2>2 DEF Stream!Next
<1>7. CASE Close \/ Take \/ UNCHANGED vars
  BY <1>4, <1>7 DEF Close, Take, vars, state
<1> QED BY <1>1, <1>2, <1>3, <1>5, <1>6, <1>7 DEF Next, Owner

\* The adapter implements ItemStream: whatever the service sends, an item
\* grows until its one outcome, and the stream ends once.
THEOREM ContractHolds == Spec => Contract
BY InitRefines, StepRefines, AdapterInvariant, PTL DEF Spec, Contract, Stream!Spec

-----------------------------------------------------------------------------
(* Sums over a finite set.  The provers have no induction over a predicate; *)
(* that a set of numbers that is not empty has a least one takes its place. *)

LEMMA Least ==
  ASSUME NEW T \in SUBSET Nat, T # {}
  PROVE  \E n \in T : \A m \in T : n <= m
<1> DEFINE R == {ss \in Nat \X Nat : ss[1] < ss[2]}
<1>1. IsWellFoundedOn(R, Nat)
  BY NatLessThanWellFounded DEF OpToRel
<1>2. \A m, n \in Nat : m < n => <<m, n>> \in R
  OBVIOUS
<1> HIDE DEF R
<1>3. PICK n \in T : \A m \in T : <<m, n>> \notin R
  BY <1>1, WFMin
<1>4. ASSUME NEW m \in T PROVE n <= m
  <2>1. m \in Nat /\ n \in Nat
    OBVIOUS
  <2>2. ~(m < n)
    BY <1>2, <1>3, <2>1
  <2> QED BY <2>1, <2>2
<1> QED BY <1>4

LEMMA Inductive ==
  ASSUME NEW T \in SUBSET Nat, 0 \in T, \A n \in T : n + 1 \in T
  PROVE  T = Nat
<1> SUFFICES ASSUME Nat \ T # {} PROVE FALSE
  OBVIOUS
<1>1. PICK n \in Nat \ T : \A m \in Nat \ T : n <= m
  BY Least
<1>2. n # 0 /\ n - 1 \in Nat /\ n - 1 \in T
  BY <1>1
<1>3. (n - 1) + 1 = n
  OBVIOUS
<1> QED BY <1>1, <1>2, <1>3

\* The element that MapThenSumSet takes out of a set.
Taken(s) == CHOOSE x \in s : TRUE

\* h holds the sum of f over each subset of S with at most n elements.
Sums(h, f, S, n) ==
  \A s \in SUBSET S :
    Cardinality(s) <= n => h[s] = IF s = {} THEN 0 ELSE f[Taken(s)] + h[s \ {Taken(s)}]

\* ... and h is that function for all subsets of S.
IsSum(h, f, S) ==
  h = [s \in SUBSET S |-> IF s = {} THEN 0 ELSE f[Taken(s)] + h[s \ {Taken(s)}]]

LEMMA TakenOut ==
  ASSUME NEW S, IsFiniteSet(S), NEW s \in SUBSET S, s # {}
  PROVE  /\ Taken(s) \in s /\ s \ {Taken(s)} \in SUBSET S
         /\ Cardinality(s) \in Nat /\ Cardinality(s \ {Taken(s)}) = Cardinality(s) - 1
         /\ Cardinality(s) # 0
<1>1. Taken(s) \in s
  BY DEF Taken
<1>2. IsFiniteSet(s)
  BY FS_Subset
<1> QED BY <1>1, <1>2, FS_CardinalityType, FS_RemoveElement, FS_EmptySet

LEMMA NothingIn ==
  ASSUME NEW S, IsFiniteSet(S), NEW s \in SUBSET S, Cardinality(s) = 0
  PROVE  s = {}
BY TakenOut

LEMMA SumsExist ==
  ASSUME NEW S, IsFiniteSet(S), NEW f
  PROVE  \E h : IsSum(h, f, S)
<1> DEFINE T == {n \in Nat : \E h : Sums(h, f, S, n)}
           Next1(h) == [s \in SUBSET S |-> IF s = {} THEN 0 ELSE f[Taken(s)] + h[s \ {Taken(s)}]]
<1>1. ASSUME NEW n \in Nat, NEW h, Sums(h, f, S, n)
      PROVE  Sums(Next1(h), f, S, n + 1)
  <2> DEFINE g == Next1(h)
  <2>1. ASSUME NEW s \in SUBSET S, Cardinality(s) <= n + 1, s # {}
        PROVE  g[s] = f[Taken(s)] + g[s \ {Taken(s)}]
    <3>1. g[s] = f[Taken(s)] + h[s \ {Taken(s)}]
      BY <2>1
    <3> DEFINE r == s \ {Taken(s)}
    <3>2. r \in SUBSET S /\ Cardinality(r) <= n
      BY <2>1, TakenOut
    <3>3. h[r] = IF r = {} THEN 0 ELSE f[Taken(r)] + h[r \ {Taken(r)}]
      BY <1>1, <3>2 DEF Sums
    <3>4. g[r] = IF r = {} THEN 0 ELSE f[Taken(r)] + h[r \ {Taken(r)}]
      BY <3>2
    <3> QED BY <3>1, <3>3, <3>4
  <2>2. g[{}] = 0
    OBVIOUS
  <2> HIDE DEF g
  <2>3. Sums(g, f, S, n + 1)
    BY <2>1, <2>2 DEF Sums
  <2> QED BY <2>3 DEF g
<1>2. 0 \in T
  <2> DEFINE g == [s \in SUBSET S |-> 0]
  <2>1. ASSUME NEW s \in SUBSET S, Cardinality(s) <= 0 PROVE s = {}
    <3> SUFFICES ASSUME s # {} PROVE FALSE
      OBVIOUS
    <3>1. Cardinality(s) \in Nat /\ Cardinality(s) # 0
      BY TakenOut
    <3> QED BY <2>1, <3>1
  <2>2. g[{}] = 0
    OBVIOUS
  <2> HIDE DEF g
  <2>3. Sums(g, f, S, 0)
    BY <2>1, <2>2 DEF Sums
  <2> QED BY <2>3
<1>3. ASSUME NEW n \in T PROVE n + 1 \in T
  <2>1. PICK h : Sums(h, f, S, n)
    OBVIOUS
  <2>2. Sums(Next1(h), f, S, n + 1)
    BY <1>1, <2>1
  <2> HIDE DEF Next1
  <2> QED BY <2>2
<1>4. T = Nat
  <2> HIDE DEF T
  <2>1. T \in SUBSET Nat
    BY DEF T
  <2> QED BY <1>2, <1>3, <2>1, Inductive
<1>5. Cardinality(S) \in T
  BY <1>4, FS_CardinalityType
<1>6. PICK h : Sums(h, f, S, Cardinality(S))
  BY <1>5
<1> DEFINE g == Next1(h)
<1>7. ASSUME NEW s \in SUBSET S PROVE g[s] = h[s]
  <2>1. Cardinality(s) <= Cardinality(S)
    BY FS_Subset
  <2> QED BY <1>6, <2>1 DEF Sums
<1>8. ASSUME NEW s \in SUBSET S, s # {} PROVE g[s] = f[Taken(s)] + g[s \ {Taken(s)}]
  <2>1. s \ {Taken(s)} \in SUBSET S
    OBVIOUS
  <2> QED BY <1>7, <1>8, <2>1
<1>9. g = Next1(g)
  <2>1. g = [s \in SUBSET S |-> g[s]]
    OBVIOUS
  <2>2. \A s \in SUBSET S : g[s] = Next1(g)[s]
    BY <1>8
  <2>3. Next1(g) = [s \in SUBSET S |-> Next1(g)[s]]
    OBVIOUS
  <2> HIDE DEF g, Next1
  <2> QED BY <2>1, <2>2, <2>3
<1> QED BY <1>9 DEF IsSum

\* The text of the items, and how it follows a change of one item.
TextOf(its) == MapThenSumSet(LAMBDA i : Len(its[i].text), Id)

LEMMA SumIs ==
  ASSUME NEW its
  PROVE  \E h : /\ \A s \in SUBSET Id :
                     h[s] = IF s = {} THEN 0 ELSE Len(its[Taken(s)].text) + h[s \ {Taken(s)}]
                /\ TextOf(its) = h[Id]
<1> DEFINE f == [i \in Id |-> Len(its[i].text)]
           Is(h) == h = [s \in SUBSET Id |-> IF s = {} THEN 0 ELSE Len(its[Taken(s)].text) + h[s \ {Taken(s)}]]
<1>2. \A s \in SUBSET Id : s # {} => f[Taken(s)] = Len(its[Taken(s)].text)
  BY DEF Taken
<1> HIDE DEF f
<1>0. IsFiniteSet(Id)
  BY Assumed
<1>1. PICK g : IsSum(g, f, Id)
  BY <1>0, SumsExist
<1>3. Is(g)
  BY <1>1, <1>2 DEF IsSum
<1> DEFINE h == CHOOSE h : Is(h)
<1>4. Is(h)
  BY <1>3
<1>5. TextOf(its) = h[Id]
  BY DEF TextOf, MapThenSumSet, MapThenFoldSet, Taken
<1> HIDE DEF h
<1>6. \A s \in SUBSET Id : h[s] = IF s = {} THEN 0 ELSE Len(its[Taken(s)].text) + h[s \ {Taken(s)}]
  BY <1>4
<1> QED BY <1>5, <1>6

LEMMA SumChanges ==
  ASSUME NEW its \in [Id -> Item], NEW jts \in [Id -> Item], NEW i \in Id,
         \A j \in Id \ {i} : Len(jts[j].text) = Len(its[j].text)
  PROVE  /\ TextOf(its) \in Nat /\ Len(its[i].text) <= TextOf(its)
         /\ TextOf(jts) = TextOf(its) - Len(its[i].text) + Len(jts[i].text)
<1> DEFINE a == Len(its[i].text)
           b == Len(jts[i].text)
<1>1. PICK h : /\ \A s \in SUBSET Id :
                    h[s] = IF s = {} THEN 0 ELSE Len(its[Taken(s)].text) + h[s \ {Taken(s)}]
               /\ TextOf(its) = h[Id]
  BY SumIs
<1>2. PICK g : /\ \A s \in SUBSET Id :
                    g[s] = IF s = {} THEN 0 ELSE Len(jts[Taken(s)].text) + g[s \ {Taken(s)}]
               /\ TextOf(jts) = g[Id]
  BY SumIs
<1>3. \A j \in Id : Len(its[j].text) \in Nat /\ Len(jts[j].text) \in Nat
  <2>1. \A j \in Id : its[j].text \in Seq(Nat) /\ jts[j].text \in Seq(Nat)
    BY DEF Item, Text
  <2> QED BY <2>1
<1>a. a \in Nat /\ b \in Nat
  BY <1>3
<1> DEFINE Follows(s) == /\ h[s] \in Nat /\ (i \in s => a <= h[s])
                         /\ g[s] = IF i \in s THEN h[s] - a + b ELSE h[s]
           T == {n \in Nat : \A s \in SUBSET Id : Cardinality(s) = n => Follows(s)}
<1>4. Follows({})
  <2>1. h[{}] = 0 /\ g[{}] = 0
    BY <1>1, <1>2
  <2> QED BY <2>1
<1>5. ASSUME NEW s \in SUBSET Id, s # {}, Follows(s \ {Taken(s)}) PROVE Follows(s)
  <2> DEFINE j == Taken(s)
             r == s \ {Taken(s)}
  <2>1. j \in s /\ j \in Id /\ j \notin r
    BY <1>5, Assumed, TakenOut
  <2>2. h[s] = Len(its[j].text) + h[r] /\ g[s] = Len(jts[j].text) + g[r]
    BY <1>1, <1>2, <1>5
  <2>3. i \in s <=> i \in r \/ i = j
    BY <2>1
  <2>4. Len(its[j].text) \in Nat /\ Len(jts[j].text) \in Nat
    BY <1>3, <2>1
  <2>5. CASE i = j
    <3>1. i \notin r /\ i \in s /\ Len(its[j].text) = a /\ Len(jts[j].text) = b
      BY <2>1, <2>5
    <3>2. h[r] \in Nat /\ g[r] = h[r]
      BY <1>5, <3>1
    <3> HIDE DEF a, b, j, r
    <3> QED BY <1>a, <2>2, <3>1, <3>2
  <2>6. CASE i # j
    <3>1. Len(jts[j].text) = Len(its[j].text) /\ (i \in s <=> i \in r)
      BY <2>1, <2>3, <2>6
    <3>2. /\ h[r] \in Nat /\ (i \in r => a <= h[r])
          /\ g[r] = IF i \in r THEN h[r] - a + b ELSE h[r]
      BY <1>5
    <3> DEFINE x == Len(its[j].text)
    <3>3. h[s] = x + h[r] /\ g[s] = x + g[r] /\ x \in Nat
      BY <2>2, <2>4, <3>1
    <3> HIDE DEF a, b, j, r, x
    <3>4. h[s] \in Nat /\ (i \in r => a <= h[s])
      BY <1>a, <3>2, <3>3
    <3>5. g[s] = IF i \in r THEN h[s] - a + b ELSE h[s]
      BY <1>a, <3>2, <3>3
    <3> QED BY <3>1, <3>4, <3>5
  <2> QED BY <2>5, <2>6
<1> HIDE DEF Follows
<1>6. 0 \in T
  <2>1. ASSUME NEW s \in SUBSET Id, Cardinality(s) = 0 PROVE s = {}
    BY <2>1, NothingIn, Assumed
  <2> QED BY <1>4, <2>1
<1>7. ASSUME NEW n \in T PROVE n + 1 \in T
  <2>1. ASSUME NEW s \in SUBSET Id, Cardinality(s) = n + 1 PROVE Follows(s)
    <3>1. s # {}
      BY <1>7, <2>1, FS_EmptySet
    <3>2. /\ s \ {Taken(s)} \in SUBSET Id /\ Cardinality(s \ {Taken(s)}) = Cardinality(s) - 1
      BY <3>1, Assumed, TakenOut
    <3>3. Cardinality(s \ {Taken(s)}) = n
      BY <1>7, <2>1, <3>2
    <3>4. Follows(s \ {Taken(s)})
      BY <1>7, <3>2, <3>3
    <3> QED BY <1>5, <3>1, <3>4
  <2> QED BY <1>7, <2>1
<1>8. T = Nat
  <2>1. T \in SUBSET Nat
    OBVIOUS
  <2> HIDE DEF T
  <2> QED BY <1>6, <1>7, <2>1, Inductive
<1>9. Cardinality(Id) \in T
  BY <1>8, Assumed, FS_CardinalityType
<1>10. Follows(Id)
  BY <1>9
<1> QED BY <1>1, <1>2, <1>10 DEF Follows

LEMMA SumOfNone ==
  ASSUME NEW its \in [Id -> Item], \A i \in Id : its[i].text = <<>>
  PROVE  TextOf(its) = 0
<1>1. PICK h : /\ \A s \in SUBSET Id :
                    h[s] = IF s = {} THEN 0 ELSE Len(its[Taken(s)].text) + h[s \ {Taken(s)}]
               /\ TextOf(its) = h[Id]
  BY SumIs
<1> DEFINE T == {n \in Nat : \A s \in SUBSET Id : Cardinality(s) = n => h[s] = 0}
<1>2. 0 \in T
  <2>1. ASSUME NEW s \in SUBSET Id, Cardinality(s) = 0 PROVE s = {}
    BY <2>1, NothingIn, Assumed
  <2>2. h[{}] = 0
    BY <1>1
  <2> QED BY <2>1, <2>2
<1>3. ASSUME NEW n \in T PROVE n + 1 \in T
  <2>1. ASSUME NEW s \in SUBSET Id, Cardinality(s) = n + 1 PROVE h[s] = 0
    <3>1. s # {}
      <4>1. n \in Nat /\ n + 1 # 0
        OBVIOUS
      <4> QED BY <2>1, <4>1, FS_EmptySet
    <3>2. /\ s \ {Taken(s)} \in SUBSET Id /\ Cardinality(s \ {Taken(s)}) = Cardinality(s) - 1
          /\ Taken(s) \in Id
      BY <3>1, Assumed, TakenOut
    <3>3. Cardinality(s \ {Taken(s)}) = n
      BY <1>3, <2>1, <3>2
    <3>4. h[s \ {Taken(s)}] = 0 /\ Len(its[Taken(s)].text) = 0
      BY <1>3, <3>2, <3>3
    <3>5. h[s] = Len(its[Taken(s)].text) + h[s \ {Taken(s)}]
      BY <1>1, <3>1
    <3> QED BY <3>4, <3>5
  <2> QED BY <1>3, <2>1
<1>4. T = Nat
  <2>1. T \in SUBSET Nat
    OBVIOUS
  <2> HIDE DEF T
  <2> QED BY <1>2, <1>3, <2>1, Inductive
<1>5. Cardinality(Id) \in T
  BY <1>4, Assumed, FS_CardinalityType
<1> QED BY <1>1, <1>5

-----------------------------------------------------------------------------
(* The text counted against the limit of all items.                        *)

Counted  == textBytes = TextOf(items) /\ textBytes <= MaxAllText
CountInv == AdapterInv /\ (~GivenUp => Counted)

LEMMA AccountedBy == (~GivenUp => Counted) => TextAccounted
BY DEF Counted, TextAccounted, TextOf

\* A message that is not refused changes the text of one item at most, and
\* the count by as much.
LEMMA ConvertCounts ==
  ASSUME AdapterInv, Counted, NEW i \in Id, Convert(i), reader = "read"
  PROVE  GivenUp' \/ Counted'
<1>1. items \in [Id -> Item] /\ items' \in [Id -> Item]
  BY ConvertKeeps DEF AdapterInv
<1>2. Abort => GivenUp'
  BY DEF Abort, Produce, Plain, GivenUp
<1>3. ASSUME NEW x, items' = [items EXCEPT ![i] = x],
             textBytes' = textBytes - Len(items[i].text) + Len(x.text),
             textBytes' <= MaxAllText
      PROVE  Counted'
  <2>1. items'[i] = x /\ \A j \in Id \ {i} : items'[j] = items[j]
    BY <1>1, <1>3
  <2>2. TextOf(items') = TextOf(items) - Len(items[i].text) + Len(x.text)
    BY <1>1, <2>1, SumChanges
  <2> QED BY <1>3, <2>2 DEF Counted
<1>4. ASSUME NEW x, items' = [items EXCEPT ![i] = x], Len(x.text) = Len(items[i].text),
             UNCHANGED textBytes
      PROVE  Counted'
  <2>1. items'[i] = x /\ \A j \in Id \ {i} : items'[j] = items[j]
    BY <1>1, <1>4
  <2>2. /\ TextOf(items') = TextOf(items) - Len(items[i].text) + Len(x.text)
        /\ TextOf(items) \in Nat
    BY <1>1, <2>1, SumChanges
  <2>3. Len(items[i].text) \in Nat
    BY <1>1 DEF Item, Text
  <2>4. TextOf(items') = TextOf(items)
    BY <1>4, <2>2, <2>3
  <2> QED BY <1>4, <2>4 DEF Counted
<1>5. CASE UNCHANGED state
  BY <1>5 DEF state, Counted
<1>6. ASSUME NEW k \in StageKind, NEW valid \in BOOLEAN, ConvertStage(i, k, valid)
      PROVE  GivenUp' \/ Counted'
  <2>1. CASE items' = Mentioned(i)
    <3>1. items' = [items EXCEPT ![i] = Known(i)] /\ Known(i).text = items[i].text
      BY <1>1, <2>1 DEF Mentioned, Known, Item
    <3> QED BY <1>4, <1>6, <3>1 DEF ConvertStage
  <2>2. CASE items' = [Mentioned(i) EXCEPT ![i].stages = @ \cup {k}]
    <3>1. items' = [items EXCEPT ![i] = Staged(i, k)] /\ Staged(i, k).text = items[i].text
      BY <1>1, <2>2 DEF Mentioned, Staged, Item
    <3> QED BY <1>4, <1>6, <3>1 DEF ConvertStage
  <2> QED BY <1>6, <2>1, <2>2 DEF ConvertStage
<1>7. ASSUME NEW k \in {"delta", "completed"}, NEW t \in Texts, ConvertText(i, k, t)
      PROVE  GivenUp' \/ Counted'
  <2>0. /\ Len(t) \in Nat /\ Len(items[i].text) \in Nat /\ textBytes \in Int
        /\ TextOf(items) >= Len(items[i].text)
    <3>1. t \in Seq(Nat) /\ items[i].text \in Seq(Nat)
      BY <1>1, Assumed DEF Item, Text
    <3>2. TextOf(items) \in Nat /\ TextOf(items) >= Len(items[i].text)
      BY <1>1, SumChanges
    <3> QED BY <3>1, <3>2 DEF Counted
  <2> DEFINE bytes == textBytes + Len(t) - Len(items[i].text)
  <2>1. CASE /\ bytes <= MaxAllText /\ items' = [Mentioned(i) EXCEPT ![i].text = t]
             /\ textBytes' = bytes
    <3>1. items' = [items EXCEPT ![i] = Worded(i, t)] /\ Worded(i, t).text = t
      BY <1>1, <2>1 DEF Mentioned, Worded, Item
    <3>2. textBytes' = textBytes - Len(items[i].text) + Len(t)
      BY <2>0, <2>1
    <3> QED BY <1>3, <2>1, <3>1, <3>2
  <2>2. CASE /\ bytes <= MaxAllText
             /\ items' = [Mentioned(i) EXCEPT ![i].text = <<>>, ![i].done = TRUE]
             /\ textBytes' = bytes - Len(t)
    <3>1. items' = [items EXCEPT ![i] = Settled(i)] /\ Len(Settled(i).text) = 0
      BY <1>1, <2>2 DEF Mentioned, Settled, Item
    <3>0. MaxAllText \in Nat /\ textBytes <= MaxAllText
      BY AdapterAssumption DEF Counted, AdapterAssumption
    <3> DEFINE a == Len(items[i].text)
               b == Len(t)
    <3>a. textBytes' = (textBytes + b - a) - b
      BY <2>2
    <3>b. a \in Nat /\ b \in Nat /\ textBytes \in Int
      BY <2>0
    <3>2. textBytes' = textBytes - a + 0 /\ textBytes' <= MaxAllText
      <4> HIDE DEF a, b
      <4> QED BY <3>0, <3>a, <3>b
    <3> QED BY <1>3, <3>1, <3>2
  <2>3. \/ Abort
        \/ /\ bytes <= MaxAllText /\ items' = [Mentioned(i) EXCEPT ![i].text = t]
           /\ textBytes' = bytes
        \/ /\ bytes <= MaxAllText
           /\ items' = [Mentioned(i) EXCEPT ![i].text = <<>>, ![i].done = TRUE]
           /\ textBytes' = bytes - Len(t)
    BY <1>7 DEF ConvertText
  <2> HIDE DEF bytes
  <2> QED BY <1>2, <2>1, <2>2, <2>3
<1>8. ASSUME ConvertFailed(i) PROVE Counted'
  <2>1. items' = [items EXCEPT ![i] = Settled(i)] /\ Len(Settled(i).text) = 0
    BY <1>1, <1>8 DEF ConvertFailed, Mentioned, Settled, Item
  <2>2. Len(items[i].text) \in Nat /\ textBytes \in Int /\ MaxAllText \in Nat
    <3>1. TextOf(items) \in Nat /\ items[i].text \in Seq(Nat)
      BY <1>1, SumChanges DEF Item, Text
    <3> QED BY <3>1, AdapterAssumption DEF Counted, AdapterAssumption
  <2>3. textBytes' = textBytes - Len(items[i].text) + 0 /\ textBytes' <= MaxAllText
    BY <1>8, <2>2 DEF ConvertFailed, Counted
  <2> QED BY <1>3, <2>1, <2>3
<1> QED BY <1>2, <1>5, <1>6, <1>7, <1>8 DEF Convert

LEMMA CountInvInit == Init => CountInv
<1> SUFFICES ASSUME Init PROVE CountInv
  OBVIOUS
<1>1. AdapterInv
  BY AdapterInvInit
<1>2. TextOf(items) = 0
  BY <1>1, SumOfNone DEF Init, AdapterInv
<1> QED BY <1>1, <1>2, AdapterAssumption DEF Init, CountInv, Counted, AdapterAssumption

LEMMA CountInvStep == CountInv /\ [Next]_vars => CountInv'
<1> SUFFICES ASSUME CountInv, [Next]_vars PROVE CountInv'
  OBVIOUS
<1>0. AdapterInv /\ AdapterInv'
  BY AdapterInvStep DEF CountInv
<1>1. CASE Receive
  <2>1. ~GivenUp
    BY <1>0, <1>1 DEF Receive, AdapterInv, GivenUp, EndKind
  <2> QED BY <1>0, <1>1, <2>1, ConvertCounts DEF Receive, CountInv
<1>2. ASSUME UNCHANGED <<items, textBytes>>, ~GivenUp' => ~GivenUp PROVE CountInv'
  BY <1>0, <1>2 DEF CountInv, Counted
<1>3. CASE Lost
  BY <1>0, <1>3 DEF Lost, Abort, Produce, Plain, GivenUp, CountInv
<1>4. CASE SessionFinished
  <2>1. reader = "read" => ~GivenUp
    BY <1>0 DEF AdapterInv, GivenUp, EndKind
  <2> QED BY <1>2, <1>4, <2>1 DEF SessionFinished, state
<1>5. CASE Emit
  BY <1>2, <1>5 DEF Emit, Put, Drop, state, GivenUp
<1>6. CASE Exit
  BY <1>2, <1>6 DEF Exit, state, GivenUp
<1>7. CASE Owner \/ UNCHANGED vars
  BY <1>2, <1>7 DEF Owner, Finish, Close, Take, vars, state, GivenUp
<1> QED BY <1>1, <1>3, <1>4, <1>5, <1>6, <1>7 DEF Next

\* Whatever the service sends, the text counted against the limit of all
\* items is the sum of the texts of the items, which a completed or failed
\* item leaves, and within the limit (convert), for any number of items.
THEOREM TextAccountedHolds == Spec => []TextAccounted
<1>1. CountInv => TextAccounted
  BY AccountedBy DEF CountInv
<1> QED BY <1>1, CountInvInit, CountInvStep, PTL DEF Spec

=============================================================================
