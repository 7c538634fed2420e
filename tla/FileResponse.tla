------------------------------ MODULE FileResponse ------------------------------
(***************************************************************************)
(* A file transcribed over a realtime task (realtimeFileResponse, sendPCM  *)
(* and orderedFileItems of internal/httpapi): one goroutine paces the      *)
(* decoded audio into the task, the handler collects its events into one   *)
(* linear text and answers the request, and on every way out the handler   *)
(* waits for the other goroutine.                                          *)
(*                                                                         *)
(* The events of the task are those of ItemStream, which QwenAdapter       *)
(* implements, or the final sentences of a Fun-ASR or Paraformer task.     *)
(* A definition named Op_Variant is Op with a plausible mistake; see       *)
(* WsBridge.                                                               *)
(***************************************************************************)
EXTENDS Integers, SequencesExt

CONSTANTS Id, Texts,      \* items of the task and the texts reported of them
          EventsCap,      \* capacity of task.Events()
          MaxWaiting,     \* entries of orderedFileItems.order
          MaxBuffered,    \* text of those entries
          MaxTranscript   \* text of the response

ASSUME FileAssumption ==
  /\ IsFiniteSet(Id) /\ Texts \subseteq Seq(Nat)
  /\ {EventsCap, MaxWaiting} \subseteq Nat \ {0}
  /\ {MaxBuffered, MaxTranscript} \subseteq Nat

VARIABLES
  \* the task: see ItemStream
  text, open, done, finishing, over, event,
  protocol,    \* "items" or "sentences"
  channel,     \* the events not taken yet
  gone,        \* the channel is closed
  \* the request
  cancelled,   \* ctx is done
  audioClosed, \* audio.Close() was called
  stream,      \* the client asked for server-sent events
  \* the goroutine that sends the audio
  sender,      \* "read", "write", "pace", "report" or "ended"
  outcome,     \* what it reports: "ok" or "err", once it is known
  sent,        \* the channel sent, of capacity 1
  \* the handler
  pc,          \* "select", "await", "cleanup", "wait" or "returned"
  reported,    \* the outcome was received (sent == nil)
  items, order, buffered, \* orderedFileItems
  transcript,  \* what was written to text
  started,     \* the header of the event stream was written
  answer,      \* "none", "done", "error" or "lost"
  reason,      \* why it is not done
  heard        \* history: what the handler has taken of each item

task    == <<text, open, done, finishing, over, event, protocol>>
request == <<cancelled, audioClosed, stream>>
sending == <<sender, outcome, sent>>
files   == <<items, order, buffered, transcript>>
handler == <<pc, reported, files, started, answer, reason, heard>>
vars    == <<task, channel, gone, request, sending, handler>>

Task == INSTANCE ItemStream

Fresh == [text |-> <<>>, emitted |-> 0, done |-> FALSE]

Init ==
  /\ Task!Init /\ protocol \in {"items", "sentences"}
  /\ channel = <<>> /\ gone = FALSE
  /\ cancelled = FALSE /\ audioClosed = FALSE /\ stream \in BOOLEAN
  /\ sender = "read" /\ outcome = "none" /\ sent = <<>>
  /\ pc = "select" /\ reported = FALSE
  /\ items = [i \in Id |-> Fresh] /\ order = <<>> /\ buffered = 0
  /\ transcript = <<>> /\ started = FALSE /\ answer = "none" /\ reason = "none"
  /\ heard = [order |-> <<>>, text |-> [i \in Id |-> <<>>], done |-> {}]

-----------------------------------------------------------------------------
(* The task.                                                               *)

Sentence(i, t) ==
  /\ i \notin done
  /\ event' = [kind |-> "final", id |-> i, delta |-> <<>>, text |-> t]
  /\ done' = done \cup {i}
  /\ UNCHANGED <<text, open, finishing, over>>

\* emit: the task waits for room in the channel.
TaskEvent ==
  /\ ~over /\ ~gone /\ Len(channel) < EventsCap
  /\ \/ protocol = "items" /\ \E i \in Id : Task!Report(i)
     \/ protocol = "sentences" /\ \E i \in Id, t \in Texts : Sentence(i, t)
  /\ channel' = Append(channel, event')
  /\ UNCHANGED <<protocol, gone, request, sending, handler>>

TaskEnds ==
  /\ ~over /\ ~gone /\ Len(channel) < EventsCap
  /\ Task!EndNormally \/ Task!EndInError
  /\ channel' = Append(channel, event') /\ gone' = TRUE
  /\ UNCHANGED <<protocol, request, sending, handler>>

\* A cancelled task closes its channel, maybe without its last event.
TaskStops ==
  /\ cancelled /\ ~gone
  /\ gone' = TRUE
  /\ UNCHANGED <<task, channel, request, sending, handler>>

-----------------------------------------------------------------------------
(* sendPCM and task.Finish(): the goroutine that sends the audio.          *)

Sender(from, to) ==
  /\ sender = from /\ sender' = to
  /\ UNCHANGED <<text, open, done, over, event, protocol, channel, gone, request, handler>>

\* A read may block for as long as the decoder runs.
ReadAudio == Sender("read", "write") /\ UNCHANGED <<finishing, outcome, sent>>
Write     == Sender("write", "pace") /\ ~cancelled /\ UNCHANGED <<finishing, outcome, sent>>
Pace      == Sender("pace", "read") /\ UNCHANGED <<finishing, outcome, sent>>

\* The end of the audio, then Finish, which may fail before or after it took
\* effect.
FinishInput ==
  /\ Sender("read", "report")
  /\ \/ outcome' = "ok" /\ finishing' = TRUE
     \/ outcome' = "err" /\ finishing' \in {finishing, TRUE}
  /\ UNCHANGED sent

\* An empty file, a decoder that failed or was closed, a task that takes no
\* more audio, a cancelled request.
SenderFails ==
  /\ \E from \in {"read", "write", "pace"} : Sender(from, "report")
  /\ outcome' = "err"
  /\ UNCHANGED <<finishing, sent>>

ReportOutcome ==
  /\ Sender("report", "ended")
  /\ sent = <<>> /\ sent' = <<outcome>>
  /\ UNCHANGED <<finishing, outcome>>

-----------------------------------------------------------------------------
(* orderedFileItems.accept.                                                *)

\* The transcript remembers whose text each part of it is.
Spell(i, t) == [n \in DOMAIN t |-> <<i, t[n]>>]

Total(s) == FoldLeft(LAMBDA n, x : n + x, 0, s)

\* How many items at the front of the order have their full text.
Leading(its, ord) ==
  LET unfinished == {n \in DOMAIN ord : ~its[ord[n]].done}
  IN  IF unfinished = {} THEN Len(ord) ELSE Min(unfinished) - 1

AnItem(e) == e.kind \in Task!Kind \ Task!EndKind
HasText(e) == e.kind \in Task!TextKind

Waiting(e)  == IF e.id \in Range(order) THEN order ELSE Append(order, e.id)
Buffered(e) == IF HasText(e) THEN buffered + Len(e.text) - Len(items[e.id].text) ELSE buffered
Updated(e)  ==
  IF HasText(e)
  THEN [items EXCEPT ![e.id].text = e.text, ![e.id].done = e.kind = "completed"]
  ELSE items

\* Why an item event is refused, if it is.
Refusal(e) ==
  IF e.kind = "failed" THEN "item"
  ELSE IF Len(Waiting(e)) > MaxWaiting THEN "items"
  ELSE IF Buffered(e) > MaxBuffered THEN "buffer" ELSE "none"

\* The loop of accept: the front item is shown as far as it is known, and
\* leaves once it is done.  The items shown are the first Reach of the order.
Reach(its, ord) == LET n == Leading(its, ord) IN IF n < Len(ord) THEN n + 1 ELSE n

Shown(its, ord) ==
  FlattenSeq([n \in 1 .. Reach(its, ord) |->
    LET it == its[ord[n]] IN Spell(ord[n], SubSeq(it.text, it.emitted + 1, Len(it.text)))])

Kept_Whole(its, ord) ==
  [i \in Id |-> IF \E n \in 1 .. Leading(its, ord) : ord[n] = i THEN Fresh ELSE its[i]]
Kept(its, ord) ==
  [i \in Id |-> CASE \E n \in 1 .. Leading(its, ord) : ord[n] = i -> Fresh
                  [] \E n \in {Reach(its, ord)} \ {0, Leading(its, ord)} : ord[n] = i
                       -> [its[i] EXCEPT !.emitted = Len(its[i].text)]
                  [] OTHER -> its[i]]

Freed_Shown(its, ord) == Len(Shown(its, ord))
Freed(its, ord) == Total([n \in 1 .. Leading(its, ord) |-> Len(its[ord[n]].text)])

-----------------------------------------------------------------------------
(* The handler.                                                            *)

\* fail: an error event if the stream has begun, an error response if not.
Fail(r) == pc' = "cleanup" /\ answer' = "error" /\ reason' = r
Lost    == pc' = "cleanup" /\ answer' = "lost" /\ reason' = "write"
GoOn    == UNCHANGED <<pc, answer, reason>>

Selecting == pc = "select"
Elsewhere == UNCHANGED <<task, request, sender, outcome>>

Heartbeat ==
  /\ Selecting /\ stream
  /\ started' = TRUE
  /\ GoOn \/ Lost
  /\ UNCHANGED <<channel, gone, sent, reported, files, heard>> /\ Elsewhere

SeeCancelled ==
  /\ Selecting /\ cancelled
  /\ Fail("cancelled")
  /\ UNCHANGED <<channel, gone, sent, reported, files, started, heard>> /\ Elsewhere

TakeOutcome ==
  /\ Selecting /\ sent # <<>> /\ ~reported
  /\ sent' = <<>> /\ reported' = TRUE
  /\ IF Head(sent) = "ok" THEN GoOn ELSE Fail("sender")
  /\ UNCHANGED <<channel, gone, files, started, heard>> /\ Elsewhere

ChannelClosed ==
  /\ Selecting /\ channel = <<>> /\ gone
  /\ Fail("task")
  /\ UNCHANGED <<channel, gone, sent, reported, files, started, heard>> /\ Elsewhere

\* Text for the response, shown at once if the client asked for a stream.
Publish(delta) ==
  \/ delta = <<>> /\ UNCHANGED <<transcript, started>> /\ GoOn
  \/ /\ delta # <<>> /\ Len(transcript) + Len(delta) > MaxTranscript
     /\ Fail("transcript") /\ UNCHANGED <<transcript, started>>
  \/ /\ delta # <<>> /\ Len(transcript) + Len(delta) <= MaxTranscript
     /\ transcript' = transcript \o delta
     /\ started' = (started \/ stream)
     /\ GoOn \/ (stream /\ Lost)

Hear(e) ==
  heard' = [order |-> IF e.id \in Range(heard.order) THEN heard.order ELSE Append(heard.order, e.id),
            text  |-> IF HasText(e) \/ e.kind = "final"
                      THEN [heard.text EXCEPT ![e.id] = e.text] ELSE heard.text,
            done  |-> IF e.kind \in {"completed", "final"} THEN heard.done \cup {e.id} ELSE heard.done]

AcceptItem(e) ==
  \/ /\ Refusal(e) # "none"
     /\ Fail(Refusal(e))
     /\ UNCHANGED <<files, started, heard>>
  \/ /\ Refusal(e) = "none"
     /\ LET its == Updated(e)
            ord == Waiting(e)
        IN  /\ items' = Kept(its, ord)
            /\ order' = SubSeq(ord, Leading(its, ord) + 1, Len(ord))
            /\ buffered' = Buffered(e) - Freed(its, ord)
            /\ Publish(Shown(its, ord))
     /\ Hear(e)

\* The normal end of the task, once the sender is known to have succeeded.
Answer ==
  /\ pc' = "cleanup"
  /\ \/ answer' = "done" /\ reason' = "none"
     \/ stream /\ answer' = "lost" /\ reason' = "write"
  /\ started' = (started \/ stream)

Finished_Unreported ==
  /\ IF order # <<>> THEN Fail("items left") /\ UNCHANGED started ELSE Answer
  /\ UNCHANGED <<files, heard>>
Finished ==
  /\ \/ order # <<>> /\ Fail("items left") /\ UNCHANGED started
     \/ order = <<>> /\ reported /\ Answer
     \/ order = <<>> /\ ~reported /\ pc' = "await" /\ UNCHANGED <<answer, reason, started>>
  /\ UNCHANGED <<files, heard>>

TakeEvent ==
  /\ Selecting /\ channel # <<>>
  /\ channel' = Tail(channel)
  /\ LET e == Head(channel)
     IN  \/ e.kind = "err" /\ Fail("task") /\ UNCHANGED <<files, started, heard>>
         \/ AnItem(e) /\ AcceptItem(e)
         \/ /\ e.kind = "final" /\ Publish(Spell(e.id, e.text)) /\ Hear(e)
            /\ UNCHANGED <<items, order, buffered>>
         \/ e.kind = "finished" /\ Finished
  /\ UNCHANGED <<gone, sent, reported>> /\ Elsewhere

Await ==
  /\ pc = "await" /\ sent # <<>>
  /\ sent' = <<>> /\ reported' = TRUE
  /\ \/ Head(sent) = "ok" /\ Answer
     \/ Head(sent) = "err" /\ Fail("sender") /\ UNCHANGED started
  /\ UNCHANGED <<channel, gone, files, heard>> /\ Elsewhere

Cleanup_Audio ==
  /\ pc = "cleanup" /\ pc' = "wait"
  /\ cancelled' = TRUE
  /\ UNCHANGED <<task, channel, gone, audioClosed, stream, sending, reported, files, started,
                 answer, reason, heard>>

\* The deferred calls: cancel, task.Close, audio.Close, then <-senderDone.
Cleanup ==
  /\ pc = "cleanup" /\ pc' = "wait"
  /\ cancelled' = TRUE /\ audioClosed' = TRUE
  /\ UNCHANGED <<task, channel, gone, stream, sending, reported, files, started, answer,
                 reason, heard>>

Return ==
  /\ pc = "wait" /\ sender = "ended"
  /\ pc' = "returned"
  /\ UNCHANGED <<task, channel, gone, request, sending, reported, files, started, answer,
                 reason, heard>>

\* The client disconnects, or the server stops.
Cancel ==
  /\ ~cancelled
  /\ cancelled' = TRUE
  /\ UNCHANGED <<task, channel, gone, audioClosed, stream, sending, handler>>

\* Nothing is left to do.
Terminated == pc = "returned" /\ gone /\ UNCHANGED vars

TaskStep   == TaskEvent \/ TaskEnds \/ TaskStops
SenderStep == ReadAudio \/ Write \/ Pace \/ FinishInput \/ SenderFails \/ ReportOutcome
Serve      == Heartbeat \/ SeeCancelled \/ TakeOutcome \/ ChannelClosed \/ TakeEvent \/ Await
Leave      == Cleanup \/ Return

Next == TaskStep \/ SenderStep \/ Serve \/ Leave \/ Cancel \/ Terminated

Spec == Init /\ [][Next]_vars

-----------------------------------------------------------------------------
(* Fairness.  A socket write has a deadline, a pacing timer expires, a      *)
(* closed decoder fails its reads; an open one may block.  select chooses   *)
(* at random, so that a case that stays ready is taken in the end.  After   *)
(* Finish the task ends, at the latest when its timer closes it.            *)

Fairness ==
  /\ WF_vars(sender \in {"write", "pace"} /\ (Write \/ Pace \/ SenderFails))
  /\ WF_vars(sender = "read" /\ audioClosed /\ SenderFails)
  /\ WF_vars(ReportOutcome)
  /\ SF_vars(SeeCancelled) /\ SF_vars(TakeOutcome) /\ SF_vars(TakeEvent)
  /\ WF_vars(ChannelClosed) /\ WF_vars(Await)
  /\ WF_vars(Cleanup) /\ WF_vars(Return)
  /\ SF_vars(finishing /\ TaskEnds) /\ WF_vars(TaskStops)

FairSpec == Spec /\ Fairness

-----------------------------------------------------------------------------
(* Properties.                                                             *)

TypeOK ==
  /\ protocol \in {"items", "sentences"} /\ Len(channel) <= EventsCap
  /\ gone \in BOOLEAN /\ cancelled \in BOOLEAN /\ audioClosed \in BOOLEAN /\ stream \in BOOLEAN
  /\ sender \in {"read", "write", "pace", "report", "ended"}
  /\ outcome \in {"none", "ok", "err"} /\ Len(sent) <= 1
  /\ pc \in {"select", "await", "cleanup", "wait", "returned"}
  /\ reported \in BOOLEAN /\ started \in BOOLEAN
  /\ items \in [Id -> [text : Texts, emitted : Nat, done : BOOLEAN]]
  /\ order \in Seq(Id) /\ Len(order) <= MaxWaiting /\ buffered \in 0 .. MaxBuffered
  /\ transcript \in Seq(Id \X Nat) /\ Len(transcript) <= MaxTranscript
  /\ answer \in {"none", "done", "error", "lost"}
  /\ reason \in {"none", "cancelled", "sender", "task", "transcript", "item", "items",
                 "buffer", "items left", "write"}

\* The reference: the items in the order they were first mentioned, up to the
\* first one that is not done, as far as that one is known.
InOrder ==
  LET unfinished == {n \in DOMAIN heard.order : heard.order[n] \notin heard.done}
      reach == IF unfinished = {} THEN Len(heard.order) ELSE Min(unfinished)
  IN  FlattenSeq([n \in 1 .. reach |-> Spell(heard.order[n], heard.text[heard.order[n]])])

\* The text is linear: at every point it is the text of the items in the
\* order of the audio, although they are updated and completed out of order;
\* nothing is repeated, skipped, or shown of a later item too early.
Linear == pc \in {"select", "await"} \/ answer = "done" => transcript = InOrder

\* The text counted as buffered is the text of the items that wait, which are
\* those mentioned from the first unfinished one on: an item that was shown
\* in full leaves and never comes back.
BufferAccounted ==
  pc \in {"select", "await"} =>
    /\ buffered = Total([n \in DOMAIN order |-> Len(items[order[n]].text)])
    /\ protocol = "items" =>
         LET left == Len(heard.order) - Len(order)
         IN  /\ order = SubSeq(heard.order, left + 1, Len(heard.order))
             /\ \A n \in 1 .. left : heard.order[n] \in heard.done
             /\ order # <<>> => Head(order) \notin heard.done

\* A success is one: all audio was sent and the input finished, every item
\* that was mentioned is completed and in the text.  When the handler is told
\* that the task has finished before it knows that the sender has, it waits
\* for a report that is on its way, never for audio that is still to be read:
\* that wait has no other way out.
SuccessIsComplete ==
  /\ answer = "done" =>
       /\ outcome = "ok" /\ finishing
       /\ open = {} /\ heard.done = done /\ Range(heard.order) = done
  /\ pc = "await" => sender \in {"report", "ended"} /\ (sender = "ended" => sent # <<>>)

\* What the README says of the limit: 64 unfinished items.
LimitCountsUnfinished ==
  reason = "items" =>
    Cardinality({n \in DOMAIN heard.order : heard.order[n] \notin heard.done}) >= MaxWaiting

\* A request whose audio was sent, whose client has gone, or which has failed
\* returns, and neither goroutine, that of the sender nor the reader of the
\* task, is left behind: the sender may be in a read, a write or its timer.
Leaves ==
  (finishing \/ cancelled \/ pc = "cleanup") ~>
    (pc = "returned" /\ sender = "ended" /\ gone)

=============================================================================
