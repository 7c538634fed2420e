------------------------------ MODULE ItemStream ------------------------------
(***************************************************************************)
(* What the event stream of a Qwen task promises to its consumers, the     *)
(* WebSocket bridge (WsBridge) and the file response (FileResponse): the   *)
(* abstract specification of the adapter in QwenAdapter.                   *)
(*                                                                         *)
(*   - an item is mentioned any number of times until it has one outcome,  *)
(*     completed or failed, and never after it;                            *)
(*   - its text only grows, and each update carries the growth beside it;  *)
(*   - the stream ends once: normally, after Finish and when no mentioned  *)
(*     item is open, or with an error at any time.                         *)
(***************************************************************************)
EXTENDS Integers, Sequences

CONSTANTS Id,     \* the items of a task
          Texts   \* the texts the service may report

VARIABLES text,      \* the text of each open item
          open,      \* the items mentioned that have no outcome
          done,      \* the items that have one
          finishing, \* the owner has called Finish
          over,      \* the stream has ended
          event      \* the last event of the stream

stream == <<text, open, done, finishing, over, event>>

StageKind == {"started", "stopped", "committed"}
TextKind  == {"delta", "completed"}
EndKind   == {"finished", "err"}
Kind      == StageKind \cup TextKind \cup {"failed"} \cup EndKind

Nobody   == "nobody"   \* the item of an event that is about the stream
NoEvent  == [kind |-> "none", id |-> Nobody, delta |-> <<>>, text |-> <<>>]
Plain(k, i) == [kind |-> k, id |-> i, delta |-> <<>>, text |-> <<>>]

Extends(t, s) == Len(s) <= Len(t) /\ SubSeq(t, 1, Len(s)) = s
Growth(t, s)  == SubSeq(t, Len(s) + 1, Len(t))

Init ==
  /\ text = [i \in Id |-> <<>>] /\ open = {} /\ done = {}
  /\ finishing = FALSE /\ over = FALSE /\ event = NoEvent

Finish ==
  /\ finishing' = TRUE
  /\ UNCHANGED <<text, open, done, over, event>>

Stage(i, k) ==
  /\ i \notin done
  /\ event' = Plain(k, i) /\ open' = open \cup {i}
  /\ UNCHANGED <<text, done, finishing, over>>

Update(i, t) ==
  /\ i \notin done /\ Extends(t, text[i])
  /\ event' = [kind |-> "delta", id |-> i, delta |-> Growth(t, text[i]), text |-> t]
  /\ text' = [text EXCEPT ![i] = t] /\ open' = open \cup {i}
  /\ UNCHANGED <<done, finishing, over>>

Complete(i, t) ==
  /\ i \notin done /\ Extends(t, text[i])
  /\ event' = [kind |-> "completed", id |-> i, delta |-> Growth(t, text[i]), text |-> t]
  /\ text' = [text EXCEPT ![i] = <<>>] /\ open' = open \ {i} /\ done' = done \cup {i}
  /\ UNCHANGED <<finishing, over>>

Fail(i) ==
  /\ i \notin done
  /\ event' = Plain("failed", i)
  /\ text' = [text EXCEPT ![i] = <<>>] /\ open' = open \ {i} /\ done' = done \cup {i}
  /\ UNCHANGED <<finishing, over>>

EndNormally ==
  /\ finishing /\ open = {}
  /\ event' = Plain("finished", Nobody) /\ over' = TRUE
  /\ UNCHANGED <<text, open, done, finishing>>

\* An error gives up the items that are open.
EndInError ==
  /\ event' = Plain("err", Nobody) /\ over' = TRUE
  /\ text' = [i \in Id |-> <<>>] /\ open' = {}
  /\ UNCHANGED <<done, finishing>>

Report(i) ==
  \/ \E k \in StageKind : Stage(i, k)
  \/ \E t \in Texts : Update(i, t) \/ Complete(i, t)
  \/ Fail(i)

Next ==
  \/ Finish
  \/ ~over /\ (EndNormally \/ EndInError \/ \E i \in Id : Report(i))

Spec == Init /\ [][Next]_stream

=============================================================================
