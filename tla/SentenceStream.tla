---------------------------- MODULE SentenceStream ----------------------------
(***************************************************************************)
(* What the event stream of a Fun-ASR or Paraformer task promises to the   *)
(* bridge and to the file response, the counterpart of ItemStream: the     *)
(* abstract specification of readLoop in SentenceReader.                   *)
(*                                                                         *)
(*   - nothing is said of a sentence at or before the last final one;      *)
(*   - where the adapter numbers the sentences itself, they come one after *)
(*     the other: 1, 2, 3, each announced by its first result and closed   *)
(*     by one final result before the next begins;                         *)
(*   - the stream ends once: normally, after Finish and, where they are    *)
(*     numbered, with no sentence open, or with an error at any time.      *)
(***************************************************************************)
EXTENDS Integers

VARIABLES numbered,  \* the adapter numbers the sentences
          last,      \* the last final sentence
          open,      \* the sentence being recognised, if they are numbered
          finishing, \* the owner has called Finish
          event      \* the last event of the stream

stream == <<numbered, last, open, finishing, event>>

None    == 0 \* no sentence: their ids begin at one
EndKind == {"finished", "err"}
Plain(k) == [kind |-> k, id |-> None, first |-> FALSE]
Over == event.kind \in EndKind

Init ==
  /\ numbered \in BOOLEAN
  /\ last = None /\ open = None /\ finishing = FALSE /\ event = Plain("none")

Finish == finishing' = TRUE /\ UNCHANGED <<numbered, last, open, event>>

\* A result of sentence i.
Result(i, first, k) ==
  /\ i \in Nat /\ i > last
  /\ numbered => /\ first = (open = None)
                 /\ i = IF open = None THEN last + 1 ELSE open
  /\ event' = [kind |-> k, id |-> i, first |-> first]
  /\ last' = IF k = "final" THEN i ELSE last
  /\ open' = IF numbered /\ k = "partial" THEN i ELSE None
  /\ UNCHANGED <<numbered, finishing>>

EndNormally ==
  /\ finishing /\ open = None
  /\ event' = Plain("finished")
  /\ UNCHANGED <<numbered, last, open, finishing>>

EndInError == event' = Plain("err") /\ UNCHANGED <<numbered, last, open, finishing>>

Next ==
  \/ Finish
  \/ /\ ~Over
     /\ \/ EndNormally \/ EndInError
        \/ \E first \in BOOLEAN, k \in {"partial", "final"} : Result(event'.id, first, k)

Spec == Init /\ [][Next]_stream

=============================================================================
