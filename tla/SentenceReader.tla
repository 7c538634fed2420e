---------------------------- MODULE SentenceReader ----------------------------
(***************************************************************************)
(* The reader of a Fun-ASR or Paraformer realtime task: readLoop of        *)
(* internal/realtime/client.go with the normaliser of paraformer.go.       *)
(*                                                                         *)
(* Fun-ASR numbers its sentences; Paraformer does not, and the normaliser  *)
(* tells them apart by their begin_time, of which it keeps the last.  The  *)
(* service is one of two:                                                  *)
(*                                                                         *)
(*   orderly  hears one utterance after the other and finalises each, but  *)
(*            repeats and delays its results at will, and may give an end  *)
(*            time only with the words;                                    *)
(*   not so   sends anything at any time.                                  *)
(*                                                                         *)
(* How an event reaches the consumer, and the lock around finishing, are   *)
(* in UpstreamSession.  Texts are left out.  Op_Variant: see WsBridge.     *)
(***************************************************************************)
EXTENDS Integers, Sequences, FiniteSetsExt

CONSTANTS Protocols,  \* the protocols of the models in use
          Utterances, \* bound: how many utterances an orderly service hears
          Begin, End, \* when each begins and ends
          MaxId,      \* bound: the ids of a service that is not orderly
          Times       \* bound: the time stamps of a service that is not orderly

Utterance == 1 .. Utterances

ASSUME ReaderAssumption ==
  /\ Protocols \subseteq {"fun-asr", "paraformer"}
  /\ Utterances \in Nat /\ MaxId \in Nat /\ Times \subseteq Int
  /\ Begin \in [Utterance -> Nat] /\ End \in [Utterance -> Nat]
  /\ \A u \in Utterance : Begin[u] <= End[u]
  /\ \A u, v \in Utterance : u < v => Begin[u] < Begin[v]

VARIABLES
  protocol, orderly, \* of the service
  spoken, settled,   \* utterances an orderly service has begun and finalised
  sentence,   \* paraformerSentences: id, begin and active
  lastFinal,  \* lastFinal of readLoop
  finishing,  \* s.finishing
  next,       \* the last event emitted
  cut,        \* the connection, or the task, was lost
  finals      \* history: the final sentences emitted

service == <<protocol, orderly, spoken, settled>>
vars    == <<service, sentence, lastFinal, finishing, next, cut, finals>>

Unknown == -1 \* an end_time that is missing
EndKind == {"finished", "err"}
Plain(k) == [kind |-> k, id |-> 0, first |-> FALSE]
Over == next.kind \in EndKind

Init ==
  /\ protocol \in Protocols /\ orderly \in BOOLEAN /\ spoken = 0 /\ settled = 0
  /\ sentence = [id |-> 0, begin |-> 0, active |-> FALSE]
  /\ lastFinal = 0 /\ finishing = FALSE /\ next = Plain("none") /\ cut = FALSE
  /\ finals = <<>>

-----------------------------------------------------------------------------
(* readLoop: what becomes of a result r.                                   *)

Ignore == UNCHANGED <<lastFinal, next, finals>>
Abort  == next' = Plain("err") /\ UNCHANGED <<lastFinal, finals>>

\* A result that has passed the normaliser, with the id and end it gave it.
Emit(r, id, first, end) ==
  \/ id <= lastFinal /\ Ignore
  \/ /\ id > lastFinal
     /\ lastFinal' = IF r.final THEN id ELSE lastFinal
     /\ next' = [kind |-> IF r.final THEN "final" ELSE "partial", id |-> id, first |-> first]
     /\ finals' = IF r.final THEN Append(finals, [of |-> r.of, end |-> end]) ELSE finals

\* The end of a sentence, from its words if the service gives none.
EndOf_Trusting(r) == IF r.end # Unknown THEN r.end
                     ELSE IF r.words # {} THEN Max(r.words) ELSE Unknown
EndOf(r) ==
  LET words == {t \in r.words : t >= r.begin}
  IN  IF r.end >= r.begin THEN r.end ELSE IF words # {} THEN Max(words) ELSE Unknown

\* A repeated or delayed result of a sentence that is final.
Stale_Idle(r) == sentence.id > 0 /\ ~sentence.active /\ r.begin <= sentence.begin
Stale(r) ==
  /\ sentence.id > 0
  /\ r.begin < sentence.begin \/ (~sentence.active /\ r.begin = sentence.begin)

Normalize(r) ==
  \/ r.begin < 0 /\ Abort /\ UNCHANGED sentence
  \/ r.begin >= 0 /\ Stale(r) /\ Ignore /\ UNCHANGED sentence
  \/ r.begin >= 0 /\ ~Stale(r) /\ sentence.active /\ r.begin # sentence.begin
       /\ Abort /\ UNCHANGED sentence
  \/ /\ r.begin >= 0 /\ ~Stale(r) /\ (sentence.active => r.begin = sentence.begin)
     /\ LET first == ~sentence.active
            id == IF first THEN sentence.id + 1 ELSE sentence.id
        IN  /\ sentence' = [id |-> id, begin |-> r.begin, active |-> ~r.final]
            /\ Emit(r, id, first, EndOf(r))

Take(r) ==
  /\ \/ protocol = "paraformer" /\ Normalize(r)
     \/ protocol = "fun-asr" /\ Emit(r, r.id, r.first, r.end) /\ UNCHANGED sentence
  /\ UNCHANGED <<finishing, cut>>

-----------------------------------------------------------------------------
(* The service.                                                            *)

\* What an orderly service may say of utterance u.  Paraformer: the end is
\* given, or it is in the words.
Results(u) ==
  [of : {u}, id : {u}, first : BOOLEAN, final : BOOLEAN, begin : {Begin[u]},
   end : {Unknown, End[u]} \cup (-1 .. Begin[u] - 1),
   words : SUBSET {Begin[u] - 1, Begin[u], End[u]}]

Truthful(r) ==
  r.final => r.end = End[r.of] \/ (protocol = "paraformer" /\ End[r.of] \in r.words)

\* The current utterance, or one that was finalised, however long ago.
Hear(u) ==
  /\ orderly /\ ~Over /\ u <= settled + 1
  /\ \E r \in Results(u) :
       /\ Truthful(r) /\ Take(r)
       /\ spoken' = IF u > spoken THEN u ELSE spoken
       /\ settled' = IF r.final /\ u > settled THEN u ELSE settled
  /\ UNCHANGED <<protocol, orderly>>

Disorder ==
  [of : {0}, id : 0 .. MaxId, first : BOOLEAN, final : BOOLEAN,
   begin : Times, end : Times, words : SUBSET Times]

Receive ==
  /\ ~orderly /\ ~Over
  /\ \E r \in Disorder : Take(r)
  /\ UNCHANGED service

TaskFinished_Open ==
  /\ ~Over /\ (orderly => finishing /\ spoken = settled)
  /\ next' = Plain(IF finishing THEN "finished" ELSE "err")
  /\ UNCHANGED <<service, sentence, lastFinal, finishing, cut, finals>>
\* task-finished: an error before Finish, or within a Paraformer sentence.
TaskFinished ==
  /\ ~Over /\ (orderly => finishing /\ spoken = settled)
  /\ next' = Plain(IF finishing /\ ~sentence.active THEN "finished" ELSE "err")
  /\ UNCHANGED <<service, sentence, lastFinal, finishing, cut, finals>>

\* task-failed, an event of another task, or a connection that is gone.
Lost ==
  /\ ~Over
  /\ next' = Plain("err") /\ cut' = TRUE
  /\ UNCHANGED <<service, sentence, lastFinal, finishing, finals>>

Finish ==
  /\ ~finishing /\ ~Over
  /\ finishing' = TRUE
  /\ UNCHANGED <<service, sentence, lastFinal, next, cut, finals>>

Next ==
  \/ \E u \in Utterance : Hear(u)
  \/ Receive \/ TaskFinished \/ Lost \/ Finish

Spec == Init /\ [][Next]_vars

-----------------------------------------------------------------------------
(* Properties.                                                             *)

TypeOK ==
  /\ protocol \in Protocols /\ orderly \in BOOLEAN
  /\ spoken \in 0 .. Utterances /\ settled \in 0 .. Utterances
  /\ sentence \in [id : Nat, begin : Int, active : BOOLEAN]
  /\ lastFinal \in Nat /\ finishing \in BOOLEAN /\ cut \in BOOLEAN
  /\ next \in [kind : EndKind \cup {"none", "partial", "final"}, id : Nat, first : BOOLEAN]

\* The sentences of the first k utterances.
Heard(k) == [n \in 1 .. k |-> [of |-> n, end |-> End[n]]]

\* Every utterance that an orderly service finalised reaches the consumer as
\* one final sentence, in order, although the service repeats and delays its
\* results and Paraformer gives them no id.  Its end, up to which the client's
\* audio is committed, is that of the utterance, whether the service gave it
\* or only the words, among which some belong to the sentence before.
EachUtteranceOnce ==
  orderly => finals = Heard(settled)

\* No repeated or delayed result of an orderly service is taken for a change
\* of sentence: such a task fails only if it is lost.
OrderlyAccepted == orderly /\ next.kind = "err" => cut

\* readLoop implements the stream that its consumers rely on, whatever the
\* service sends: nothing about a sentence that is final, sentences of
\* Paraformer numbered one by one, and a normal end with none of them open.
Stream == INSTANCE SentenceStream WITH
  numbered <- protocol = "paraformer",
  last  <- lastFinal,
  open  <- IF sentence.active THEN sentence.id ELSE 0,
  event <- next

Contract == Stream!Spec

-----------------------------------------------------------------------------
(* The strengthenings under which they are inductive (SentenceReaderProofs). *)

\* The number that the normaliser gives a sentence is never one that readLoop
\* has seen the end of.
Numbered ==
  IF protocol = "paraformer"
  THEN /\ lastFinal = IF sentence.active THEN sentence.id - 1 ELSE sentence.id
       /\ sentence.active => sentence.id > 0
  ELSE ~sentence.active

\* With an orderly service, the normaliser counts the utterances, and its
\* watermark is the beginning of the last one.
InStep ==
  /\ settled <= spoken /\ spoken <= settled + 1
  /\ finals = Heard(settled)
  /\ IF protocol = "paraformer"
     THEN /\ sentence.id = spoken /\ (sentence.active <=> spoken > settled)
          /\ spoken > 0 => sentence.begin = Begin[spoken]
     ELSE lastFinal = settled

ReaderInv == TypeOK /\ Numbered /\ (orderly => InStep) /\ OrderlyAccepted

=============================================================================
