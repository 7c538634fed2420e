-------------------------- MODULE SentenceReaderProofs --------------------------
(***************************************************************************)
(* Proofs about SentenceReader for any number of utterances, time stamps   *)
(* and ids: the reader implements SentenceStream whatever the service      *)
(* sends, and with an orderly service it hears every utterance once and    *)
(* fails on none.                                                          *)
(*                                                                         *)
(* The inductive invariant is ReaderInv.  Numbered, with the types, is     *)
(* what the refinement rests on; InStep says what the normaliser's three   *)
(* fields stand for as long as the service is orderly.                     *)
(***************************************************************************)
EXTENDS SentenceReader, SequenceTheorems, TLAPS

LEMMA Assumed ==
  /\ Utterances \in Nat /\ MaxId \in Nat /\ Times \subseteq Int
  /\ Begin \in [Utterance -> Nat] /\ End \in [Utterance -> Nat]
  /\ \A u \in Utterance : Begin[u] <= End[u]
  /\ \A u, v \in Utterance : u < v => Begin[u] < Begin[v]
  /\ Protocols \subseteq {"fun-asr", "paraformer"}
BY ReaderAssumption DEF ReaderAssumption

-----------------------------------------------------------------------------
(* Results and their ends.                                                 *)

\* A result as far as its types go.
Wellformed(r) ==
  /\ r.of \in Nat /\ r.id \in Nat /\ r.first \in BOOLEAN /\ r.final \in BOOLEAN
  /\ r.begin \in Int /\ r.end \in Int /\ r.words \subseteq Int

LEMMA ResultsWellformed ==
  ASSUME NEW u \in Utterance, NEW r \in Results(u)
  PROVE  /\ Wellformed(r)
         /\ r.of = u /\ r.id = u /\ r.begin = Begin[u]
         /\ r.end \in {Unknown, End[u]} \cup (-1 .. Begin[u] - 1)
         /\ r.words \subseteq {Begin[u] - 1, Begin[u], End[u]}
<1>1. u \in Nat /\ Begin[u] \in Nat /\ End[u] \in Nat
  BY Assumed DEF Utterance
<1>2. /\ r.of = u /\ r.id = u /\ r.begin = Begin[u]
      /\ r.first \in BOOLEAN /\ r.final \in BOOLEAN
      /\ r.end \in {Unknown, End[u]} \cup (-1 .. Begin[u] - 1)
      /\ r.words \in SUBSET {Begin[u] - 1, Begin[u], End[u]}
  BY DEF Results
<1>3. r.end \in Int
  BY <1>1, <1>2 DEF Unknown
<1>4. r.words \subseteq Int
  BY <1>1, <1>2
<1>5. r.of \in Nat /\ r.id \in Nat /\ r.begin \in Int
  BY <1>1, <1>2
<1>6. Wellformed(r)
  BY <1>2, <1>3, <1>4, <1>5 DEF Wellformed
<1>7. r.words \subseteq {Begin[u] - 1, Begin[u], End[u]}
  BY <1>2
<1> QED BY <1>2, <1>6, <1>7

LEMMA DisorderWellformed == ASSUME NEW r \in Disorder PROVE Wellformed(r)
<1>0. MaxId \in Nat /\ \A t \in Times : t \in Int
  BY Assumed
<1>1. /\ r.of = 0 /\ r.id \in 0 .. MaxId /\ r.first \in BOOLEAN /\ r.final \in BOOLEAN
      /\ r.begin \in Times /\ r.end \in Times /\ r.words \in SUBSET Times
  BY <1>0 DEF Disorder
<1>2. r.of \in Nat /\ r.id \in Nat
  BY <1>0, <1>1
<1>3. r.begin \in Int /\ r.end \in Int /\ r.words \subseteq Int
  BY <1>0, <1>1
<1> QED BY <1>1, <1>2, <1>3 DEF Wellformed

\* The maximum of a set of which one member is known to be the largest.
LEMMA MaxIs ==
  ASSUME NEW S \in SUBSET Int, NEW m \in S, \A y \in S : y <= m
  PROVE  Max(S) = m
<1>1. \A y \in S : m >= y
  OBVIOUS
<1>2. Max(S) \in S /\ \A y \in S : Max(S) >= y
  BY <1>1, Zenon DEF Max
<1>3. Max(S) \in Int /\ m \in Int /\ Max(S) >= m /\ Max(S) <= m
  BY <1>2
<1> QED BY <1>3

\* The end of a sentence that an orderly Paraformer service finalises.
LEMMA EndRecovered ==
  ASSUME NEW u \in Utterance, NEW r \in Results(u), Truthful(r), r.final
  PROVE  (r.end = End[u] \/ protocol = "paraformer") /\ (protocol = "paraformer" => EndOf(r) = End[u])
<1>1. Begin[u] \in Nat /\ End[u] \in Nat /\ Begin[u] <= End[u]
  BY Assumed
<1>2. r.of = u /\ r.begin = Begin[u] /\ Wellformed(r)
      /\ r.end \in {Unknown, End[u]} \cup (-1 .. Begin[u] - 1)
      /\ r.words \subseteq {Begin[u] - 1, Begin[u], End[u]}
  BY ResultsWellformed
<1>3. r.end = End[u] \/ (protocol = "paraformer" /\ End[u] \in r.words)
  BY <1>2 DEF Truthful
<1>4. CASE r.end >= r.begin
  <2>1. r.end = End[u]
    BY <1>1, <1>2, <1>4 DEF Unknown
  <2>2. EndOf(r) = r.end
    BY <1>4 DEF EndOf
  <2> QED BY <2>1, <2>2
<1>5. CASE ~(r.end >= r.begin)
  <2>1. r.end # End[u]
    BY <1>1, <1>2, <1>5
  <2>2. End[u] \in r.words /\ protocol = "paraformer"
    BY <2>1, <1>3
  <2> DEFINE words == {t \in r.words : t >= r.begin}
  <2>3. words \in SUBSET Int /\ End[u] \in words
    BY <1>1, <1>2, <2>2 DEF Wellformed
  <2>4. \A y \in words : y <= End[u]
    BY <1>1, <1>2
  <2>5. Max(words) = End[u]
    <3> HIDE DEF words
    <3> QED BY <2>3, <2>4, MaxIs
  <2>6. EndOf(r) = Max(words)
    BY <1>5, <2>3 DEF EndOf
  <2> QED BY <2>2, <2>5, <2>6
<1> QED BY <1>4, <1>5

-----------------------------------------------------------------------------
(* What each outcome of a result is.                                       *)

\* The event that a result gives, with the id it has in the end.
EventOf(r, id, first) ==
  [kind |-> IF r.final THEN "final" ELSE "partial", id |-> id, first |-> first]

LEMMA EmitCases ==
  ASSUME NEW r, NEW id, NEW first, NEW end, Emit(r, id, first, end)
  PROVE  \/ id <= lastFinal /\ UNCHANGED <<lastFinal, next, finals>>
         \/ /\ id > lastFinal
            /\ lastFinal' = IF r.final THEN id ELSE lastFinal
            /\ next' = EventOf(r, id, first)
            /\ finals' = IF r.final THEN Append(finals, [of |-> r.of, end |-> end]) ELSE finals
BY DEF Emit, Ignore, EventOf

\* The cases of Paraformer: the result is stale, impossible, or it continues
\* or begins a sentence that readLoop has not seen the end of.
LEMMA ParaformerCases ==
  ASSUME TypeOK, Numbered, protocol = "paraformer", NEW r, Wellformed(r), Normalize(r)
  PROVE  \/ Stale(r) /\ UNCHANGED <<sentence, lastFinal, next, finals>>
         \/ /\ r.begin < 0 \/ (~Stale(r) /\ sentence.active /\ r.begin # sentence.begin)
            /\ next' = Plain("err") /\ UNCHANGED <<sentence, lastFinal, finals>>
         \/ \E id \in Nat :
            /\ r.begin >= 0 /\ ~Stale(r)
            /\ sentence.active => r.begin = sentence.begin
            /\ id = (IF sentence.active THEN sentence.id ELSE sentence.id + 1)
            /\ id = lastFinal + 1
            /\ sentence' = [id |-> id, begin |-> r.begin, active |-> ~r.final]
            /\ lastFinal' = IF r.final THEN id ELSE lastFinal
            /\ next' = EventOf(r, id, ~sentence.active)
            /\ finals' = IF r.final THEN Append(finals, [of |-> r.of, end |-> EndOf(r)])
                         ELSE finals
<1>1. /\ lastFinal = (IF sentence.active THEN sentence.id - 1 ELSE sentence.id)
      /\ lastFinal \in Nat /\ sentence.id \in Nat /\ sentence.active \in BOOLEAN
  BY DEF Numbered, TypeOK
<1>2. CASE r.begin < 0 /\ Abort /\ UNCHANGED sentence
  BY <1>2 DEF Abort
<1>3. CASE r.begin >= 0 /\ Stale(r) /\ Ignore /\ UNCHANGED sentence
  BY <1>3 DEF Ignore
<1>4. CASE r.begin >= 0 /\ ~Stale(r) /\ sentence.active /\ r.begin # sentence.begin
             /\ Abort /\ UNCHANGED sentence
  BY <1>4 DEF Abort
<1>5. CASE /\ r.begin >= 0 /\ ~Stale(r) /\ (sentence.active => r.begin = sentence.begin)
           /\ LET first == ~sentence.active
                  id == IF first THEN sentence.id + 1 ELSE sentence.id
              IN  /\ sentence' = [id |-> id, begin |-> r.begin, active |-> ~r.final]
                  /\ Emit(r, id, first, EndOf(r))
  <2> DEFINE id == IF sentence.active THEN sentence.id ELSE sentence.id + 1
  <2>1. id \in Nat /\ id = lastFinal + 1 /\ id > lastFinal /\ ~(id <= lastFinal)
    BY <1>1
  <2>2. /\ sentence' = [id |-> id, begin |-> r.begin, active |-> ~r.final]
        /\ Emit(r, id, ~sentence.active, EndOf(r))
    BY <1>1, <1>5
  <2>3. /\ lastFinal' = IF r.final THEN id ELSE lastFinal
        /\ next' = EventOf(r, id, ~sentence.active)
        /\ finals' = IF r.final THEN Append(finals, [of |-> r.of, end |-> EndOf(r)])
                     ELSE finals
    <3> HIDE DEF id
    <3> QED BY <2>1, <2>2, EmitCases
  <2>4. r.begin >= 0 /\ ~Stale(r) /\ (sentence.active => r.begin = sentence.begin)
    BY <1>5
  <2>5. id = (IF sentence.active THEN sentence.id ELSE sentence.id + 1)
    OBVIOUS
  <2> HIDE DEF id
  <2> QED BY <2>1, <2>2, <2>3, <2>4, <2>5
<1> QED BY <1>2, <1>3, <1>4, <1>5 DEF Normalize

\* Fun-ASR: the same, with the ids of the service.
LEMMA FunAsrCases ==
  ASSUME TypeOK, NEW r, Wellformed(r), Emit(r, r.id, r.first, r.end)
  PROVE  \/ r.id <= lastFinal /\ UNCHANGED <<lastFinal, next, finals>>
         \/ /\ r.id > lastFinal
            /\ lastFinal' = IF r.final THEN r.id ELSE lastFinal
            /\ next' = EventOf(r, r.id, r.first)
            /\ finals' = IF r.final THEN Append(finals, [of |-> r.of, end |-> r.end]) ELSE finals
BY EmitCases

-----------------------------------------------------------------------------
(* One result, whatever the service: types, Numbered and the refinement.   *)

Emission == [kind : EndKind \cup {"none", "partial", "final"}, id : Nat, first : BOOLEAN]

LEMMA EventTypes ==
  ASSUME NEW r, Wellformed(r), NEW id \in Nat, NEW first \in BOOLEAN
  PROVE  EventOf(r, id, first) \in Emission
BY DEF EventOf, Emission, EndKind, Wellformed

LEMMA PlainTypes ==
  Plain("none") \in Emission /\ Plain("err") \in Emission /\ Plain("finished") \in Emission
BY DEF Emission, EndKind, Plain

LEMMA TakeNumbered ==
  ASSUME TypeOK, Numbered, NEW r, Wellformed(r), Take(r), UNCHANGED protocol
  PROVE  /\ Numbered'
         /\ sentence' \in [id : Nat, begin : Int, active : BOOLEAN]
         /\ lastFinal' \in Nat /\ next' \in Emission
<1>0. /\ lastFinal \in Nat /\ next \in Emission /\ r.id \in Nat /\ r.begin \in Int
      /\ r.first \in BOOLEAN /\ r.final \in BOOLEAN
      /\ sentence \in [id : Nat, begin : Int, active : BOOLEAN]
  BY DEF TypeOK, Wellformed, Emission
<1>1. CASE protocol = "paraformer" /\ Normalize(r)
  <2>1. CASE /\ \/ Stale(r) /\ UNCHANGED <<sentence, lastFinal, next, finals>>
                \/ next' = Plain("err") /\ UNCHANGED <<sentence, lastFinal, finals>>
    <3>1. next' \in Emission
      BY <1>0, <2>1, PlainTypes
    <3> QED BY <1>0, <1>1, <2>1, <3>1 DEF Numbered
  <2>2. ASSUME NEW id \in Nat,
               id = lastFinal + 1,
               sentence' = [id |-> id, begin |-> r.begin, active |-> ~r.final],
               lastFinal' = IF r.final THEN id ELSE lastFinal,
               next' = EventOf(r, id, ~sentence.active)
        PROVE  /\ Numbered'
               /\ sentence' \in [id : Nat, begin : Int, active : BOOLEAN]
               /\ lastFinal' \in Nat /\ next' \in Emission
    <3>1. next' \in Emission
      BY <1>0, <2>2, EventTypes
    <3>2. sentence' \in [id : Nat, begin : Int, active : BOOLEAN] /\ lastFinal' \in Nat
      BY <1>0, <2>2
    <3>3. Numbered'
      <4>1. sentence'.id = id /\ (sentence'.active <=> ~r.final)
        BY <2>2
      <4>2. lastFinal' = (IF sentence'.active THEN sentence'.id - 1 ELSE sentence'.id)
        <5>1. CASE r.final
          BY <1>0, <2>2, <4>1, <5>1
        <5>2. CASE ~r.final
          <6>1. sentence'.active /\ lastFinal' = lastFinal
            BY <2>2, <4>1, <5>2
          <6> QED BY <1>0, <2>2, <4>1, <6>1
        <5> QED BY <5>1, <5>2
      <4>3. sentence'.id > 0
        BY <1>0, <2>2, <4>1
      <4> QED BY <1>1, <4>2, <4>3 DEF Numbered
    <3> QED BY <3>1, <3>2, <3>3
  <2> QED BY <1>1, <2>1, <2>2, ParaformerCases
<1>2. CASE /\ protocol = "fun-asr" /\ Emit(r, r.id, r.first, r.end) /\ UNCHANGED sentence
  <2>1. \/ UNCHANGED <<lastFinal, next>>
        \/ lastFinal' \in {r.id, lastFinal} /\ next' = EventOf(r, r.id, r.first)
    BY <1>2, FunAsrCases
  <2>2. next' \in Emission
    BY <1>0, <2>1, EventTypes
  <2> QED BY <1>0, <1>2, <2>1, <2>2 DEF Numbered
<1> QED BY <1>1, <1>2 DEF Take

\* A result maps to a result of the stream, to its end in error, or to none.
LEMMA TakeRefines ==
  ASSUME TypeOK, Numbered, ~Over, NEW r, Wellformed(r), Take(r), UNCHANGED protocol
  PROVE  Stream!Next \/ UNCHANGED Stream!stream
<1> DEFINE openId == IF sentence.active THEN sentence.id ELSE 0
<1>0. /\ lastFinal \in Nat /\ r.id \in Nat /\ r.first \in BOOLEAN /\ r.final \in BOOLEAN
      /\ sentence \in [id : Nat, begin : Int, active : BOOLEAN]
      /\ UNCHANGED <<finishing, protocol>>
      /\ ~Stream!Over
  BY DEF TypeOK, Wellformed, Take, Over, EndKind, Stream!Over, Stream!EndKind
<1>1. CASE protocol = "paraformer" /\ Normalize(r)
  <2>1. CASE UNCHANGED <<sentence, lastFinal, next>>
    BY <1>0, <2>1 DEF Stream!stream
  <2>2. CASE next' = Plain("err") /\ UNCHANGED <<sentence, lastFinal>>
    <3>1. Stream!EndInError
      BY <1>0, <2>2 DEF Stream!EndInError, Stream!Plain, Plain, Stream!None
    <3> QED BY <1>0, <3>1 DEF Stream!Next
  <2>3. ASSUME NEW id \in Nat,
               id = (IF sentence.active THEN sentence.id ELSE sentence.id + 1),
               id = lastFinal + 1,
               sentence' = [id |-> id, begin |-> r.begin, active |-> ~r.final],
               lastFinal' = IF r.final THEN id ELSE lastFinal,
               next' = EventOf(r, id, ~sentence.active)
        PROVE  Stream!Next
    <3> DEFINE k == IF r.final THEN "final" ELSE "partial"
    <3>1. /\ next'.id = id /\ next' = [kind |-> k, id |-> id, first |-> ~sentence.active]
          /\ k \in {"partial", "final"}
      BY <2>3 DEF EventOf
    <3>2. openId = (IF sentence.active THEN id ELSE 0) /\ id # 0 /\ id > lastFinal
      BY <1>0, <2>3
    <3>3. openId' = (IF k = "partial" THEN id ELSE 0) /\ lastFinal' = (IF k = "final" THEN id ELSE lastFinal)
      BY <1>0, <2>3
    <3>4. ~sentence.active = (openId = 0) /\ (id = IF openId = 0 THEN lastFinal + 1 ELSE openId)
      BY <1>0, <2>3, <3>2
    <3>5. Stream!Result(id, ~sentence.active, k)
      <4> HIDE DEF k
      <4> QED BY <1>0, <1>1, <3>1, <3>2, <3>3, <3>4 DEF Stream!Result, Stream!None
    <3>6. (~sentence.active) \in BOOLEAN
      BY <1>0
    <3> QED BY <1>0, <3>1, <3>5, <3>6 DEF Stream!Next
  <2> QED BY <1>1, <2>1, <2>2, <2>3, ParaformerCases
<1>2. CASE protocol = "fun-asr" /\ Emit(r, r.id, r.first, r.end) /\ UNCHANGED sentence
  <2>1. ~sentence.active /\ ~sentence'.active
    BY <1>2 DEF Numbered
  <2>2. CASE UNCHANGED <<lastFinal, next>>
    BY <1>0, <1>2, <2>2 DEF Stream!stream
  <2>3. CASE /\ r.id > lastFinal
             /\ lastFinal' = IF r.final THEN r.id ELSE lastFinal
             /\ next' = EventOf(r, r.id, r.first)
    <3> DEFINE k == IF r.final THEN "final" ELSE "partial"
    <3>1. /\ next'.id = r.id /\ next' = [kind |-> k, id |-> r.id, first |-> r.first]
          /\ k \in {"partial", "final"}
      BY <2>3 DEF EventOf
    <3>2. lastFinal' = (IF k = "final" THEN r.id ELSE lastFinal)
      BY <2>3
    <3>3. Stream!Result(r.id, r.first, k)
      <4> HIDE DEF k
      <4> QED BY <1>0, <1>2, <2>1, <2>3, <3>1, <3>2 DEF Stream!Result, Stream!None
    <3> QED BY <1>0, <3>1, <3>3 DEF Stream!Next
  <2> QED BY <1>2, <2>2, <2>3, FunAsrCases
<1> QED BY <1>1, <1>2 DEF Take

-----------------------------------------------------------------------------
(* Types, Numbered and the refinement, over every step.                    *)

LEMMA InitInv == Init => TypeOK /\ Numbered
<1> SUFFICES ASSUME Init PROVE TypeOK /\ Numbered
  OBVIOUS
<1>1. 0 \in 0 .. Utterances
  BY Assumed
<1>2. next \in Emission
  BY PlainTypes DEF Init
<1>3. sentence \in [id : Nat, begin : Int, active : BOOLEAN] /\ lastFinal \in Nat
  BY DEF Init
<1>4. /\ protocol \in Protocols /\ orderly \in BOOLEAN
      /\ spoken \in 0 .. Utterances /\ settled \in 0 .. Utterances
      /\ finishing \in BOOLEAN /\ cut \in BOOLEAN
  BY <1>1 DEF Init
<1>5. TypeOK
  BY <1>2, <1>3, <1>4 DEF TypeOK, Emission
<1>6. Numbered
  BY DEF Init, Numbered
<1> QED BY <1>5, <1>6

\* What a result does to the variables of the reader.
LEMMA TakeFrame == ASSUME NEW r, Take(r) PROVE UNCHANGED <<finishing, cut>>
BY DEF Take

LEMMA StepInv == TypeOK /\ Numbered /\ [Next]_vars => TypeOK' /\ Numbered'
<1> SUFFICES ASSUME TypeOK, Numbered, [Next]_vars PROVE TypeOK' /\ Numbered'
  OBVIOUS
<1>0. next \in Emission
  BY DEF TypeOK, Emission
<1>1. ASSUME NEW u \in Utterance, Hear(u) PROVE TypeOK' /\ Numbered'
  <2>1. PICK r \in Results(u) : /\ Truthful(r) /\ Take(r)
                                /\ spoken' = IF u > spoken THEN u ELSE spoken
                                /\ settled' = IF r.final /\ u > settled THEN u ELSE settled
    BY <1>1 DEF Hear
  <2>2. UNCHANGED <<protocol, orderly, finishing, cut>>
    BY <1>1, <2>1, TakeFrame DEF Hear
  <2>3. /\ Numbered' /\ lastFinal' \in Nat /\ next' \in Emission
        /\ sentence' \in [id : Nat, begin : Int, active : BOOLEAN]
    BY <2>1, <2>2, ResultsWellformed, TakeNumbered
  <2>4. u \in 0 .. Utterances
    BY Assumed DEF Utterance
  <2>5. spoken' \in 0 .. Utterances /\ settled' \in 0 .. Utterances
    BY <2>1, <2>4 DEF TypeOK
  <2> QED BY <2>2, <2>3, <2>5 DEF TypeOK, Emission
<1>2. CASE Receive
  <2>1. PICK r \in Disorder : Take(r)
    BY <1>2 DEF Receive
  <2>2. UNCHANGED <<protocol, orderly, spoken, settled, finishing, cut>>
    BY <1>2, <2>1, TakeFrame DEF Receive, service
  <2>3. /\ Numbered' /\ lastFinal' \in Nat /\ next' \in Emission
        /\ sentence' \in [id : Nat, begin : Int, active : BOOLEAN]
    BY <2>1, <2>2, DisorderWellformed, TakeNumbered
  <2> QED BY <2>2, <2>3 DEF TypeOK, Emission
<1>3. CASE TaskFinished
  <2>1. next' \in Emission
    BY <1>3, PlainTypes DEF TaskFinished
  <2> QED BY <1>3, <2>1 DEF TaskFinished, service, TypeOK, Numbered, Emission
<1>4. CASE Lost
  <2>1. next' \in Emission
    BY <1>4, PlainTypes DEF Lost
  <2> QED BY <1>4, <2>1 DEF Lost, service, TypeOK, Numbered, Emission
<1>5. CASE Finish
  BY <1>5 DEF Finish, service, TypeOK, Numbered
<1>6. CASE UNCHANGED vars
  BY <1>6 DEF vars, service, TypeOK, Numbered
<1> QED BY <1>1, <1>2, <1>3, <1>4, <1>5, <1>6 DEF Next

\* Every sentence number, time stamp and event has its type in every state.
THEOREM ReaderTypes == Spec => []TypeOK
<1>1. Spec => [](TypeOK /\ Numbered)
  BY InitInv, StepInv, PTL DEF Spec
<1> QED BY <1>1, PTL

LEMMA InitRefines == Init => Stream!Init
BY DEF Init, Stream!Init, Stream!Plain, Stream!None, Plain

LEMMA StepRefines ==
  TypeOK /\ Numbered /\ [Next]_vars => [Stream!Next]_(Stream!stream)
<1> SUFFICES ASSUME TypeOK, Numbered, [Next]_vars
             PROVE  Stream!Next \/ UNCHANGED Stream!stream
  OBVIOUS
<1>1. ASSUME NEW u \in Utterance, Hear(u) PROVE Stream!Next \/ UNCHANGED Stream!stream
  <2>1. PICK r \in Results(u) : Take(r)
    BY <1>1 DEF Hear
  <2>2. ~Over /\ UNCHANGED protocol
    BY <1>1 DEF Hear
  <2> QED BY <2>1, <2>2, ResultsWellformed, TakeRefines
<1>2. CASE Receive
  <2>1. PICK r \in Disorder : Take(r)
    BY <1>2 DEF Receive
  <2>2. ~Over /\ UNCHANGED protocol
    BY <1>2 DEF Receive, service
  <2> QED BY <2>1, <2>2, DisorderWellformed, TakeRefines
<1>3. CASE TaskFinished
  <2>1. ~Stream!Over
    BY <1>3 DEF TaskFinished, Over, EndKind, Stream!Over, Stream!EndKind
  <2>2. CASE finishing /\ ~sentence.active
    <3>1. Stream!EndNormally
      BY <1>3, <2>2 DEF TaskFinished, service, Plain, Stream!EndNormally, Stream!Plain, Stream!None
    <3> QED BY <2>1, <3>1 DEF Stream!Next
  <2>3. CASE ~(finishing /\ ~sentence.active)
    <3>1. Stream!EndInError
      BY <1>3, <2>3 DEF TaskFinished, service, Plain, Stream!EndInError, Stream!Plain, Stream!None
    <3> QED BY <2>1, <3>1 DEF Stream!Next
  <2> QED BY <2>2, <2>3
<1>4. CASE Lost
  <2>1. ~Stream!Over
    BY <1>4 DEF Lost, Over, EndKind, Stream!Over, Stream!EndKind
  <2>2. Stream!EndInError
    BY <1>4 DEF Lost, service, Plain, Stream!EndInError, Stream!Plain, Stream!None
  <2> QED BY <2>1, <2>2 DEF Stream!Next
<1>5. CASE Finish
  <2>1. Stream!Finish
    BY <1>5 DEF Finish, service, Stream!Finish
  <2> QED BY <2>1 DEF Stream!Next
<1>6. CASE UNCHANGED vars
  BY <1>6 DEF vars, service, Stream!stream
<1> QED BY <1>1, <1>2, <1>3, <1>4, <1>5, <1>6 DEF Next

\* Whatever a Fun-ASR or Paraformer service sends, however long: nothing is
\* said of a sentence that is final, Paraformer's sentences are numbered one by
\* one, and the stream ends normally only with none of them open.
THEOREM ContractHolds == Spec => Contract
<1>1. Spec => [](TypeOK /\ Numbered)
  BY InitInv, StepInv, PTL DEF Spec
<1>2. TypeOK /\ Numbered /\ [Next]_vars => [Stream!Next]_(Stream!stream)
  BY StepRefines
<1>3. Init => Stream!Init
  BY InitRefines
<1> QED BY <1>1, <1>2, <1>3, PTL DEF Spec, Contract, Stream!Spec

-----------------------------------------------------------------------------
(* An orderly service.                                                     *)

Sentence(n) == [of |-> n, end |-> End[n]]
Sentences   == [of : Nat, end : Nat]

LEMMA HeardTypes ==
  ASSUME NEW k \in 0 .. Utterances
  PROVE  /\ Heard(k) \in Seq(Sentences) /\ Len(Heard(k)) = k
         /\ \A n \in 1 .. k : Heard(k)[n] = Sentence(n)
<1>1. k \in Nat /\ \A n \in 1 .. k : n \in Utterance /\ n \in Nat
  BY Assumed DEF Utterance
<1>2. \A n \in 1 .. k : Sentence(n) \in Sentences
  BY <1>1, Assumed DEF Sentence, Sentences
<1>3. Heard(k) = [n \in 1 .. k |-> Sentence(n)]
  BY DEF Heard, Sentence
<1>4. Heard(k) \in [1 .. k -> Sentences]
  BY <1>2, <1>3
<1>5. Heard(k) \in Seq(Sentences)
  BY <1>1, <1>4
<1>6. Len(Heard(k)) = k
  BY <1>1, <1>3
<1> QED BY <1>3, <1>5, <1>6

\* One more final sentence is one more utterance heard.
LEMMA HeardGrows ==
  ASSUME NEW n \in 0 .. Utterances, n + 1 \in Utterance
  PROVE  Append(Heard(n), Sentence(n + 1)) = Heard(n + 1)
<1>1. n \in Nat /\ n + 1 \in 0 .. Utterances
  BY Assumed DEF Utterance
<1>2. Sentence(n + 1) \in Sentences
  BY <1>1, Assumed DEF Sentence, Sentences
<1>3. /\ Heard(n) \in Seq(Sentences) /\ Len(Heard(n)) = n
      /\ \A i \in 1 .. n : Heard(n)[i] = Sentence(i)
  BY HeardTypes
<1>4. /\ Heard(n + 1) \in Seq(Sentences) /\ Len(Heard(n + 1)) = n + 1
      /\ \A i \in 1 .. n + 1 : Heard(n + 1)[i] = Sentence(i)
  BY <1>1, HeardTypes
<1> DEFINE t == Append(Heard(n), Sentence(n + 1))
<1>5. /\ t \in Seq(Sentences) /\ Len(t) = n + 1
      /\ \A i \in 1 .. n : t[i] = Sentence(i)
      /\ t[n + 1] = Sentence(n + 1)
  BY <1>2, <1>3, AppendProperties
<1>6. \A i \in 1 .. n + 1 : t[i] = Heard(n + 1)[i]
  BY <1>1, <1>4, <1>5
<1> HIDE DEF t
<1>7. t = Heard(n + 1)
  BY <1>4, <1>5, <1>6, SeqEqual
<1> QED BY <1>7 DEF t

\* The result r of utterance u, as the task of an orderly service takes it:
\* dropped if the utterance was finalised, and taken for that utterance if not.
Dropped(u) == u <= settled /\ UNCHANGED <<sentence, lastFinal, next, finals>>
Taken(u, r) ==
  /\ u = settled + 1
  /\ IF protocol = "paraformer"
     THEN sentence' = [id |-> u, begin |-> Begin[u], active |-> ~r.final]
     ELSE lastFinal' = IF r.final THEN u ELSE lastFinal
  /\ next'.kind # "err"
  /\ finals' = IF r.final THEN Append(finals, Sentence(u)) ELSE finals

LEMMA HearParaformer ==
  ASSUME TypeOK, Numbered, InStep, protocol = "paraformer",
         NEW u \in Utterance, u <= settled + 1,
         NEW r \in Results(u), Truthful(r), Normalize(r)
  PROVE  Dropped(u) \/ Taken(u, r)
<1>1. /\ Wellformed(r) /\ r.of = u /\ r.begin = Begin[u] /\ r.begin \in Nat /\ r.final \in BOOLEAN
  BY ResultsWellformed, Assumed DEF Wellformed
<1>2. /\ u \in 1 .. Utterances /\ u \in Nat /\ u > 0
      /\ spoken \in 0 .. Utterances /\ spoken \in Nat /\ settled \in Nat
      /\ settled <= spoken /\ spoken <= settled + 1
      /\ sentence.id = spoken /\ (sentence.active <=> spoken > settled)
      /\ spoken > 0 => sentence.begin = Begin[spoken]
  BY Assumed DEF TypeOK, InStep, Utterance
<1>3. spoken > 0 => spoken \in Utterance /\ Begin[spoken] \in Nat
  BY <1>2, Assumed DEF Utterance
<1>4. CASE u <= settled
  <2>1. spoken > 0 /\ sentence.begin = Begin[spoken] /\ u <= spoken
    BY <1>2, <1>4
  <2>2. Stale(r)
    <3>1. CASE u < spoken
      <4>1. Begin[u] < Begin[spoken]
        BY <1>2, <1>3, <3>1, Assumed
      <4> QED BY <1>1, <1>2, <2>1, <4>1 DEF Stale
    <3>2. CASE u = spoken
      <4>1. ~sentence.active
        BY <1>2, <1>4, <3>2
      <4> QED BY <1>1, <1>2, <2>1, <3>2, <4>1 DEF Stale
    <3> QED BY <1>2, <2>1, <3>1, <3>2
  <2>3. ~(r.begin < 0)
    BY <1>1
  <2>4. UNCHANGED <<sentence, lastFinal, next, finals>>
    BY <1>1, <2>2, <2>3, ParaformerCases
  <2> QED BY <1>4, <2>4 DEF Dropped
<1>5. CASE u = settled + 1
  <2>1. ~Stale(r) /\ (sentence.active => r.begin = sentence.begin)
        /\ u = (IF sentence.active THEN sentence.id ELSE sentence.id + 1)
    <3>1. CASE u = spoken
      <4>1. sentence.active /\ sentence.begin = Begin[u]
        BY <1>2, <1>5, <3>1
      <4> QED BY <1>1, <1>2, <3>1, <4>1 DEF Stale
    <3>2. CASE u > spoken
      <4>1. ~sentence.active /\ u = spoken + 1
        BY <1>2, <1>5, <3>2
      <4>2. sentence.id > 0 => sentence.begin < r.begin /\ sentence.begin \in Nat
        BY <1>1, <1>2, <1>3, <3>2, Assumed
      <4> QED BY <1>1, <1>2, <4>1, <4>2 DEF Stale
    <3> QED BY <1>2, <1>5, <3>1, <3>2
  <2>2. /\ sentence' = [id |-> u, begin |-> r.begin, active |-> ~r.final]
        /\ next' = EventOf(r, u, ~sentence.active)
        /\ finals' = IF r.final THEN Append(finals, [of |-> r.of, end |-> EndOf(r)]) ELSE finals
    BY <1>1, <2>1, ParaformerCases
  <2>3. next'.kind # "err"
    BY <2>2 DEF EventOf
  <2>4. r.final => [of |-> r.of, end |-> EndOf(r)] = Sentence(u)
    BY <1>1, EndRecovered DEF Sentence
  <2> QED BY <1>1, <1>5, <2>2, <2>3, <2>4 DEF Taken
<1> QED BY <1>2, <1>4, <1>5

LEMMA HearFunAsr ==
  ASSUME TypeOK, InStep, protocol = "fun-asr",
         NEW u \in Utterance, u <= settled + 1,
         NEW r \in Results(u), Truthful(r),
         Emit(r, r.id, r.first, r.end), UNCHANGED sentence
  PROVE  Dropped(u) \/ Taken(u, r)
<1>1. Wellformed(r) /\ r.of = u /\ r.id = u
  BY ResultsWellformed
<1>2. u \in Nat /\ settled \in Nat /\ lastFinal = settled
  BY Assumed DEF TypeOK, InStep, Utterance
<1>3. CASE r.id <= lastFinal /\ UNCHANGED <<lastFinal, next, finals>>
  BY <1>1, <1>2, <1>3 DEF Dropped
<1>4. CASE /\ r.id > lastFinal
           /\ lastFinal' = IF r.final THEN r.id ELSE lastFinal
           /\ next' = EventOf(r, r.id, r.first)
           /\ finals' = IF r.final THEN Append(finals, [of |-> r.of, end |-> r.end]) ELSE finals
  <2>1. u = settled + 1
    BY <1>1, <1>2, <1>4
  <2>2. next'.kind # "err"
    BY <1>4 DEF EventOf
  <2>3. r.final => [of |-> r.of, end |-> r.end] = Sentence(u)
    BY <1>1, EndRecovered DEF Sentence
  <2> QED BY <1>1, <1>4, <2>1, <2>2, <2>3 DEF Taken
<1> QED BY <1>1, <1>3, <1>4, FunAsrCases

LEMMA HearInStep ==
  ASSUME TypeOK, Numbered, orderly, InStep, NEW u \in Utterance, Hear(u)
  PROVE  InStep' /\ next'.kind # "err"
<1>1. PICK r \in Results(u) : /\ Truthful(r) /\ Take(r)
                              /\ spoken' = IF u > spoken THEN u ELSE spoken
                              /\ settled' = IF r.final /\ u > settled THEN u ELSE settled
  BY DEF Hear
<1>2. /\ u <= settled + 1 /\ next.kind # "err" /\ UNCHANGED protocol /\ r.final \in BOOLEAN
      /\ (protocol # "paraformer" => protocol = "fun-asr")
  BY <1>1, ResultsWellformed, Assumed DEF Hear, Over, EndKind, Wellformed, TypeOK
<1>3. Dropped(u) \/ Taken(u, r)
  BY <1>1, <1>2, HearParaformer, HearFunAsr DEF Take
<1>4. /\ u \in 1 .. Utterances /\ u \in Nat /\ settled \in 0 .. Utterances
      /\ spoken \in Nat /\ settled \in Nat /\ settled <= spoken /\ spoken <= settled + 1
      /\ finals = Heard(settled)
  BY Assumed DEF TypeOK, InStep, Utterance
<1>5. CASE Dropped(u)
  <2>1. UNCHANGED <<spoken, settled, sentence, lastFinal, next, finals>>
    BY <1>1, <1>4, <1>5 DEF Dropped
  <2> QED BY <1>2, <2>1 DEF InStep, Heard
<1>6. CASE Taken(u, r)
  <2>1. u = settled + 1 /\ spoken' = u /\ settled' = (IF r.final THEN u ELSE settled)
    BY <1>1, <1>4, <1>6 DEF Taken
  <2>2. settled' <= spoken' /\ spoken' <= settled' + 1
    BY <1>4, <2>1
  <2>3. finals' = Heard(settled')
    <3>1. CASE r.final
      BY <1>4, <1>6, <2>1, <3>1, HeardGrows DEF Taken, Utterance
    <3>2. CASE ~r.final
      BY <1>4, <1>6, <2>1, <3>2 DEF Taken
    <3> QED BY <3>1, <3>2
  <2>4. CASE protocol = "paraformer"
    <3>1. sentence' = [id |-> u, begin |-> Begin[u], active |-> ~r.final]
      BY <1>6, <2>4 DEF Taken
    <3>2. sentence'.id = spoken' /\ sentence'.begin = Begin[spoken'] /\ (sentence'.active <=> ~r.final)
      BY <2>1, <3>1
    <3>3. ~r.final <=> spoken' > settled'
      BY <1>2, <1>4, <2>1
    <3>4. sentence'.active <=> spoken' > settled'
      BY <3>2, <3>3
    <3> QED BY <1>2, <1>6, <2>2, <2>3, <2>4, <3>2, <3>4 DEF InStep, Heard, Taken
  <2>5. CASE protocol = "fun-asr"
    <3>1. lastFinal' = settled'
      BY <1>6, <2>1, <2>5 DEF Taken, InStep
    <3> QED BY <1>2, <1>6, <2>2, <2>3, <2>5, <3>1 DEF InStep, Heard, Taken
  <2> QED BY <1>2, <2>4, <2>5
<1> QED BY <1>3, <1>5, <1>6

Orderly == (orderly => InStep) /\ OrderlyAccepted

LEMMA InitOrderly == Init => Orderly
<1> SUFFICES ASSUME Init PROVE Orderly
  OBVIOUS
<1>1. next.kind # "err"
  BY DEF Init, Plain
<1>2. 1 .. 0 = {}
  OBVIOUS
<1>3. Heard(0) = <<>>
  BY HeardTypes, Assumed DEF Heard
<1>4. sentence.id = 0 /\ ~sentence.active
  BY DEF Init
<1>5. InStep
  BY <1>3, <1>4 DEF Init, InStep
<1> QED BY <1>1, <1>5 DEF Orderly, OrderlyAccepted

LEMMA StepOrderly == TypeOK /\ Numbered /\ Orderly /\ [Next]_vars => Orderly'
<1> SUFFICES ASSUME TypeOK, Numbered, Orderly, [Next]_vars PROVE Orderly'
  OBVIOUS
<1>0. InStep /\ UNCHANGED <<protocol, spoken, settled, sentence, lastFinal, finals>> => InStep'
  BY DEF InStep, Heard
<1>1. ASSUME NEW u \in Utterance, Hear(u) PROVE Orderly'
  BY <1>1, HearInStep DEF Orderly, OrderlyAccepted, Hear
<1>2. CASE Receive
  BY <1>2 DEF Receive, service, Orderly, OrderlyAccepted
<1>3. CASE TaskFinished
  <2>1. orderly => next'.kind = "finished"
    <3> SUFFICES ASSUME orderly PROVE next'.kind = "finished"
      OBVIOUS
    <3>1. finishing /\ spoken = settled /\ InStep
      BY <1>3 DEF TaskFinished, Orderly
    <3>2. ~sentence.active
      <4>1. CASE protocol = "paraformer"
        BY <3>1, <4>1 DEF InStep, TypeOK
      <4>2. CASE protocol # "paraformer"
        BY <4>2 DEF Numbered
      <4> QED BY <4>1, <4>2
    <3> QED BY <1>3, <3>1, <3>2 DEF TaskFinished, Plain
  <2> QED BY <1>0, <1>3, <2>1 DEF TaskFinished, service, Orderly, OrderlyAccepted
<1>4. CASE Lost
  BY <1>0, <1>4 DEF Lost, service, Orderly, OrderlyAccepted
<1>5. CASE Finish
  BY <1>0, <1>5 DEF Finish, service, Orderly, OrderlyAccepted
<1>6. CASE UNCHANGED vars
  BY <1>0, <1>6 DEF vars, service, Orderly, OrderlyAccepted
<1> QED BY <1>1, <1>2, <1>3, <1>4, <1>5, <1>6 DEF Next

LEMMA ReaderInvariant == Spec => []ReaderInv
<1>1. Init => TypeOK /\ Numbered /\ Orderly
  BY InitInv, InitOrderly
<1>2. (TypeOK /\ Numbered /\ Orderly) /\ [Next]_vars => (TypeOK /\ Numbered /\ Orderly)'
  BY StepInv, StepOrderly
<1>3. TypeOK /\ Numbered /\ Orderly => ReaderInv
  BY DEF ReaderInv, Orderly
<1> QED BY <1>1, <1>2, <1>3, PTL DEF Spec

\* However many utterances a task has, and however often an orderly service
\* repeats its results, each gives one final sentence, in order, with its end.
THEOREM SentencesOnce == Spec => []EachUtteranceOnce
<1>1. ReaderInv => EachUtteranceOnce
  BY DEF ReaderInv, InStep, EachUtteranceOnce
<1> QED BY <1>1, ReaderInvariant, PTL

\* No task of an orderly service fails unless it is lost.
THEOREM OrderlyTasksAccepted == Spec => []OrderlyAccepted
<1>1. ReaderInv => OrderlyAccepted
  BY DEF ReaderInv
<1> QED BY <1>1, ReaderInvariant, PTL

=============================================================================
