--------------------------- MODULE WsBridgeProofs ---------------------------
(***************************************************************************)
(* Proofs about WsBridge for every value of its constants: the type        *)
(* invariant, the order in which items are announced, the boundary of the  *)
(* audio a turn has consumed, the outcomes and texts of the items, the     *)
(* sentences of a turn, and the size of the queue of a turn that waits.    *)
(*                                                                         *)
(* The invariant IInv of WsBridge is inductive.  Its first part, types and *)
(* WellFormed, is preserved on its own; the second, OrderInv, follows from *)
(* what a step may change of a turn (the Effect and PublishOrder lemmas)   *)
(* and from the loop condition of drainOrderedEvents (Settle).             *)
(*                                                                         *)
(* The outcomes rest on DInv.  It relates, for each turn, the events that  *)
(* are still to be processed (StreamOf), the record of its items (the      *)
(* books) and what the client was told: Told is what a step may tell of an *)
(* item, TextOf that no chunk of a text is lost between task and turn.     *)
(* Every step leaves the books alone or is one of a single turn: StepKind. *)
(*                                                                         *)
(* The sentences (SentencesKept) rest on Spoken: what a turn has said and  *)
(* what is still coming to it add up to what its task has heard.           *)
(*                                                                         *)
(* That a turn waits for one that ends (WaitEnds) rests on EndsHeld: the   *)
(* end of a task is neither lost nor merged away before it is processed.   *)
(***************************************************************************)
EXTENDS WsBridgeInvariants, SequenceTheorems, WellFoundedInduction, TLAPS

DocType == [Item -> DocRecord]

-----------------------------------------------------------------------------
(* Types of the operators.                                                 *)

LEMMA ConstTypes ==
  /\ MaxTurns \in Nat /\ MaxIds \in Nat /\ MaxIds > 0 /\ MaxTurns > 0
  /\ Tail0 \in Uid /\ Ids \subseteq Uid /\ None \notin Uid
  /\ Turn \subseteq Nat /\ 0 \notin Turn
BY BridgeAssumption DEF Tail0, Uid, Ids, None, Turn

LEMMA TextConcat == \A a, b \in Text : a \o b \in Text
BY DEF Text

LEMMA DocTypes ==
  ASSUME NEW d \in DocType, NEW i, NEW x \in Text, NEW S
  PROVE  /\ Added(d, i) \in DocType
         /\ Delta(d, i, x) \in DocType
         /\ Completed(d, i, x) \in DocType
         /\ Failed(d, S) \in DocType
<1>1. ASSUME NEW r \in DocRecord
      PROVE  /\ [r EXCEPT !.st = "committed"] \in DocRecord
             /\ [r EXCEPT !.shown = @ \o x] \in DocRecord
             /\ [r EXCEPT !.st = "failed", !.ends = @ + 1] \in DocRecord
             /\ [r EXCEPT !.st = "completed", !.transcript = x, !.ends = @ + 1] \in DocRecord
  <2>1. r.ends + 1 \in Nat /\ r.shown \o x \in Text
    BY TextConcat DEF DocRecord
  <2> QED BY <2>1 DEF DocRecord
<1>2. Added(d, i) \in DocType
  BY <1>1 DEF Added, DocType
<1>3. Delta(d, i, x) \in DocType
  <2>1. CASE i \in Item
    BY <1>1, <2>1 DEF Delta, DocType
  <2>2. CASE i \notin Item
    BY <2>2 DEF Delta, DocType
  <2> QED BY <2>1, <2>2
<1>4. Completed(d, i, x) \in DocType
  <2>1. CASE i \in Item
    <3>1. Completed(d, i, x) = [d EXCEPT ![i] = [d[i] EXCEPT !.st = "completed", !.transcript = x, !.ends = @ + 1]]
      BY <2>1 DEF Completed, DocType, DocRecord
    <3> QED BY <1>1, <2>1, <3>1, ZenonT(30) DEF DocType
  <2>2. CASE i \notin Item
    BY <2>2 DEF Completed, DocType
  <2> QED BY <2>1, <2>2
<1>5. Failed(d, S) \in DocType
  BY <1>1 DEF Failed, DocType
<1> QED BY <1>2, <1>3, <1>4, <1>5

LEMMA NewTurnTyped ==
  ASSUME NEW m \in AllModes
  PROVE  /\ NewTurn(m) \in TurnRecord
         /\ [NewTurn(m) EXCEPT !.samples = 1] \in TurnRecord
         /\ ~NewTurn(m).delayed
         /\ \A u \in Ids : NewTurn(m).items[u].st = "absent"
<1>1. <<>> \in Text /\ <<>> \in Seq(Event)
  BY DEF Text
<1>2. NewTurn(m) \in TurnRecord
  BY <1>1 DEF NewTurn, TurnRecord, None
<1>3. [NewTurn(m) EXCEPT !.samples = 1] \in TurnRecord
  BY <1>2 DEF TurnRecord
<1> QED BY <1>2, <1>3 DEF NewTurn

-----------------------------------------------------------------------------
(* What an upstream event may change.                                      *)

\* A turn with its types, and the fact about it that WellFormed states.
GoodTurn(r) ==
  /\ r \in TurnRecord
  /\ r.delayed => r.committed /\ r.item \in Uid
  /\ \A u \in Ids : r.items[u].st = "open" => r.mode = "qwenVad"

\* The fields that decide about publication are the same, and so is the queue.
SameControl(r, t) ==
  /\ r.mode = t.mode /\ r.committed = t.committed /\ r.cleared = t.cleared
  /\ r.delayed = t.delayed /\ r.queued = t.queued /\ r.bytes = t.bytes

\* Turn k was given an event: it may go, change what does not decide about
\* publication, and announce one item if it is allowed to.
Effect(k) ==
  /\ (phase' = phase /\ cause' = cause) \/ End("upstream")
  /\ live' = live \/ (live' = live \ {k} /\ turn[k].committed)
  /\ turn' \in [Turn -> TurnRecord] /\ \A j \in Turn : GoodTurn(turn'[j])
  /\ \A j \in Turn \ {k} : turn'[j] = turn[j]
  /\ k \in live' => SameControl(turn'[k], turn[k])
  /\ up' \in [Turn -> TaskRecord] /\ \A j \in Turn : up'[j].finishing = up[j].finishing
  /\ doc' \in DocType
  /\ \/ commits' = commits
     \/ \E i \in Item : /\ i[1] = k /\ commits' = Append(commits, i) /\ k \in live'
                        /\ ~turn[k].committed \/ (turn[k].mode = "qwenVad" /\ ~turn[k].cleared)

LEMMA GoodTurns ==
  ASSUME TypeOK, WellFormed
  PROVE  \A k \in Turn : GoodTurn(turn[k])
BY DEF TypeOK, WellFormed, GoodTurn

LEMMA RejectEffect ==
  ASSUME TypeOK, WellFormed, NEW k, Reject \/ Ignore
  PROVE  Effect(k)
BY GoodTurns DEF Effect, Reject, Ignore, Continue, TypeOK, SameControl, DocType

\* One turn is replaced, by a good one with the same control fields.
LEMMA KeepGood ==
  ASSUME TypeOK, WellFormed, NEW k \in Turn, NEW r, GoodTurn(r),
         turn' = [turn EXCEPT ![k] = r]
  PROVE  /\ turn' \in [Turn -> TurnRecord] /\ \A j \in Turn : GoodTurn(turn'[j])
         /\ \A j \in Turn \ {k} : turn'[j] = turn[j]
         /\ turn'[k] = r
BY GoodTurns DEF TypeOK, GoodTurn

LEMMA ForgetEffect ==
  ASSUME TypeOK, WellFormed, NEW k \in Turn, Forget(k)
  PROVE  /\ live' = live \ {k}
         /\ turn' \in [Turn -> TurnRecord] /\ \A j \in Turn : GoodTurn(turn'[j])
         /\ \A j \in Turn \ {k} : turn'[j] = turn[j]
         /\ up' \in [Turn -> TaskRecord] /\ \A j \in Turn : up'[j].finishing = up[j].finishing
<1>1. GoodTurn(NewTurn("sentManual"))
  BY NewTurnTyped DEF GoodTurn, AllModes
<1>2. up' \in [Turn -> TaskRecord] /\ \A j \in Turn : up'[j].finishing = up[j].finishing
  BY ZenonT(30) DEF Forget, TypeOK, TaskRecord
<1> QED BY <1>1, <1>2, KeepGood DEF Forget

LEMMA BoundaryTyped ==
  ASSUME TypeOK, NEW k \in Turn, NEW t \in Int
  PROVE  Boundary(k, t) \in Nat
<1>1. turn[k].samples \in Nat /\ turn[k].consumed \in Nat
  BY DEF TypeOK, TurnRecord
<1> QED BY <1>1 DEF Boundary

LEMMA EventTypes ==
  ASSUME NEW e \in Event
  PROVE  /\ e.text \in Text /\ e.delta \in Text /\ e.time \in Int
         /\ e.kind \in ItemKind \cup SentenceKind => e.id \in Ids
<1>1. CASE e \in [kind : ItemKind \cup SentenceKind, id : Ids, time : Int,
                  delta : Text, text : Text]
  BY <1>1
<1>2. CASE e \in [kind : EndKind, id : {0}, time : {0}, delta : {<<>>}, text : {<<>>}]
  <2>1. /\ e.text = <<>> /\ e.delta = <<>> /\ e.time = 0
        /\ e.kind \notin ItemKind \cup SentenceKind
    BY <1>2 DEF ItemKind, SentenceKind, EndKind
  <2> QED BY <2>1 DEF Text
<1> QED BY <1>1, <1>2 DEF Event

LEMMA VadSentenceEffect ==
  ASSUME TypeOK, WellFormed, NEW k \in live, NEW e \in Event, e.id \in Ids,
         turn[k].mode = "sentVad", ~turn[k].committed, VadSentence(k, e)
  PROVE  Effect(k)
<1> DEFINE u == IF turn[k].item = None THEN e.id ELSE turn[k].item
           s == IF turn[k].item = None THEN e.id ELSE turn[k].sentence
<1>k. k \in Turn
  BY DEF TypeOK
<1>t. GoodTurn(turn[k]) /\ turn[k] \in TurnRecord
  BY <1>k, GoodTurns DEF GoodTurn
<1>u. u \in Uid /\ s \in Nat
  BY <1>t, ConstTypes DEF TurnRecord, Ids
<1>1. CASE Reject
  BY <1>1, <1>k, RejectEffect
<1>2. CASE /\ turn' = [turn EXCEPT ![k].item = u, ![k].sentence = s]
           /\ Continue
           /\ UNCHANGED <<live, up, commits, doc>>
  <2> DEFINE r == [turn[k] EXCEPT !.item = u, !.sentence = s]
  <2>1. GoodTurn(r) /\ SameControl(r, turn[k])
    BY <1>t, <1>u DEF GoodTurn, TurnRecord, SameControl
  <2>2. turn' = [turn EXCEPT ![k] = r]
    BY <1>2, <1>k DEF TypeOK, TurnRecord
  <2> HIDE DEF r
  <2> QED BY <1>2, <1>k, <2>1, <2>2, KeepGood DEF Effect, Continue, TypeOK, DocType
<1>3. CASE /\ e.time >= 0
           /\ turn' = [turn EXCEPT ![k].item = None, ![k].sentence = s,
                                   ![k].consumed = Boundary(k, e.time)]
           /\ commits' = Append(commits, <<k, u>>)
           /\ doc' = Completed(Delta(Added(doc, <<k, u>>), <<k, u>>, e.text), <<k, u>>, e.text)
           /\ Continue
           /\ UNCHANGED <<live, up>>
  <2> DEFINE r == [turn[k] EXCEPT !.item = None, !.sentence = s,
                                  !.consumed = Boundary(k, e.time)]
  <2>b. Boundary(k, e.time) \in Nat
    BY <1>k, EventTypes, BoundaryTyped
  <2>d. ~turn[k].delayed
    BY <1>t DEF GoodTurn
  <2>1. GoodTurn(r) /\ SameControl(r, turn[k])
    BY <1>t, <1>u, <2>b, <2>d DEF GoodTurn, TurnRecord, SameControl
  <2>2. turn' = [turn EXCEPT ![k] = r]
    BY <1>3, <1>k DEF TypeOK, TurnRecord
  <2>3. doc' \in DocType
    BY <1>3, EventTypes, DocTypes DEF TypeOK, DocType
  <2>4. <<k, u>> \in Item /\ <<k, u>>[1] = k
    BY <1>k, <1>u DEF Item
  <2> HIDE DEF r, u
  <2> QED BY <1>3, <1>k, <2>1, <2>2, <2>3, <2>4, KeepGood DEF Effect, Continue, TypeOK
<1> QED BY <1>1, <1>2, <1>3 DEF VadSentence

LEMMA TurnSentenceEffect ==
  ASSUME TypeOK, WellFormed, NEW k \in live, NEW e \in Event, TurnSentence(k, e)
  PROVE  Effect(k)
<1>k. k \in Turn
  BY DEF TypeOK
<1>t. GoodTurn(turn[k]) /\ turn[k] \in TurnRecord
  BY <1>k, GoodTurns DEF GoodTurn
<1>1. CASE Reject \/ Ignore
  BY <1>1, <1>k, RejectEffect
<1>2. CASE /\ turn' = [turn EXCEPT ![k].text = @ \o e.text]
           /\ doc' = IF turn[k].committed THEN Delta(doc, <<k, turn[k].item>>, e.text) ELSE doc
           /\ Continue
           /\ UNCHANGED <<live, up, commits>>
  <2> DEFINE r == [turn[k] EXCEPT !.text = @ \o e.text]
  <2>t. turn[k].text \o e.text \in Text
    BY <1>t, EventTypes, TextConcat DEF TurnRecord
  <2>1. GoodTurn(r) /\ SameControl(r, turn[k])
    BY <1>t, <2>t DEF GoodTurn, TurnRecord, SameControl
  <2>2. turn' = [turn EXCEPT ![k] = r]
    BY <1>2, <1>k DEF TypeOK, TurnRecord
  <2>3. doc' \in DocType
    BY <1>2, EventTypes, DocTypes DEF TypeOK, DocType
  <2> HIDE DEF r
  <2> QED BY <1>2, <1>k, <2>1, <2>2, <2>3, KeepGood DEF Effect, Continue, TypeOK
<1> QED BY <1>1, <1>2 DEF TurnSentence

LEMMA ProcessErrEffect ==
  ASSUME TypeOK, WellFormed, NEW k \in live, ProcessErr(k)
  PROVE  Effect(k)
<1>1. doc' \in DocType
  <2>1. <<>> \in Text /\ doc \in DocType
    BY DEF Text, TypeOK, DocType
  <2> QED BY <2>1, DocTypes DEF ProcessErr
<1> QED BY <1>1, GoodTurns DEF ProcessErr, Effect, TypeOK, SameControl

LEMMA ProcessFinishedEffect ==
  ASSUME TypeOK, WellFormed, NEW k \in live, ProcessFinished(k)
  PROVE  Effect(k)
<1>k. k \in Turn
  BY DEF TypeOK
<1>1. CASE Reject
  BY <1>1, <1>k, RejectEffect
<1>2. CASE /\ turn[k].committed
           /\ doc' = IF ~IsQwen(turn[k].mode) /\ turn[k].item # None
                     THEN Completed(doc, <<k, turn[k].item>>, turn[k].text)
                     ELSE doc
           /\ Forget(k) /\ Continue
           /\ UNCHANGED commits
  <2>1. doc' \in DocType
    BY <1>2, <1>k, DocTypes DEF TypeOK, DocType, TurnRecord
  <2> QED BY <1>2, <1>k, <2>1, ForgetEffect DEF Effect, Continue
<1> QED BY <1>1, <1>2 DEF ProcessFinished, FinishedEarly

\* A turn with one of its items replaced.
LEMMA ItemKept ==
  ASSUME NEW r, GoodTurn(r), NEW u \in Ids,
         NEW i \in [st : {"absent", "open", "committed", "done"}, text : Text],
         i.st = "open" => r.mode = "qwenVad"
  PROVE  /\ GoodTurn([r EXCEPT !.items[u] = i])
         /\ SameControl([r EXCEPT !.items[u] = i], r)
BY DEF GoodTurn, TurnRecord, SameControl

LEMMA QwenStageEffect ==
  ASSUME TypeOK, WellFormed, NEW k \in live, NEW e \in Event, e.id \in Ids,
         NEW t, GoodTurn(t), SameControl(t, turn[k]), ~t.cleared \/ t.items[e.id].st # "open",
         QwenStage(k, e, t)
  PROVE  Effect(k)
<1> DEFINE u == e.id
           i == <<k, IF t.mode = "qwenManual" THEN t.item ELSE u>>
           I == [st : {"absent", "open", "committed", "done"}, text : Text]
<1>k. k \in Turn
  BY DEF TypeOK
<1>t. t \in TurnRecord /\ t.items[u] \in I
  BY DEF GoodTurn, TurnRecord
<1>x. e.text \in Text /\ e.delta \in Text /\ <<>> \in Text
  BY EventTypes DEF Text
<1>keep. ASSUME NEW r, GoodTurn(r), SameControl(r, t), turn' = [turn EXCEPT ![k] = r],
                Continue, UNCHANGED <<live, up>>, doc' \in DocType,
                \/ commits' = commits
                \/ /\ commits' = Append(commits, i) /\ i \in Item
                   /\ t.mode = "qwenVad" /\ ~t.cleared
         PROVE  Effect(k)
  <2>1. SameControl(r, turn[k])
    BY <1>keep DEF SameControl
  <2>2. i[1] = k
    OBVIOUS
  <2>3. turn[k].mode = t.mode /\ turn[k].cleared = t.cleared
    BY DEF SameControl
  <2> HIDE DEF i
  <2> QED BY <1>keep, <1>k, <2>1, <2>2, <2>3, KeepGood DEF Effect, Continue, TypeOK
<1>r. SameControl(t, t)
  BY DEF SameControl
<1>d. doc \in DocType
  BY DEF TypeOK, DocType
<1>1. CASE /\ e.kind = "started" \/ (e.kind = "committed" /\ t.items[u].st = "committed")
           /\ turn' = [turn EXCEPT ![k] = t] /\ Continue /\ UNCHANGED <<live, up>>
           /\ UNCHANGED client
  BY <1>1, <1>keep, <1>r, <1>d DEF client
<1>2. CASE /\ turn' = [turn EXCEPT ![k] = [t EXCEPT !.consumed = Boundary(k, e.time)]]
           /\ Continue /\ UNCHANGED <<live, up>>
           /\ UNCHANGED client
  <2>1. Boundary(k, e.time) \in Nat
    BY <1>k, EventTypes, BoundaryTyped
  <2>2. GoodTurn([t EXCEPT !.consumed = Boundary(k, e.time)])
    BY <1>t, <2>1 DEF GoodTurn, TurnRecord
  <2>3. SameControl([t EXCEPT !.consumed = Boundary(k, e.time)], t)
    BY <1>t DEF SameControl, TurnRecord
  <2> QED BY <1>2, <2>2, <2>3, <1>keep, <1>d DEF client
<1>3. CASE /\ t.items[u].st = "open"
           /\ turn' = [turn EXCEPT ![k] = [t EXCEPT !.items[u].st = "committed"]]
           /\ Continue /\ UNCHANGED <<live, up>>
           /\ CommitItem(i, t.items[u].text)
  <2> DEFINE r == [t EXCEPT !.items[u] = [st |-> "committed", text |-> t.items[u].text]]
  <2>1. [t EXCEPT !.items[u].st = "committed"] = r
    <3>1. [t.items[u] EXCEPT !.st = "committed"] = [st |-> "committed", text |-> t.items[u].text]
      BY <1>t
    <3> QED BY <3>1
  <2>2. GoodTurn(r) /\ SameControl(r, t)
    BY <1>t, ItemKept
  <2>3. t.mode = "qwenVad" /\ ~t.cleared
    BY <1>3 DEF GoodTurn
  <2>4. i \in Item
    BY <2>3, <1>k, ConstTypes DEF Item
  <2>5. doc' \in DocType
    BY <1>3, <1>t, <1>d, DocTypes DEF CommitItem
  <2> HIDE DEF r, i
  <2> QED BY <1>3, <2>1, <2>2, <2>3, <2>4, <2>5, <1>keep DEF CommitItem
<1>4. CASE Reject
  BY <1>4, <1>k, RejectEffect
<1>5. CASE /\ turn' = [turn EXCEPT ![k] = [t EXCEPT !.items[u].text = e.text]]
           /\ Continue /\ UNCHANGED <<live, up>>
           /\ doc' = IF t.items[u].st = "committed" THEN Delta(doc, i, e.delta) ELSE doc
           /\ UNCHANGED commits
  <2> DEFINE r == [t EXCEPT !.items[u] = [st |-> t.items[u].st, text |-> e.text]]
  <2>1. [t EXCEPT !.items[u].text = e.text] = r
    <3>1. [t.items[u] EXCEPT !.text = e.text] = [st |-> t.items[u].st, text |-> e.text]
      BY <1>t
    <3> QED BY <3>1
  <2>2. GoodTurn(r) /\ SameControl(r, t)
    BY <1>t, <1>x, ItemKept DEF GoodTurn
  <2>3. doc' \in DocType
    BY <1>5, <1>d, <1>x, DocTypes
  <2> HIDE DEF r, i
  <2> QED BY <1>5, <2>1, <2>2, <2>3, <1>keep
<1>6. CASE /\ turn' = [turn EXCEPT ![k] = [t EXCEPT !.items[u] = [st |-> "done", text |-> <<>>]]]
           /\ Continue /\ UNCHANGED <<live, up>>
           /\ \/ doc' = Completed(Delta(doc, i, e.delta), i, e.text)
              \/ doc' = Failed(doc, {i})
           /\ UNCHANGED commits
  <2> DEFINE r == [t EXCEPT !.items[u] = [st |-> "done", text |-> <<>>]]
  <2>1. GoodTurn(r) /\ SameControl(r, t)
    BY <1>t, <1>x, ItemKept
  <2>2. doc' \in DocType
    BY <1>6, <1>d, <1>x, DocTypes
  <2> HIDE DEF i
  <2> QED BY <1>6, <2>1, <2>2, <1>keep
<1> QED
  BY <1>1, <1>2, <1>3, <1>4, <1>5, <1>6 DEF QwenStage

LEMMA QwenItemEffect ==
  ASSUME TypeOK, WellFormed, NEW k \in live, NEW e \in Event, e.id \in Ids,
         IsQwen(turn[k].mode), QwenItem(k, e)
  PROVE  Effect(k)
<1> DEFINE t == turn[k]
           st == t.items[e.id].st
           manual == t.mode = "qwenManual"
           opened == [t EXCEPT !.items[e.id].st = IF manual THEN "committed" ELSE "open",
                               !.bound = manual]
<1>k. k \in Turn
  BY DEF TypeOK
<1>t. GoodTurn(t) /\ t \in TurnRecord
  BY <1>k, GoodTurns DEF GoodTurn
<1>1. CASE Reject \/ Ignore
  BY <1>1, <1>k, RejectEffect
<1>2. CASE ~Dropped(t, st) /\ st = "absent" /\ QwenStage(k, e, opened)
  <2> DEFINE i == [st |-> IF manual THEN "committed" ELSE "open", text |-> t.items[e.id].text]
             r == [t EXCEPT !.items[e.id] = i]
  <2>1. GoodTurn(r) /\ SameControl(r, t)
    <3>1. i \in [st : {"absent", "open", "committed", "done"}, text : Text]
      BY <1>t DEF TurnRecord
    <3>2. i.st = "open" => t.mode = "qwenVad"
      BY DEF IsQwen
    <3> HIDE DEF i
    <3> QED BY <1>t, <3>1, <3>2, ItemKept
  <2>2. opened = [r EXCEPT !.bound = manual]
    <3>1. [t.items[e.id] EXCEPT !.st = IF manual THEN "committed" ELSE "open"] = i
      BY <1>t DEF TurnRecord
    <3>2. opened = [t EXCEPT !.items[e.id] = i, !.bound = manual]
      BY <3>1
    <3> QED BY <3>2, <1>t DEF TurnRecord
  <2>3. GoodTurn(opened) /\ SameControl(opened, t)
    <3> HIDE DEF r, opened
    <3>1. r \in TurnRecord /\ manual \in BOOLEAN
      BY <2>1 DEF GoodTurn
    <3>2. [r EXCEPT !.bound = manual] \in TurnRecord
      BY <3>1 DEF TurnRecord
    <3> QED BY <2>1, <2>2, <3>1, <3>2, SMTT(30) DEF GoodTurn, SameControl, TurnRecord
  <2>4. ~opened.cleared
    BY <1>2, <2>3 DEF Dropped, SameControl
  <2> HIDE DEF opened
  <2> QED BY <1>2, <2>3, <2>4, QwenStageEffect
<1>3. CASE ~Dropped(t, st) /\ st # "absent" /\ QwenStage(k, e, t)
  <2>1. ~t.cleared \/ st # "open"
    BY <1>3 DEF Dropped
  <2>2. SameControl(t, turn[k])
    BY DEF SameControl
  <2> QED BY <1>3, <1>t, <2>1, <2>2, QwenStageEffect
<1> QED BY <1>1, <1>2, <1>3 DEF QwenItem

LEMMA ProcessEffect ==
  ASSUME TypeOK, WellFormed, NEW k, NEW e \in Event, Process(k, e)
  PROVE  Effect(k)
<1>1. CASE k \notin live /\ Ignore
  BY <1>1, RejectEffect
<1>2. CASE k \in live /\ ProcessErr(k)
  BY <1>2, ProcessErrEffect
<1>3. CASE k \in live /\ ProcessFinished(k)
  BY <1>3, ProcessFinishedEffect
<1>4. CASE /\ k \in live /\ e.kind \in SentenceKind
           /\ turn[k].mode = "sentVad" /\ ~turn[k].committed /\ VadSentence(k, e)
  BY <1>4, EventTypes, VadSentenceEffect
<1>5. CASE k \in live /\ TurnSentence(k, e)
  BY <1>5, TurnSentenceEffect
<1>6. CASE k \in live /\ e.kind \in ItemKind /\ IsQwen(turn[k].mode) /\ QwenItem(k, e)
  BY <1>6, EventTypes, QwenItemEffect
<1> QED BY <1>1, <1>2, <1>3, <1>4, <1>5, <1>6 DEF Process

-----------------------------------------------------------------------------
(* TypeOK and WellFormed are preserved.                                    *)

Typed == TypeOK /\ WellFormed

LEMMA InitTyped == Init => Typed
<1> SUFFICES ASSUME Init PROVE Typed
  OBVIOUS
<1>1. NewTurn("sentManual") \in TurnRecord /\ GoodTurn(NewTurn("sentManual"))
  BY NewTurnTyped DEF GoodTurn, AllModes
<1>2. turn \in [Turn -> TurnRecord] /\ WellFormed
  BY <1>1 DEF Init, WellFormed, GoodTurn
<1>3. NoTask \in TaskRecord /\ NoDoc \in DocRecord
  BY DEF NoTask, TaskRecord, NoDoc, DocRecord, Text
<1>4. <<>> \in Seq([key : Turn, event : Event]) /\ Len(<<>>) <= InboxCap
      /\ <<>> \in Seq(Event) /\ <<>> \in Seq(Item)
  BY BridgeAssumption
<1>5. 0 \in 0 .. MaxTurns
  BY ConstTypes
<1> QED BY <1>2, <1>3, <1>4, <1>5 DEF Init, Typed, TypeOK

LEMMA ChunksTyped ==
  ASSUME NEW a \in Nat, NEW b \in Nat, a <= b
  PROVE  Chunks(a, b) \in Text
BY DEF Chunks, Text

LEMMA ForwardTyped ==
  ASSUME Typed, NEW k \in Turn, NEW e \in Event, Forward(k, e), up' \in [Turn -> TaskRecord]
  PROVE  Typed'
<1>1. [key |-> k, event |-> e] \in [key : Turn, event : Event]
  OBVIOUS
<1>2. inbox' \in Seq([key : Turn, event : Event]) /\ Len(inbox') = Len(inbox) + 1
  BY <1>1 DEF Forward, Typed, TypeOK
<1>3. Len(inbox') <= InboxCap
  BY <1>2, BridgeAssumption, SMTT(30) DEF Forward, Typed, TypeOK
<1> QED BY <1>2, <1>3 DEF Forward, Typed, TypeOK, WellFormed, loop, client

LEMMA EventsTyped ==
  /\ \A kind \in {"started", "committed", "failed", "partial"}, u \in Ids : Plain(kind, u) \in Event
  /\ \A kind \in {"stopped", "delta", "completed", "final"}, u \in Ids, t \in Int, x, y \in Text :
       Ev(kind, u, t, x, y) \in Event
  /\ Plain("finished", 0) \in Event /\ Plain("err", 0) \in Event
<1>1. <<>> \in Text
  BY DEF Text
<1> QED BY <1>1 DEF Plain, Ev, Event, ItemKind, SentenceKind, EndKind

LEMMA TaskTyped ==
  ASSUME Typed, NEW k \in Turn, Task(k)
  PROVE  Typed' /\ \A j \in Turn : up'[j].finishing = up[j].finishing
<1> DEFINE Same == \A j \in Turn : up'[j].finishing = up[j].finishing
<1>u. up \in [Turn -> TaskRecord] /\ up[k] \in TaskRecord
  BY DEF Typed, TypeOK
<1>x. <<>> \in Text /\ 0 \in Nat /\ 0 \in Int
  BY DEF Text
<1>1. CASE UpQwen(k)
  <2> PICK u \in Ids : \/ UpStage(k, u)
                       \/ \E n \in 0 .. MaxText, kind \in {"delta", "completed"} : UpText(k, u, n, kind)
                       \/ UpFailed(k, u)
    BY <1>1 DEF UpQwen
  <2>l. up[k].items[u].len \in Nat /\ up[k].items[u].done \in BOOLEAN
    BY <1>u DEF TaskRecord
  <2>1. CASE UpStage(k, u)
    <3>1. up' = up
      BY <2>1 DEF UpStage
    <3>2. \E e \in Event : Forward(k, e)
      <4>1. Times \subseteq Int
        BY BridgeAssumption
      <4> QED BY <2>1, <4>1, <1>x, EventsTyped DEF UpStage
    <3> QED BY <3>1, <3>2, <1>u, ForwardTyped
  <2>2. ASSUME NEW n \in 0 .. MaxText, NEW kind \in {"delta", "completed"}, UpText(k, u, n, kind)
        PROVE  Typed' /\ Same
    <3>1. n \in Nat /\ n >= up[k].items[u].len
      BY <2>2, BridgeAssumption DEF UpText
    <3>2. Chunks(up[k].items[u].len, n) \in Text /\ Chunks(0, n) \in Text
      BY <3>1, <2>l, ChunksTyped
    <3>3. up' \in [Turn -> TaskRecord] /\ Same
      <4>1. [len |-> n, done |-> kind = "completed"] \in [len : Nat, done : BOOLEAN]
        BY <3>1
      <4> QED BY <2>2, <4>1, <1>u DEF UpText, TaskRecord
    <3> QED BY <2>2, <3>2, <3>3, <1>x, ForwardTyped, EventsTyped DEF UpText
  <2>3. CASE UpFailed(k, u)
    <3> DEFINE i == [up[k].items[u] EXCEPT !.done = TRUE]
    <3>0. i \in [len : Nat, done : BOOLEAN]
      <4>1. up[k].items[u] \in [len : Nat, done : BOOLEAN]
        BY <1>u DEF TaskRecord
      <4> QED BY <4>1
    <3>2. up' = [up EXCEPT ![k].items[u] = i]
      BY <2>3 DEF UpFailed
    <3>1. up' \in [Turn -> TaskRecord] /\ Same
      <4> HIDE DEF i
      <4> QED BY <3>2, <3>0, <1>u DEF TaskRecord
    <3> QED BY <2>3, <3>1, ForwardTyped, EventsTyped DEF UpFailed
  <2> QED BY <2>1, <2>2, <2>3
<1>2. CASE UpSentence(k)
  <2> PICK u \in (up[k].lastFinal + 1) .. MaxIds :
         \/ /\ Forward(k, Plain("partial", u))
            /\ UNCHANGED up
         \/ \E t \in Times, x \in {<<>>, <<u>>} :
              /\ Forward(k, Ev("final", u, t, <<>>, x))
              /\ up' = [up EXCEPT ![k].lastFinal = u, ![k].heard = @ \o x]
    BY <1>2 DEF UpSentence
  <2>u. u \in Ids /\ u \in Nat
    BY <1>u, ConstTypes DEF Ids, TaskRecord
  <2>1. CASE Forward(k, Plain("partial", u)) /\ UNCHANGED up
    BY <2>1, <2>u, <1>u, ForwardTyped, EventsTyped
  <2>2. ASSUME NEW t \in Times, NEW x \in {<<>>, <<u>>}, Forward(k, Ev("final", u, t, <<>>, x)),
               up' = [up EXCEPT ![k].lastFinal = u, ![k].heard = @ \o x]
        PROVE  Typed' /\ Same
    <3>1. x \in Text /\ t \in Int
      <4>1. <<u>> \in Text /\ <<>> \in Text
        BY <2>u DEF Text
      <4>2. Times \subseteq Int
        BY BridgeAssumption
      <4> QED BY <4>1, <4>2, <2>2
    <3>2. up[k].heard \o x \in Text
      BY <3>1, <1>u, TextConcat DEF TaskRecord
    <3>3. up' \in [Turn -> TaskRecord] /\ Same
      BY <2>2, <2>u, <3>2, <1>u DEF TaskRecord
    <3> QED BY <2>2, <2>u, <3>1, <3>3, <1>x, ForwardTyped, EventsTyped
  <2> QED BY <2>1, <2>2
<1>3. CASE UpFinished(k) \/ UpErr(k)
  <2>1. up' \in [Turn -> TaskRecord] /\ Same
    <3>1. up' = [up EXCEPT ![k].over = TRUE]
      BY <1>3 DEF UpFinished, UpErr
    <3> QED BY <1>u, <3>1 DEF TaskRecord
  <2> QED BY <1>3, <2>1, ForwardTyped, EventsTyped DEF UpFinished, UpErr
<1> QED BY <1>1, <1>2, <1>3 DEF Task

LEMMA ServedTyped ==
  ASSUME Typed, Served, phase' \in {"running", "ended"}, cause' \in {"none", "client", "upstream"},
         settings' \in Modes \cup {"unset"}, live' \subseteq Turn, turnOrder' \in 0 .. MaxTurns,
         active' \in 0 .. MaxTurns, turn' \in [Turn -> TurnRecord],
         \A j \in Turn : GoodTurn(turn'[j]),
         commits' \in Seq(Item), doc' \in DocType, up' \in [Turn -> TaskRecord]
  PROVE  Typed'
BY DEF Served, Settle, Typed, TypeOK, WellFormed, GoodTurn, DocType

LEMMA EndsTyped ==
  ASSUME Typed, Continue \/ End("upstream") \/ End("client")
  PROVE  phase' \in {"running", "ended"} /\ cause' \in {"none", "client", "upstream"}
BY DEF Continue, End, Typed, TypeOK

LEMMA FinishTyped ==
  ASSUME Typed, NEW k \in Turn, Finish(k)
  PROVE  /\ up' \in [Turn -> TaskRecord] /\ active' \in 0 .. MaxTurns
         /\ Continue \/ End("upstream")
         /\ up'[k].finishing
         /\ \A j \in Turn \ {k} : up'[j].finishing = up[j].finishing
<1>1. 0 \in 0 .. MaxTurns
  BY ConstTypes
<1> QED BY <1>1, ZenonT(30) DEF Finish, Typed, TypeOK, TaskRecord

LEMMA CommitItemTyped ==
  ASSUME Typed, NEW i \in Item, NEW x \in Text, CommitItem(i, x)
  PROVE  commits' \in Seq(Item) /\ doc' \in DocType
<1>1. commits \in Seq(Item) /\ doc \in DocType
  BY DEF Typed, TypeOK, DocType
<1>2. commits' \in Seq(Item)
  BY <1>1 DEF CommitItem
<1>3. doc' \in DocType
  BY <1>1, DocTypes DEF CommitItem
<1> QED BY <1>2, <1>3

LEMMA ActiveTurn ==
  ASSUME Typed
  PROVE  active \in live => active \in Turn
BY DEF Typed, TypeOK

LEMMA RefusedTyped ==
  ASSUME Typed, Refused PROVE Typed'
<1>1. \A j \in Turn : GoodTurn(turn[j])
  BY GoodTurns DEF Typed
<1> QED BY <1>1, ServedTyped DEF Refused, Typed, TypeOK, client, DocType

LEMMA SessionUpdateTyped ==
  ASSUME Typed, SessionUpdate PROVE Typed'
<1>1. \A j \in Turn : GoodTurn(turn[j])
  BY GoodTurns DEF Typed
<1>2. phase' \in {"running", "ended"} /\ cause' \in {"none", "client", "upstream"}
  BY EndsTyped DEF SessionUpdate
<1>3. settings' \in Modes \cup {"unset"}
  BY DEF SessionUpdate, Typed, TypeOK
<1> QED BY <1>1, <1>2, <1>3, ServedTyped DEF SessionUpdate, Typed, TypeOK, client, DocType

LEMMA AppendMoreTyped ==
  ASSUME Typed, AppendMore PROVE Typed'
<1>k. active \in Turn
  BY ActiveTurn DEF AppendMore
<1>1. phase' \in {"running", "ended"} /\ cause' \in {"none", "client", "upstream"}
  BY EndsTyped DEF AppendMore
<1>g. GoodTurn(turn[active]) /\ turn[active] \in TurnRecord
  BY <1>k, GoodTurns DEF Typed, GoodTurn
<1> DEFINE r == [turn[active] EXCEPT !.samples = @ + 1]
<1>2. GoodTurn(r)
  <2>1. turn[active].samples + 1 \in Nat
    BY <1>g DEF TurnRecord
  <2>2. r \in TurnRecord
    BY <1>g, <2>1 DEF TurnRecord
  <2> QED BY <2>2, <1>g DEF GoodTurn, TurnRecord
<1>3. turn' \in [Turn -> TurnRecord] /\ \A j \in Turn : GoodTurn(turn'[j])
  <2>1. turn' = [turn EXCEPT ![active] = r]
    BY <1>k DEF AppendMore, Typed, TypeOK
  <2> HIDE DEF r
  <2> QED BY <1>k, <1>2, <2>1, KeepGood DEF Typed
<1> QED BY <1>1, <1>3, ServedTyped DEF AppendMore, Typed, TypeOK, client, DocType

LEMMA AppendFirstTyped ==
  ASSUME Typed, AppendFirst PROVE Typed'
<1>1. phase' \in {"running", "ended"} /\ cause' \in {"none", "client", "upstream"}
  BY EndsTyped DEF AppendFirst
<1>2. CASE UNCHANGED <<live, turnOrder, active, turn, up>>
  <2>1. \A j \in Turn : GoodTurn(turn[j])
    BY GoodTurns DEF Typed
  <2> QED BY <1>1, <1>2, <2>1, ServedTyped DEF AppendFirst, Typed, TypeOK, client, DocType
<1>3. ASSUME NEW k, k = turnOrder + 1,
             turnOrder' = k /\ active' = k /\ live' = live \cup {k},
             turn' = [turn EXCEPT ![k] = [NewTurn(settings) EXCEPT !.samples = 1]],
             up' = [up EXCEPT ![k].started = TRUE, ![k].open = TRUE,
                              ![k].qwen = IsQwen(settings)]
      PROVE  Typed'
  <2>1. k \in Turn /\ k \in 0 .. MaxTurns
    BY <1>3, ConstTypes DEF AppendFirst, Turn, Typed, TypeOK
  <2>2. settings \in AllModes
    BY BridgeAssumption DEF AppendFirst, Typed, TypeOK
  <2>3. GoodTurn([NewTurn(settings) EXCEPT !.samples = 1])
    BY <2>2, NewTurnTyped DEF GoodTurn, NewTurn
  <2>4. turn' \in [Turn -> TurnRecord] /\ \A j \in Turn : GoodTurn(turn'[j])
    BY <1>3, <2>1, <2>3, KeepGood DEF Typed
  <2>5. up' \in [Turn -> TaskRecord]
    <3> DEFINE q == IsQwen(settings)
               r == [up[k] EXCEPT !.started = TRUE, !.open = TRUE, !.qwen = q]
    <3>1. q \in BOOLEAN
      BY DEF IsQwen
    <3>2. up' = [up EXCEPT ![k] = r]
      BY <1>3
    <3>3. up \in [Turn -> TaskRecord] /\ up[k] \in TaskRecord
      BY <2>1 DEF Typed, TypeOK
    <3> HIDE DEF q
    <3>4. r \in TaskRecord
      BY <3>1, <3>3 DEF TaskRecord
    <3> HIDE DEF r
    <3> QED BY <3>2, <3>3, <3>4
  <2> QED BY <1>1, <1>3, <2>1, <2>4, <2>5, ServedTyped DEF AppendFirst, Typed, TypeOK, client, DocType
<1> QED BY <1>2, <1>3 DEF AppendFirst

LEMMA CommitNameTyped ==
  ASSUME Typed, NEW k \in Turn
  PROVE  /\ CommitName(k) \in {None} \cup Uid
         /\ turn[k].mode # "qwenVad" => CommitName(k) \in Uid
<1>1. turn[k].item \in {None} \cup Uid
  BY DEF Typed, TypeOK, TurnRecord
<1> QED BY <1>1, ConstTypes DEF CommitName

LEMMA CommitTyped ==
  ASSUME Typed, Commit PROVE Typed'
<1>k. active \in Turn
  BY ActiveTurn DEF Commit, Committable
<1>g. GoodTurn(turn[active]) /\ turn[active] \in TurnRecord
  BY <1>k, GoodTurns DEF Typed, GoodTurn
<1>f. up' \in [Turn -> TaskRecord] /\ active' \in 0 .. MaxTurns /\ (Continue \/ End("upstream"))
  BY <1>k, FinishTyped DEF Commit
<1> DEFINE n == CommitName(active)
           d == Delays(active)
           r == [turn[active] EXCEPT !.committed = TRUE, !.item = n, !.delayed = d]
<1>n. n \in {None} \cup Uid /\ (turn[active].mode # "qwenVad" => n \in Uid)
  BY <1>k, CommitNameTyped
<1>d. d \in BOOLEAN /\ (d => turn[active].mode # "qwenVad")
  BY DEF Delays, Blocked
<1>c. turn' = [turn EXCEPT ![active] = r]
  BY <1>k DEF Commit, Typed, TypeOK
<1>i. d \/ turn[active].mode = "qwenVad" \/ CommitItem(<<active, n>>, turn[active].text)
  BY DEF Commit
<1>u. d \/ turn[active].mode = "qwenVad" => UNCHANGED client
  BY DEF Commit
<1> HIDE DEF n, d
<1>2. r \in TurnRecord
  BY <1>g, <1>n, <1>d DEF TurnRecord
<1>3. GoodTurn(r)
  BY <1>2, <1>g, <1>n, <1>d DEF GoodTurn, TurnRecord
<1>4. turn' \in [Turn -> TurnRecord] /\ \A j \in Turn : GoodTurn(turn'[j])
  <2> HIDE DEF r
  <2> QED BY <1>k, <1>3, <1>c, KeepGood DEF Typed
<1>5. commits' \in Seq(Item) /\ doc' \in DocType
  <2>1. CASE d \/ turn[active].mode = "qwenVad"
    BY <2>1, <1>u DEF client, Typed, TypeOK, DocType
  <2>2. CASE turn[active].mode # "qwenVad" /\ CommitItem(<<active, n>>, turn[active].text)
    <3>1. <<active, n>> \in Item /\ turn[active].text \in Text
      BY <2>2, <1>k, <1>n, <1>g DEF Item, TurnRecord
    <3> QED BY <2>2, <3>1, CommitItemTyped
  <2> QED BY <2>1, <2>2, <1>i
<1> QED BY <1>f, <1>4, <1>5, EndsTyped, ServedTyped DEF Commit, Typed, TypeOK

LEMMA ClearTyped ==
  ASSUME Typed, Clear PROVE Typed'
<1>0. doc' \in DocType /\ commits' \in Seq(Item)
  BY DEF Clear, client, Typed, TypeOK, DocType
<1>g. \A j \in Turn : GoodTurn(turn[j])
  BY GoodTurns DEF Typed
<1>z. 0 \in 0 .. MaxTurns
  BY ConstTypes
<1>1. CASE Continue /\ UNCHANGED <<live, active, turn, up>>
  BY <1>0, <1>1, <1>g, EndsTyped, ServedTyped DEF Clear, Typed, TypeOK
<1>2. CASE /\ active \in live
           /\ turn' = [turn EXCEPT ![active].cleared = TRUE, ![active].committed = TRUE]
           /\ Finish(active)
           /\ UNCHANGED live
  <2> DEFINE r == [turn[active] EXCEPT !.cleared = TRUE, !.committed = TRUE]
  <2>k. active \in Turn
    BY <1>2, ActiveTurn
  <2>1. r \in TurnRecord
    <3>1. turn[active] \in TurnRecord
      BY <2>k DEF Typed, TypeOK
    <3> QED BY <3>1 DEF TurnRecord
  <2>2. GoodTurn(r)
    BY <2>1, <2>k, <1>g DEF GoodTurn, TurnRecord
  <2>3. turn' = [turn EXCEPT ![active] = r]
    BY <1>2, <2>k DEF Typed, TypeOK
  <2>4. turn' \in [Turn -> TurnRecord] /\ \A j \in Turn : GoodTurn(turn'[j])
    <3> HIDE DEF r
    <3> QED BY <2>k, <2>2, <2>3, KeepGood DEF Typed
  <2>5. up' \in [Turn -> TaskRecord] /\ active' \in 0 .. MaxTurns /\ (Continue \/ End("upstream"))
    BY <1>2, <2>k, FinishTyped
  <2> QED BY <1>0, <1>2, <2>4, <2>5, EndsTyped, ServedTyped DEF Clear, Typed, TypeOK
<1>3. CASE active \in live /\ Forget(active) /\ active' = 0 /\ Continue
  <2>1. active \in Turn
    BY <1>3, ActiveTurn
  <2>2. /\ live' \subseteq Turn
        /\ turn' \in [Turn -> TurnRecord] /\ \A j \in Turn : GoodTurn(turn'[j])
        /\ up' \in [Turn -> TaskRecord]
    BY <1>3, <2>1, ForgetEffect DEF Typed, TypeOK
  <2> QED BY <1>0, <1>3, <1>z, <2>2, EndsTyped, ServedTyped DEF Clear, Typed, TypeOK
<1> QED BY <1>1, <1>2, <1>3 DEF Clear

LEMMA EffectTyped ==
  ASSUME Typed, NEW k \in Turn, Effect(k),
         settings' = settings, turnOrder' = turnOrder, active' = active,
         inbox' \in Seq([key : Turn, event : Event]), Len(inbox') <= InboxCap,
         cur' \in 0 .. MaxTurns, batch' \in Seq(Event), Settle \/ (pc' = pc /\ batch' = batch)
  PROVE  Typed'
<1>1. phase' \in {"running", "ended"} /\ cause' \in {"none", "client", "upstream"}
  BY EndsTyped DEF Effect, Continue, Typed, TypeOK
<1>2. pc' \in {"select", "drain", "replay"} /\ (pc' = "replay" <=> batch' # <<>>)
  BY DEF Settle, Typed, TypeOK, WellFormed
<1>3. live' \subseteq Turn
  BY DEF Effect, Typed, TypeOK
<1>4. commits' \in Seq(Item)
  <2>1. commits \in Seq(Item)
    BY DEF Typed, TypeOK
  <2>2. commits' = commits \/ \E i \in Item : commits' = Append(commits, i)
    BY DEF Effect
  <2>3. \A i \in Item : Append(commits, i) \in Seq(Item)
    BY <2>1
  <2> QED BY <2>1, <2>2, <2>3
<1>5. doc' \in [Item -> DocRecord] /\ up' \in [Turn -> TaskRecord]
  BY DEF Effect, DocType
<1>6. turn' \in [Turn -> TurnRecord] /\ \A j \in Turn : GoodTurn(turn'[j])
  BY DEF Effect
<1>7. TypeOK'
  BY <1>1, <1>2, <1>3, <1>4, <1>5, <1>6 DEF Typed, TypeOK
<1> QED BY <1>2, <1>6, <1>7 DEF Typed, WellFormed, GoodTurn

\* The loop publishes an event: from the inbox, or from the replayed queue.
LEMMA ReplayTyped ==
  ASSUME Typed, Replay
  PROVE  Typed' /\ Effect(cur)
<1>1. Head(batch) \in Event /\ Tail(batch) \in Seq(Event)
  BY DEF Replay, Typed, TypeOK, WellFormed
<1>2. Effect(cur)
  BY <1>1, ProcessEffect DEF Replay, Typed
<1>3. cur' \in 0 .. MaxTurns
  BY ConstTypes DEF Replay, Typed, TypeOK
<1>4. inbox' \in Seq([key : Turn, event : Event]) /\ Len(inbox') <= InboxCap
  BY DEF Replay, Typed, TypeOK
<1>5. CASE cur \in Turn
  BY <1>1, <1>2, <1>3, <1>4, <1>5, EffectTyped DEF Replay
<1>6. CASE cur \notin Turn
  <2>1. Ignore
    BY <1>6 DEF Process, Replay, Typed, TypeOK
  <2>2. 1 \in Turn
    BY ConstTypes DEF Turn
  <2>3. Effect(1)
    BY <2>1, RejectEffect DEF Typed
  <2> QED BY <1>1, <1>2, <1>3, <1>4, <2>2, <2>3, EffectTyped DEF Replay
<1> QED BY <1>5, <1>6

\* The two outcomes of an event for a turn that waits.
LEMMA EnqueueTyped ==
  ASSUME NEW q \in Seq(Event), NEW e \in Event
  PROVE  LET w == Enqueue(q, e)
         IN  w.queue \in Seq(Event) /\ w.event \in Event /\ w.freed \in Int
<1> DEFINE n == Len(q)
           merge == n > 0 /\ e.kind = "delta" /\ q[n].kind = "delta" /\ q[n].id = e.id
           f == [e EXCEPT !.delta = q[n].delta \o @]
<1>1. CASE ~merge
  BY <1>1 DEF Enqueue
<1>2. CASE merge
  <2>1. q[n] \in Event
    BY <1>2
  <2>2. q[n].delta \o e.delta \in Text
    BY <2>1, EventTypes, TextConcat
  <2>3. e \in [kind : ItemKind \cup SentenceKind, id : Ids, time : Int, delta : Text, text : Text]
    BY <1>2 DEF Event, EndKind
  <2>4. f \in Event
    BY <2>2, <2>3 DEF Event
  <2>5. SubSeq(q, 1, n - 1) \in Seq(Event)
    BY <1>2
  <2>6. Size(q[n]) \in Int
    BY <2>1, EventTypes DEF Size, Text
  <2>7. Enqueue(q, e) = [queue |-> SubSeq(q, 1, n - 1), freed |-> Size(q[n]), event |-> f]
    BY <1>2 DEF Enqueue
  <2> HIDE DEF f
  <2> QED BY <2>4, <2>5, <2>6, <2>7
<1> QED BY <1>1, <1>2

LEMMA HoldTyped ==
  ASSUME Typed, NEW k \in live, NEW e \in Event, Hold(k, e),
         inbox' \in Seq([key : Turn, event : Event]), Len(inbox') <= InboxCap,
         UNCHANGED <<settings, turnOrder, active, cur, batch, pc>>
  PROVE  /\ Typed'
         /\ Reject \/ (Continue /\ UNCHANGED <<live, up, client>>)
         /\ \A j \in Turn : /\ turn'[j].mode = turn[j].mode /\ turn'[j].committed = turn[j].committed
                            /\ turn'[j].cleared = turn[j].cleared /\ turn'[j].delayed = turn[j].delayed
                            /\ j # k => turn'[j] = turn[j]
<1>k. k \in Turn
  BY DEF Typed, TypeOK
<1>g. GoodTurn(turn[k]) /\ turn[k] \in TurnRecord
  BY <1>k, GoodTurns DEF Typed, GoodTurn
<1>1. CASE Reject
  <2>1. Effect(k)
    BY <1>1, RejectEffect DEF Typed
  <2>2. batch' \in Seq(Event) /\ cur' \in 0 .. MaxTurns
    BY DEF Typed, TypeOK
  <2>3. Typed'
    BY <1>k, <2>1, <2>2, EffectTyped
  <2> QED BY <1>1, <2>3 DEF Reject
<1> DEFINE w == Enqueue(turn[k].queued, e)
           b == turn[k].bytes - w.freed + Size(w.event)
           q == Append(w.queue, w.event)
           r == [turn[k] EXCEPT !.queued = q, !.bytes = b]
<1>2. CASE /\ turn' = [turn EXCEPT ![k].queued = q, ![k].bytes = b]
           /\ Continue
           /\ UNCHANGED <<live, up, client>>
  <2>1. w.queue \in Seq(Event) /\ w.event \in Event /\ w.freed \in Int
    BY <1>g, EnqueueTyped DEF TurnRecord
  <2>2. turn' = [turn EXCEPT ![k] = r]
    BY <1>2, <1>k DEF Typed, TypeOK
  <2> HIDE DEF w
  <2>3. q \in Seq(Event)
    BY <2>1
  <2>4. b \in Int
    <3>1. Size(w.event) \in Int /\ turn[k].bytes \in Int
      BY <2>1, <1>g, EventTypes DEF Size, Text, TurnRecord
    <3> QED BY <2>1, <3>1
  <2> HIDE DEF q, b
  <2>5. r \in TurnRecord /\ GoodTurn(r)
    <3>1. r \in TurnRecord
      BY <1>g, <2>3, <2>4 DEF TurnRecord
    <3> QED BY <1>g, <3>1 DEF GoodTurn, TurnRecord
  <2>6. /\ r.mode = turn[k].mode /\ r.committed = turn[k].committed
        /\ r.cleared = turn[k].cleared /\ r.delayed = turn[k].delayed
    BY <1>g DEF TurnRecord
  <2> HIDE DEF r
  <2>7. /\ turn' \in [Turn -> TurnRecord] /\ \A j \in Turn : GoodTurn(turn'[j])
        /\ \A j \in Turn \ {k} : turn'[j] = turn[j]
        /\ turn'[k] = r
    BY <1>k, <2>2, <2>5, KeepGood DEF Typed
  <2>8. Typed'
    BY <1>2, <2>7 DEF Typed, TypeOK, WellFormed, GoodTurn, Continue, client
  <2> QED BY <1>2, <2>6, <2>7, <2>8
<1> QED BY <1>1, <1>2 DEF Hold

LEMMA HeadTail ==
  ASSUME NEW S, NEW s \in Seq(S), s # <<>>
  PROVE  Head(s) \in S /\ Tail(s) \in Seq(S) /\ Len(Tail(s)) <= Len(s) /\ Len(s) \in Nat
                       /\ Len(Tail(s)) \in Nat
OBVIOUS

LEMMA UpstreamParts ==
  ASSUME Typed, Upstream
  PROVE  /\ Typed'
         /\ \E k \in Turn, e \in Event :
              /\ UNCHANGED <<settings, turnOrder, active, cur, batch>>
              /\ \/ k \notin live /\ Ignore /\ UNCHANGED pc
                 \/ k \in live /\ Blocked(k) /\ Hold(k, e) /\ UNCHANGED pc
                 \/ k \in live /\ ~Blocked(k) /\ Effect(k) /\ Settle
<1> DEFINE k == Head(inbox).key
           e == Head(inbox).event
<1>0. inbox \in Seq([key : Turn, event : Event]) /\ inbox # <<>> /\ inbox' = Tail(inbox)
      /\ Len(inbox) <= InboxCap /\ InboxCap \in Nat
  BY BridgeAssumption DEF Upstream, Typed, TypeOK
<1>1. Head(inbox) \in [key : Turn, event : Event]
  BY <1>0, HeadTail
<1>2. k \in Turn /\ e \in Event
  BY <1>1
<1>3. inbox' \in Seq([key : Turn, event : Event]) /\ Len(inbox') <= InboxCap
  BY <1>0, HeadTail
<1>4. UNCHANGED <<settings, turnOrder, active, cur, batch>>
  BY DEF Upstream
<1>5. batch' \in Seq(Event) /\ cur' \in 0 .. MaxTurns
  BY <1>4 DEF Typed, TypeOK
<1>6. \/ k \notin live /\ Ignore /\ UNCHANGED pc
      \/ k \in live /\ Blocked(k) /\ Hold(k, e) /\ UNCHANGED pc
      \/ k \in live /\ ~Blocked(k) /\ Process(k, e) /\ Settle
  BY DEF Upstream
<1> HIDE DEF k, e
<1>7. CASE k \notin live /\ Ignore /\ UNCHANGED pc
  <2>1. Effect(k)
    BY <1>7, RejectEffect DEF Typed
  <2>2. Typed'
    BY <1>2, <1>3, <1>4, <1>5, <1>7, <2>1, EffectTyped
  <2> QED BY <1>2, <1>4, <1>7, <2>2
<1>8. CASE k \in live /\ Blocked(k) /\ Hold(k, e) /\ UNCHANGED pc
  <2>1. Typed'
    BY <1>2, <1>3, <1>4, <1>8, HoldTyped
  <2> QED BY <1>2, <1>4, <1>8, <2>1
<1>9. CASE k \in live /\ ~Blocked(k) /\ Process(k, e) /\ Settle
  <2>1. Effect(k)
    BY <1>2, <1>9, ProcessEffect DEF Typed
  <2>2. Typed'
    BY <1>2, <1>3, <1>4, <1>5, <1>9, <2>1, EffectTyped
  <2> QED BY <1>2, <1>4, <1>9, <2>1, <2>2
<1> QED BY <1>6, <1>7, <1>8, <1>9

LEMMA ReleasedKept ==
  ASSUME Typed, NEW k \in Turn, turn' = [turn EXCEPT ![k] = Released(@)]
  PROVE  /\ turn' \in [Turn -> TurnRecord] /\ \A j \in Turn : GoodTurn(turn'[j])
         /\ \A j \in Turn \ {k} : turn'[j] = turn[j]
         /\ turn'[k].mode = turn[k].mode /\ turn'[k].committed = turn[k].committed
         /\ turn'[k].cleared = turn[k].cleared
         /\ ~turn'[k].delayed /\ turn'[k].queued = <<>>
<1> DEFINE r == Released(turn[k])
<1>g. GoodTurn(turn[k]) /\ turn[k] \in TurnRecord
  BY GoodTurns DEF Typed, GoodTurn
<1>1. r \in TurnRecord
  <2>1. ASSUME NEW t \in TurnRecord, NEW d \in BOOLEAN, NEW q \in Seq(Event), NEW b \in Int
        PROVE  [t EXCEPT !.delayed = d, !.queued = q, !.bytes = b] \in TurnRecord
    BY <2>1 DEF TurnRecord
  <2>2. <<>> \in Seq(Event) /\ 0 \in Int /\ FALSE \in BOOLEAN
    OBVIOUS
  <2> QED BY <1>g, <2>1, <2>2 DEF Released
<1>2. /\ r.mode = turn[k].mode /\ r.committed = turn[k].committed
      /\ r.cleared = turn[k].cleared /\ ~r.delayed /\ r.queued = <<>>
      /\ r.items = turn[k].items
  BY <1>g DEF Released, TurnRecord
<1>3. turn' = [turn EXCEPT ![k] = r]
  BY DEF Typed, TypeOK
<1> HIDE DEF r
<1>4. GoodTurn(r)
  BY <1>1, <1>2, <1>g DEF GoodTurn
<1> QED BY <1>2, <1>3, <1>4, KeepGood DEF Typed

LEMMA DrainNextTyped ==
  ASSUME Typed, DrainNext PROVE Typed'
<1>1. PICK k \in Ready :
       /\ IF turn[k].delayed
          THEN CommitItem(<<k, turn[k].item>>, IF IsQwen(turn[k].mode) THEN <<>> ELSE turn[k].text)
          ELSE UNCHANGED client
       /\ batch' = turn[k].queued
       /\ cur' = IF batch' = <<>> THEN 0 ELSE k
       /\ turn' = [turn EXCEPT ![k] = Released(@)]
  BY DEF DrainNext
<1>k. k \in Turn
  BY DEF Ready, Typed, TypeOK
<1>2. commits' \in Seq(Item) /\ doc' \in DocType
  <2>1. CASE turn[k].delayed
    <3>1. <<k, turn[k].item>> \in Item
      BY <1>k, <2>1 DEF Typed, WellFormed, Item
    <3>2. (IF IsQwen(turn[k].mode) THEN <<>> ELSE turn[k].text) \in Text
      <4>1. turn[k].text \in Text /\ <<>> \in Text
        BY <1>k DEF Typed, TypeOK, TurnRecord, Text
      <4> QED BY <4>1
    <3> QED BY <1>1, <2>1, <3>1, <3>2, CommitItemTyped
  <2>2. CASE ~turn[k].delayed
    BY <1>1, <2>2 DEF client, Typed, TypeOK, DocType
  <2> QED BY <2>1, <2>2
<1>3. batch' \in Seq(Event) /\ cur' \in 0 .. MaxTurns
  <2>1. turn[k].queued \in Seq(Event)
    BY <1>k DEF Typed, TypeOK, TurnRecord
  <2> QED BY <1>1, <1>k, <2>1, ConstTypes DEF Turn
<1>4. turn' \in [Turn -> TurnRecord] /\ \A j \in Turn : GoodTurn(turn'[j])
  BY <1>1, <1>k, ReleasedKept
<1>5. pc' \in {"select", "drain", "replay"} /\ (pc' = "replay" <=> batch' # <<>>)
  BY DEF DrainNext, Settle
<1>6. UNCHANGED <<phase, cause, settings, live, turnOrder, active, inbox, up>>
  BY DEF DrainNext
<1>7. TypeOK'
  BY <1>2, <1>3, <1>4, <1>5, <1>6 DEF Typed, TypeOK, DocType
<1> QED BY <1>4, <1>5, <1>7 DEF Typed, WellFormed, GoodTurn

LEMMA DisconnectTyped ==
  ASSUME Typed, Disconnect PROVE Typed'
BY DEF Disconnect, End, client, Typed, TypeOK, WellFormed

LEMMA StutterTyped ==
  ASSUME Typed, UNCHANGED vars PROVE Typed'
BY DEF vars, Typed, TypeOK, WellFormed

LEMMA StepTyped == Typed /\ [Next]_vars => Typed'
<1> SUFFICES ASSUME Typed, [Next]_vars PROVE Typed'
  OBVIOUS
<1>1. CASE Loop
  BY <1>1, UpstreamParts, DrainNextTyped, ReplayTyped DEF Loop
<1>2. CASE Client
  BY <1>2, RefusedTyped, SessionUpdateTyped, AppendMoreTyped, AppendFirstTyped, CommitTyped,
     ClearTyped DEF Client
<1>3. CASE Disconnect
  BY <1>3, DisconnectTyped
<1>4. CASE Terminated \/ UNCHANGED vars
  BY <1>4, StutterTyped DEF Terminated
<1>5. CASE \E k \in Turn : Task(k)
  BY <1>5, TaskTyped
<1> QED BY <1>1, <1>2, <1>3, <1>4, <1>5 DEF Next

-----------------------------------------------------------------------------
\* The types of the session's state hold in every session, whatever the
\* limits of the code (the constants of handleRealtime and config).
THEOREM TypeCorrect == Spec => []TypeOK
<1>1. Init => Typed
  BY InitTyped
<1>2. Typed /\ [Next]_vars => Typed'
  BY StepTyped
<1>3. Typed => TypeOK
  BY DEF Typed
<1> QED BY <1>1, <1>2, <1>3, PTL DEF Spec

-----------------------------------------------------------------------------
(* The order of publication.                                               *)

\* What Blocked and Ready depend on is the same in the next state.
Steady ==
  /\ live' = live
  /\ \A j \in Turn : /\ turn'[j].mode = turn[j].mode /\ turn'[j].committed = turn[j].committed
                     /\ turn'[j].cleared = turn[j].cleared /\ turn'[j].delayed = turn[j].delayed

LEMMA BlockedUp ==
  ASSUME Typed, NEW j \in Turn, NEW k \in Turn, j <= k, Blocked(j)
  PROVE  Blocked(k)
<1>1. PICK e \in live : e < j /\ turn[e].mode = "qwenVad" /\ turn[e].committed /\ ~turn[e].cleared
  BY DEF Blocked
<1>2. e \in Nat /\ j \in Nat /\ k \in Nat
  BY ConstTypes DEF Typed, TypeOK
<1>3. e < k
  BY <1>1, <1>2
<1> QED BY <1>1, <1>3 DEF Blocked

LEMMA SteadyBlocked ==
  ASSUME Typed, Steady, NEW k
  PROVE  Blocked(k)' <=> Blocked(k)
<1>1. live \subseteq Turn
  BY DEF Typed, TypeOK
<1> QED BY <1>1 DEF Steady, Blocked

LEMMA AppendOrdered ==
  ASSUME Typed, OrderedCommits, NEW i \in Item, CommitsUpTo(i[1]),
         commits' = Append(commits, i)
  PROVE  OrderedCommits' /\ \A j \in Nat : i[1] <= j => CommitsUpTo(j)'
<1>1. commits \in Seq(Item)
  BY DEF Typed, TypeOK
<1>2. \A n \in 1 .. Len(commits) : commits[n] \in Item /\ commits[n][1] <= i[1]
  BY <1>1 DEF CommitsUpTo
<1>3. /\ Len(commits') = Len(commits) + 1 /\ Len(commits) \in Nat
      /\ \A n \in 1 .. Len(commits) : commits'[n] = commits[n]
      /\ commits'[Len(commits) + 1] = i
  BY <1>1
<1>4. \A x \in Item : x[1] \in Nat
  BY ConstTypes DEF Item
<1>5. OrderedCommits'
  <2> SUFFICES ASSUME NEW m \in 1 .. Len(commits'), NEW n \in 1 .. Len(commits'), m < n
               PROVE  commits'[m][1] <= commits'[n][1]
    BY DEF OrderedCommits
  <2>1. m \in 1 .. Len(commits)
    BY <1>3
  <2>2. CASE n \in 1 .. Len(commits)
    <3>1. commits[m][1] <= commits[n][1]
      BY <2>1, <2>2 DEF OrderedCommits
    <3> QED BY <1>3, <2>1, <2>2, <3>1
  <2>3. CASE n = Len(commits) + 1
    <3>1. commits'[m] = commits[m] /\ commits'[n] = i
      BY <1>3, <2>1, <2>3
    <3>2. commits[m][1] <= i[1]
      BY <1>2, <2>1
    <3> QED BY <3>1, <3>2
  <2> QED BY <1>3, <2>2, <2>3
<1>6. ASSUME NEW j \in Nat, i[1] <= j
      PROVE  CommitsUpTo(j)'
  <2> SUFFICES ASSUME NEW n \in 1 .. Len(commits')
               PROVE  commits'[n][1] <= j
    BY DEF CommitsUpTo
  <2>1. i[1] \in Nat
    BY <1>4
  <2>2. CASE n \in 1 .. Len(commits)
    <3>1. commits'[n] = commits[n] /\ commits[n][1] <= i[1] /\ commits[n][1] \in Nat
      BY <1>2, <1>3, <1>4, <2>2
    <3> QED BY <3>1, <2>1, <1>6
  <2>3. CASE n = Len(commits) + 1
    BY <1>3, <2>3, <1>6
  <2> QED BY <1>3, <2>2, <2>3
<1> QED BY <1>5, <1>6

LEMMA CommitsUp ==
  ASSUME Typed, NEW j \in Nat, NEW k \in Nat, j <= k, CommitsUpTo(j)
  PROVE  CommitsUpTo(k)
<1>1. \A n \in 1 .. Len(commits) : commits[n][1] \in Nat
  <2>1. commits \in Seq(Item)
    BY DEF Typed, TypeOK
  <2>2. \A x \in Item : x[1] \in Nat
    BY ConstTypes DEF Item
  <2> QED BY <2>1, <2>2
<1> QED BY <1>1 DEF CommitsUpTo

\* The core of the argument: when a turn that need not wait announces an item,
\* no earlier turn may still announce one.
LEMMA FirstToCommit ==
  ASSUME Typed, OrderInv, NEW k \in Turn, ~Blocked(k), \A j \in Ready : k <= j,
         NEW j \in live, MayCommit(j)
  PROVE  k <= j
<1>1. j \in Turn /\ j \in Nat /\ k \in Nat
  BY ConstTypes DEF Typed, TypeOK
<1> SUFFICES ASSUME j < k PROVE FALSE
  BY <1>1
<1>2. CASE turn[j].delayed
  <2>1. ~Blocked(j)
    BY <1>1, BlockedUp
  <2>2. j \in Ready
    BY <1>2, <2>1 DEF Ready, Waiting
  <2> QED BY <1>1, <2>2
<1>3. CASE turn[j].mode = "qwenVad" /\ turn[j].committed /\ ~turn[j].cleared
  BY <1>3 DEF Blocked
<1> QED BY <1>2, <1>3 DEF MayCommit

\* The same, for a session that is over: only what was announced counts.
LEMMA EndedOrder ==
  ASSUME OrderedCommits', phase' # "running"
  PROVE  OrderInv'
BY DEF OrderInv, OneBuffer

\* Publishing an event of a turn that need not wait keeps the order.
LEMMA PublishOrder ==
  ASSUME Typed, OrderInv, phase = "running", NEW k \in live, Effect(k), ~Blocked(k),
         \A j \in Ready : k <= j, UNCHANGED <<settings, turnOrder, active>>, Settle,
         batch' # <<>> => cur' = k
  PROVE  OrderInv'
<1>k. k \in Turn /\ k \in Nat /\ live \subseteq Turn /\ turnOrder \in Nat
  BY ConstTypes DEF Typed, TypeOK
<1>o. /\ OrderedCommits /\ OneBuffer /\ CommitsUpTo(turnOrder)
      /\ \A j \in live : j <= turnOrder
      /\ \A j \in live : MayCommit(j) => CommitsUpTo(j)
      /\ \A j \in Turn : j > turnOrder => ~up[j].finishing
  BY DEF OrderInv
<1>c. /\ live' \subseteq live
      /\ \A j \in live' : SameControl(turn'[j], turn[j])
      /\ \A j \in Turn : up'[j].finishing = up[j].finishing
  BY <1>k DEF Effect, SameControl
<1>1. \/ commits' = commits
      \/ \E i \in Item : i[1] = k /\ commits' = Append(commits, i) /\ CommitsUpTo(i[1])
  <2> SUFFICES ASSUME NEW i \in Item, i[1] = k,
                      ~turn[k].committed \/ (turn[k].mode = "qwenVad" /\ ~turn[k].cleared)
               PROVE  CommitsUpTo(k)
    BY DEF Effect
  <2>1. CASE ~turn[k].committed
    <3>1. k = turnOrder
      BY <2>1, <1>o, <1>k, ConstTypes DEF OneBuffer
    <3> QED BY <3>1, <1>o
  <2>2. CASE turn[k].committed /\ turn[k].mode = "qwenVad" /\ ~turn[k].cleared
    BY <2>2, <1>o DEF MayCommit
  <2> QED BY <2>1, <2>2
<1>2. OrderedCommits' /\ \A j \in Nat : k <= j /\ CommitsUpTo(j) => CommitsUpTo(j)'
  <2>1. CASE commits' = commits
    BY <2>1, <1>o DEF OrderedCommits, CommitsUpTo
  <2>2. CASE \E i \in Item : i[1] = k /\ commits' = Append(commits, i) /\ CommitsUpTo(i[1])
    BY <2>2, <1>o, AppendOrdered
  <2> QED BY <2>1, <2>2, <1>1
<1>3. CASE phase' # "running"
  BY <1>2, <1>3, EndedOrder
<1>4. CASE phase' = "running"
  <2>1. OneBuffer'
    <3>1. active # 0 => active \in live /\ active \in live'
      BY <1>o DEF OneBuffer, Effect
    <3> QED BY <1>c, <1>o, <1>k, <3>1 DEF OneBuffer, SameControl
  <2>2. NoneStranded'
    BY DEF NoneStranded, Settle
  <2>3. CommitsUpTo(turnOrder)'
    <3>1. CommitsUpTo(turnOrder') <=> CommitsUpTo(turnOrder)
      OBVIOUS
    <3>2. k <= turnOrder
      BY <1>o
    <3> QED BY <1>2, <1>k, <1>o, <3>2 DEF CommitsUpTo
  <2>4. \A j \in live' : MayCommit(j)' => CommitsUpTo(j)'
    <3> SUFFICES ASSUME NEW j \in live', MayCommit(j)' PROVE CommitsUpTo(j)'
      OBVIOUS
    <3>1. j \in live /\ j \in Nat
      BY <1>c, <1>k, ConstTypes
    <3>2. MayCommit(j)
      BY <1>c DEF MayCommit, SameControl
    <3>3. k <= j /\ CommitsUpTo(j)
      BY <1>k, <1>o, <3>1, <3>2, FirstToCommit
    <3> QED BY <1>2, <3>1, <3>3
  <2>5. \A j : Blocked(j)' => Blocked(j)
    BY <1>c DEF Blocked, SameControl
  <2>6. \A j \in Ready' : k <= j
    <3>0. \A j \in Ready' : j \in Nat
      BY <1>k, <1>c, ConstTypes DEF Ready
    <3> SUFFICES ASSUME NEW j \in Ready', j < k PROVE FALSE
      BY <1>k, <3>0
    <3>1. j \in live' /\ j \in live /\ j \in Turn
      BY <1>c, <1>k DEF Ready
    <3>2. Waiting(j)
      BY <1>c, <3>1 DEF Ready, Waiting, SameControl
    <3>3. ~Blocked(j)
      BY <1>k, <3>1, BlockedUp, ConstTypes
    <3>4. j \in Ready
      BY <3>1, <3>2, <3>3 DEF Ready
    <3> QED BY <3>1, <3>4, <1>k, ConstTypes
  <2>7. pc' = "replay" => cur' = k
    BY DEF Settle
  <2> QED BY <1>2, <1>c, <1>o, <1>4, <2>1, <2>2, <2>3, <2>4, <2>5, <2>6, <2>7 DEF OrderInv
<1> QED BY <1>3, <1>4

\* A step that announces nothing and moves no turn.
LEMMA QuietOrder ==
  ASSUME Typed, OrderInv, Steady, commits' = commits, phase' = "ended" \/ phase' = phase,
         turnOrder' = turnOrder, active' = active, settings' = settings \/ active = 0,
         \A j \in Turn : up'[j].finishing = up[j].finishing,
         phase' = "running" => NoneStranded',
         phase' = "running" /\ pc' = "replay" /\ cur' \in live =>
           pc = "replay" /\ cur = cur' /\ Ready' = Ready
  PROVE  OrderInv'
<1>k. live \subseteq Turn
  BY DEF Typed, TypeOK
<1>1. OrderedCommits'
  BY DEF OrderInv, OrderedCommits
<1>2. CASE phase' # "running"
  BY <1>1, <1>2, EndedOrder
<1>3. CASE phase' = "running"
  <2>1. OneBuffer'
    BY <1>3, <1>k DEF OrderInv, OneBuffer, Steady
  <2>2. \A j : CommitsUpTo(j)' <=> CommitsUpTo(j)
    BY DEF CommitsUpTo
  <2>3. \A j \in live : MayCommit(j)' <=> MayCommit(j)
    BY <1>k DEF MayCommit, Steady
  <2>4. \A j : Blocked(j)' <=> Blocked(j)
    BY SteadyBlocked
  <2>5. phase = "running" /\ turnOrder' = turnOrder /\ live' = live
    BY <1>3 DEF Steady
  <2>6. CommitsUpTo(turnOrder)'
    BY <1>3, <2>2, <2>5 DEF OrderInv, CommitsUpTo
  <2> QED BY <1>1, <1>3, <2>1, <2>2, <2>3, <2>4, <2>5, <2>6 DEF OrderInv
<1> QED BY <1>2, <1>3

LEMMA UpstreamOrder ==
  ASSUME Typed, OrderInv, Upstream PROVE OrderInv'
<1>1. phase = "running" /\ pc = "select" /\ batch = <<>>
  BY DEF Upstream, Typed, WellFormed
<1>2. Ready = {}
  BY <1>1 DEF OrderInv, NoneStranded
<1>3. PICK k \in Turn, e \in Event :
       /\ UNCHANGED <<settings, turnOrder, active, cur, batch>>
       /\ \/ k \notin live /\ Ignore /\ UNCHANGED pc
          \/ k \in live /\ Blocked(k) /\ Hold(k, e) /\ UNCHANGED pc
          \/ k \in live /\ ~Blocked(k) /\ Effect(k) /\ Settle
  BY UpstreamParts
<1>i. /\ inbox' \in Seq([key : Turn, event : Event]) /\ Len(inbox') <= InboxCap
  <2>1. inbox \in Seq([key : Turn, event : Event]) /\ inbox # <<>> /\ inbox' = Tail(inbox)
        /\ Len(inbox) <= InboxCap /\ InboxCap \in Nat
    BY BridgeAssumption DEF Upstream, Typed, TypeOK
  <2> QED BY <2>1, HeadTail
<1>4. CASE k \notin live /\ Ignore /\ UNCHANGED pc
  <2>1. Steady /\ Ready' = Ready
    BY <1>4 DEF Ignore, Steady, Ready, Waiting, Blocked
  <2>2. NoneStranded'
    BY <1>2, <2>1 DEF NoneStranded
  <2>3. pc' # "replay" /\ up' = up /\ commits' = commits /\ phase' = phase
    BY <1>1, <1>4 DEF Ignore, Continue
  <2> QED BY <1>3, <2>1, <2>2, <2>3, QuietOrder
<1>5. CASE k \in live /\ Blocked(k) /\ Hold(k, e) /\ UNCHANGED pc
  <2>1. /\ Reject \/ (Continue /\ UNCHANGED <<live, up, client>>)
        /\ \A j \in Turn : /\ turn'[j].mode = turn[j].mode /\ turn'[j].committed = turn[j].committed
                           /\ turn'[j].cleared = turn[j].cleared /\ turn'[j].delayed = turn[j].delayed
                           /\ j # k => turn'[j] = turn[j]
    BY <1>3, <1>5, <1>i, HoldTyped
  <2>2. Steady /\ up' = up /\ commits' = commits /\ (phase' = "ended" \/ phase' = phase)
    BY <2>1 DEF Steady, Reject, End, Continue, client
  <2>3. Ready' = {}
    <3> SUFFICES ASSUME NEW j \in live', Waiting(j)', ~Blocked(j)' PROVE FALSE
      BY DEF Ready
    <3>1. j \in live /\ j \in Turn /\ ~Blocked(j)
      BY <2>2, SteadyBlocked DEF Steady, Typed, TypeOK
    <3>2. j # k
      BY <1>5, <3>1
    <3>3. Waiting(j)
      BY <2>1, <3>1, <3>2 DEF Waiting
    <3> QED BY <1>2, <3>1, <3>3 DEF Ready
  <2>4. NoneStranded' /\ pc' # "replay"
    BY <1>1, <1>5, <2>3 DEF NoneStranded
  <2> QED BY <1>3, <2>2, <2>4, QuietOrder
<1>6. CASE k \in live /\ ~Blocked(k) /\ Effect(k) /\ Settle
  <2>1. batch' = <<>>
    BY <1>1, <1>3
  <2> QED BY <1>1, <1>2, <1>3, <1>6, <2>1, PublishOrder
<1> QED BY <1>3, <1>4, <1>5, <1>6

LEMMA ReplayOrder ==
  ASSUME Typed, OrderInv, Replay PROVE OrderInv'
<1>1. phase = "running" /\ pc = "replay" /\ Settle /\ UNCHANGED <<settings, turnOrder, active>>
      /\ (batch' # <<>> => cur' = cur)
  BY DEF Replay
<1>2. CASE cur \in live
  <2>1. ~Blocked(cur) /\ \A j \in Ready : cur <= j
    BY <1>1, <1>2 DEF OrderInv
  <2>2. Effect(cur)
    BY ReplayTyped
  <2> QED BY <1>1, <1>2, <2>1, <2>2, PublishOrder
<1>3. CASE cur \notin live
  <2>1. Ignore
    BY <1>3 DEF Replay, Process
  <2>2. Steady /\ up' = up /\ commits' = commits /\ phase' = phase
    BY <2>1 DEF Ignore, Continue, Steady
  <2>3. NoneStranded'
    BY <1>1 DEF NoneStranded, Settle
  <2>4. pc' = "replay" => cur' \notin live
    BY <1>1, <1>3 DEF Settle
  <2> QED BY <1>1, <2>2, <2>3, <2>4, QuietOrder
<1> QED BY <1>2, <1>3

LEMMA DrainNextOrder ==
  ASSUME Typed, OrderInv, DrainNext PROVE OrderInv'
<1>1. PICK k \in Ready :
       /\ \A j \in Ready : k <= j
       /\ IF turn[k].delayed
          THEN CommitItem(<<k, turn[k].item>>, IF IsQwen(turn[k].mode) THEN <<>> ELSE turn[k].text)
          ELSE UNCHANGED client
       /\ batch' = turn[k].queued
       /\ cur' = IF batch' = <<>> THEN 0 ELSE k
       /\ turn' = [turn EXCEPT ![k] = Released(@)]
  BY DEF DrainNext
<1>2. UNCHANGED <<phase, cause, settings, live, turnOrder, active, inbox, up>> /\ Settle
      /\ phase = "running"
  BY DEF DrainNext
<1>k. k \in live /\ k \in Turn /\ k \in Nat /\ ~Blocked(k) /\ turnOrder \in Nat
  BY ConstTypes DEF Ready, Typed, TypeOK
<1>o. /\ OrderedCommits /\ OneBuffer /\ CommitsUpTo(turnOrder)
      /\ \A j \in live : j <= turnOrder
      /\ \A j \in live : MayCommit(j) => CommitsUpTo(j)
      /\ \A j \in Turn : j > turnOrder => ~up[j].finishing
  BY <1>2 DEF OrderInv
<1>r. /\ \A j \in Turn \ {k} : turn'[j] = turn[j]
      /\ turn'[k].mode = turn[k].mode /\ turn'[k].committed = turn[k].committed
      /\ turn'[k].cleared = turn[k].cleared
      /\ ~turn'[k].delayed /\ turn'[k].queued = <<>>
  BY <1>1, <1>k, ReleasedKept
<1>3. OrderedCommits' /\ \A j \in Nat : k <= j /\ CommitsUpTo(j) => CommitsUpTo(j)'
  <2>1. CASE turn[k].delayed
    <3>1. <<k, turn[k].item>> \in Item
      BY <1>k, <2>1 DEF Typed, WellFormed, Item
    <3>2. CommitsUpTo(k)
      BY <1>k, <1>o, <2>1 DEF MayCommit
    <3> DEFINE i == <<k, turn[k].item>>
    <3>3. commits' = Append(commits, i) /\ i[1] = k
      BY <1>1, <2>1 DEF CommitItem
    <3> HIDE DEF i
    <3> QED BY <1>o, <3>1, <3>2, <3>3, AppendOrdered DEF i
  <2>2. CASE ~turn[k].delayed
    BY <1>1, <1>o, <2>2 DEF client, OrderedCommits, CommitsUpTo
  <2> QED BY <2>1, <2>2
<1>l. live \subseteq Turn /\ live' = live
  BY <1>2 DEF Typed, TypeOK
<1>b. \A j : Blocked(j)' <=> Blocked(j)
  BY <1>l, <1>k, <1>r, ZenonT(30) DEF Blocked
<1>4. OneBuffer'
  BY <1>2, <1>o, <1>l, <1>k, <1>r DEF OneBuffer
<1>5. NoneStranded'
  BY <1>2 DEF NoneStranded, Settle
<1>6. CommitsUpTo(turnOrder)'
  BY <1>2, <1>3, <1>k, <1>o DEF CommitsUpTo
<1>7. \A j \in live : MayCommit(j)' => CommitsUpTo(j)'
  <2> SUFFICES ASSUME NEW j \in live, MayCommit(j)' PROVE CommitsUpTo(j)'
    OBVIOUS
  <2>1. j \in Nat /\ j \in Turn
    BY <1>l, ConstTypes
  <2>2. MayCommit(j)
    BY <1>r, <2>1 DEF MayCommit
  <2>3. k <= j /\ CommitsUpTo(j)
    BY <1>1, <1>k, <1>o, <2>2, FirstToCommit
  <2> QED BY <1>3, <2>1, <2>3
<1>8. Ready' \subseteq Ready
  BY <1>b, <1>l, <1>k, <1>r DEF Ready, Waiting
<1>9. pc' = "replay" => cur' = k
  BY <1>1, <1>2 DEF Settle
<1> QED BY <1>1, <1>2, <1>k, <1>o, <1>3, <1>b, <1>4, <1>5, <1>6, <1>7, <1>8, <1>9 DEF OrderInv

\* After a client message the loop drains whatever need not wait any more.
LEMMA ServedOrder ==
  ASSUME Typed, Serving, Served, OrderInv, OrderedCommits',
         phase' = "running" =>
           /\ OneBuffer'
           /\ \A k \in live' : k <= turnOrder'
           /\ \A k \in Turn : k > turnOrder' => ~up'[k].finishing
           /\ CommitsUpTo(turnOrder)'
           /\ \A k \in live' : MayCommit(k)' => CommitsUpTo(k)'
  PROVE  OrderInv'
<1>1. pc' # "replay"
  BY DEF Serving, Served, Settle, Typed, WellFormed
<1>2. NoneStranded'
  BY DEF Served, Settle, NoneStranded
<1>3. CASE phase' # "running"
  BY <1>3, EndedOrder
<1> QED BY <1>1, <1>2, <1>3 DEF OrderInv

LEMMA ServingReady ==
  ASSUME Typed, OrderInv, Serving
  PROVE  phase = "running" /\ Ready = {} /\ OrderedCommits /\ OneBuffer
BY DEF Serving, OrderInv, NoneStranded

\* Messages that change nothing the order depends on.
LEMMA QuietClientSteady ==
  ASSUME Typed, Refused \/ SessionUpdate \/ AppendMore
  PROVE  Steady
<1>1. live' = live
  BY DEF Refused, SessionUpdate, AppendMore
<1>2. CASE turn' = turn
  BY <1>1, <1>2 DEF Steady
<1>3. CASE active \in live /\ turn' = [turn EXCEPT ![active].samples = @ + 1]
  BY <1>1, <1>3, ActiveTurn DEF Steady, Typed, TypeOK, TurnRecord
<1> QED BY <1>2, <1>3 DEF Refused, SessionUpdate, AppendMore

LEMMA QuietClientOrder ==
  ASSUME Typed, OrderInv, Refused \/ SessionUpdate \/ AppendMore
  PROVE  OrderInv'
<1>1. Serving /\ Served
  BY DEF Refused, SessionUpdate, AppendMore
<1>2. NoneStranded' /\ pc' # "replay"
  BY <1>1 DEF Serving, Served, Settle, NoneStranded, Typed, WellFormed
<1>3. /\ turnOrder' = turnOrder /\ active' = active /\ up' = up /\ commits' = commits /\ live' = live
      /\ settings' = settings \/ active = 0
  BY DEF Refused, SessionUpdate, AppendMore, client
<1>4. phase' = "ended" \/ phase' = phase
  BY DEF Refused, SessionUpdate, AppendMore, Continue, End
<1>5. Steady
  BY QuietClientSteady
<1> QED BY <1>2, <1>3, <1>4, <1>5, QuietOrder

LEMMA AppendFirstOrder ==
  ASSUME Typed, OrderInv, AppendFirst PROVE OrderInv'
<1>1. Serving /\ Served /\ UNCHANGED <<settings, client>> /\ active \notin live
  BY DEF AppendFirst
<1>2. phase = "running" /\ OrderedCommits /\ OneBuffer
  BY <1>1, ServingReady
<1>o. /\ CommitsUpTo(turnOrder)
      /\ \A j \in live : j <= turnOrder
      /\ \A j \in live : MayCommit(j) => CommitsUpTo(j)
      /\ \A j \in Turn : j > turnOrder => ~up[j].finishing
  BY <1>2 DEF OrderInv
<1>c. commits' = commits
  BY <1>1 DEF client
<1>3. OrderedCommits'
  BY <1>2, <1>c DEF OrderedCommits
<1>4. CASE phase' # "running"
  BY <1>3, <1>4, EndedOrder
<1>5. CASE UNCHANGED <<live, turnOrder, active, turn, up>>
  <2>1. CASE phase' # "running"
    BY <1>3, <2>1, EndedOrder
  <2>2. CASE phase' = "running"
    <3>1. Steady
      BY <1>5 DEF Steady
    <3>2. NoneStranded' /\ pc' # "replay"
      BY <1>1 DEF Serving, Served, Settle, NoneStranded, Typed, WellFormed
    <3> QED BY <1>1, <1>2, <1>5, <1>c, <2>2, <3>1, <3>2, QuietOrder
  <2> QED BY <2>1, <2>2
<1>6. ASSUME NEW k, k = turnOrder + 1, phase' = "running",
             turnOrder' = k /\ active' = k /\ live' = live \cup {k},
             turn' = [turn EXCEPT ![k] = [NewTurn(settings) EXCEPT !.samples = 1]],
             up' = [up EXCEPT ![k].started = TRUE, ![k].open = TRUE,
                              ![k].qwen = IsQwen(settings)]
      PROVE  OrderInv'
  <2>k. turnOrder \in Nat /\ k \in Turn /\ k \in Nat /\ live \subseteq Turn /\ active = 0
    BY <1>1, <1>2, <1>6, ConstTypes DEF AppendFirst, Turn, Typed, TypeOK, OneBuffer
  <2>t. /\ turn'[k].mode = settings /\ ~turn'[k].committed /\ ~turn'[k].delayed
        /\ \A j \in live : j # k /\ turn'[j] = turn[j] /\ j \in Nat
    BY <1>6, <1>o, <2>k, ConstTypes DEF NewTurn, Typed, TypeOK
  <2>u. \A j \in Turn : up'[j].finishing = up[j].finishing
    <3>1. up \in [Turn -> TaskRecord]
      BY DEF Typed, TypeOK
    <3> QED BY <1>6, <2>k, <3>1 DEF TaskRecord
  <2>f. ~up'[k].finishing /\ \A j \in Turn : j > k => ~up'[j].finishing
    <3>1. k > turnOrder /\ \A j \in Turn : j > k => j > turnOrder
      BY <1>6, <2>k, ConstTypes
    <3>2. \A j \in Turn : j > turnOrder => ~up'[j].finishing
      BY <1>o, <2>u
    <3> QED BY <2>k, <3>1, <3>2
  <2>1. OneBuffer'
    <3>1. k # 0 /\ ~up'[k].finishing /\ settings' = settings
      BY <1>1, <2>k, <2>f, ConstTypes
    <3>2. \A j \in live : turn'[j].committed /\ up'[j].finishing
      BY <1>2, <2>k, <2>t, <2>u, ConstTypes DEF OneBuffer
    <3> QED BY <1>6, <2>t, <3>1, <3>2 DEF OneBuffer
  <2>2. \A j : CommitsUpTo(j)' <=> CommitsUpTo(j)
    BY <1>c DEF CommitsUpTo
  <2>3. CommitsUpTo(k)
    BY <1>6, <1>o, <2>k, CommitsUp
  <2>4. CommitsUpTo(turnOrder)'
    BY <1>6, <1>c, <2>3 DEF CommitsUpTo
  <2>5. \A j \in live' : MayCommit(j)' => CommitsUpTo(j)'
    BY <1>6, <1>o, <2>t, <2>2 DEF MayCommit
  <2>6. \A j \in live' : j <= turnOrder'
    BY <1>6, <1>o, <2>k, <2>t
  <2>7. \A j \in Turn : j > turnOrder' => ~up'[j].finishing
    BY <1>6, <2>f
  <2> QED BY <1>1, <1>3, <2>1, <2>4, <2>5, <2>6, <2>7, ServedOrder
<1> QED BY <1>4, <1>5, <1>6 DEF AppendFirst

\* A turn that has ended its input leaves the buffer, in the running session.
LEMMA FinishLeaves ==
  ASSUME Typed, OneBuffer, phase = "running", phase' = "running", active \in live, Finish(active),
         live' = live, \A j \in Turn \ {active} : turn'[j] = turn[j],
         turn'[active].committed
  PROVE  OneBuffer'
<1>k. active \in Turn /\ live \subseteq Turn
  BY ActiveTurn DEF Typed, TypeOK
<1>1. active' = 0 /\ up'[active].finishing
      /\ \A j \in Turn \ {active} : up'[j].finishing = up[j].finishing
  BY <1>k, FinishTyped DEF Finish, End
<1>2. \A j \in live \ {active} : turn'[j].committed /\ up'[j].finishing
  BY <1>k, <1>1 DEF OneBuffer
<1> QED BY <1>1, <1>2 DEF OneBuffer

LEMMA CommitOrder ==
  ASSUME Typed, OrderInv, Commit PROVE OrderInv'
<1> DEFINE k == active
           i == <<k, CommitName(k)>>
<1>1. Serving /\ Served /\ k \in live /\ Finish(k) /\ UNCHANGED <<settings, live, turnOrder>>
      /\ turn' = [turn EXCEPT ![k].committed = TRUE, ![k].item = CommitName(k),
                               ![k].delayed = Delays(k)]
  BY DEF Commit, Committable
<1>2. phase = "running" /\ Ready = {} /\ OrderedCommits /\ OneBuffer
  BY <1>1, ServingReady
<1>k. k \in Turn /\ k \in Nat /\ k = turnOrder /\ ~turn[k].committed /\ live \subseteq Turn
  BY <1>1, <1>2, ConstTypes, ActiveTurn DEF OneBuffer, Typed, TypeOK
<1>o. /\ CommitsUpTo(k)
      /\ \A j \in live : j <= k
      /\ \A j \in live : MayCommit(j) => CommitsUpTo(j)
      /\ \A j \in Turn : j > k => ~up[j].finishing
  BY <1>2, <1>k DEF OrderInv
<1>t. /\ turn'[k].committed /\ turn'[k].mode = turn[k].mode
      /\ \A j \in Turn \ {k} : turn'[j] = turn[j]
  BY <1>1, <1>k DEF Typed, TypeOK, TurnRecord
<1>c. \/ commits' = commits
      \/ /\ commits' = Append(commits, i) /\ i \in Item /\ i[1] = k
         /\ turn[k].mode # "qwenVad" /\ ~Blocked(k)
  <2>1. CASE Delays(k) \/ turn[k].mode = "qwenVad"
    BY <2>1 DEF Commit, client
  <2>2. CASE ~Delays(k) /\ turn[k].mode # "qwenVad"
    <3>1. i \in Item
      BY <1>k, <2>2, CommitNameTyped DEF Item
    <3>2. commits' = Append(commits, i)
      BY <2>2 DEF Commit, CommitItem
    <3> QED BY <2>2, <3>1, <3>2 DEF Delays
  <2> QED BY <2>1, <2>2
<1>3. OrderedCommits' /\ \A j \in Nat : k <= j /\ CommitsUpTo(j) => CommitsUpTo(j)'
  <2>1. CASE commits' = commits
    BY <2>1, <1>2 DEF OrderedCommits, CommitsUpTo
  <2>2. CASE commits' = Append(commits, i) /\ i \in Item /\ i[1] = k
    <3> HIDE DEF i
    <3> QED BY <2>2, <1>2, <1>o, AppendOrdered
  <2> QED BY <2>1, <2>2, <1>c
<1>4. CASE phase' # "running"
  BY <1>3, <1>4, EndedOrder
<1>5. CASE phase' = "running"
  <2>1. OneBuffer'
    BY <1>1, <1>2, <1>t, <1>5, FinishLeaves
  <2>3. CommitsUpTo(turnOrder)'
    BY <1>1, <1>3, <1>k, <1>o DEF CommitsUpTo
  <2>4. \A j \in live : MayCommit(j)' => CommitsUpTo(j)'
    <3> SUFFICES ASSUME NEW j \in live, MayCommit(j)' PROVE CommitsUpTo(j)'
      OBVIOUS
    <3>j. j \in Nat /\ j \in Turn
      BY <1>k, ConstTypes
    <3>1. CASE j = k
      BY <3>1, <1>3, <1>k, <1>o DEF CommitsUpTo
    <3>2. CASE j # k
      <4>1. MayCommit(j) /\ CommitsUpTo(j)
        BY <3>2, <3>j, <1>t, <1>o DEF MayCommit
      <4>2. CASE commits' = commits
        BY <4>1, <4>2 DEF CommitsUpTo
      <4>3. CASE ~Blocked(k)
        <5>1. k <= j
          BY <4>1, <4>3, <1>2, <1>k, FirstToCommit
        <5> QED BY <5>1, <3>j, <4>1, <1>3
      <4> QED BY <4>2, <4>3, <1>c
    <3> QED BY <3>1, <3>2
  <2>5. \A j \in Turn : j > turnOrder' => ~up'[j].finishing
    <3>1. \A j \in Turn : j > k => j # k
      BY <1>k, ConstTypes
    <3>2. \A j \in Turn \ {k} : up'[j].finishing = up[j].finishing
      BY <1>1, <1>k, FinishTyped
    <3> QED BY <1>1, <1>k, <1>o, <3>1, <3>2
  <2> QED BY <1>1, <1>3, <1>k, <1>o, <2>1, <2>3, <2>4, <2>5, ServedOrder
<1> QED BY <1>4, <1>5

LEMMA ClearOrder ==
  ASSUME Typed, OrderInv, Clear PROVE OrderInv'
<1> DEFINE k == active
<1>1. Serving /\ Served /\ UNCHANGED <<settings, turnOrder, client>>
  BY DEF Clear
<1>2. phase = "running" /\ Ready = {} /\ OrderedCommits /\ OneBuffer
  BY <1>1, ServingReady
<1>c. commits' = commits /\ OrderedCommits' /\ \A j : CommitsUpTo(j)' <=> CommitsUpTo(j)
  BY <1>1, <1>2 DEF client, OrderedCommits, CommitsUpTo
<1>o. /\ CommitsUpTo(turnOrder)
      /\ \A j \in live : j <= turnOrder
      /\ \A j \in live : MayCommit(j) => CommitsUpTo(j)
      /\ \A j \in Turn : j > turnOrder => ~up[j].finishing
  BY <1>2 DEF OrderInv
<1>u. CommitsUpTo(turnOrder)'
  BY <1>1, <1>c, <1>o DEF CommitsUpTo
<1>0. CASE phase' # "running"
  BY <1>c, <1>0, EndedOrder
<1>3. CASE Continue /\ UNCHANGED <<live, active, turn, up>>
  <2>1. Steady /\ phase' = phase
    BY <1>3 DEF Steady, Continue
  <2>2. NoneStranded' /\ pc' # "replay"
    BY <1>1 DEF Serving, Served, Settle, NoneStranded, Typed, WellFormed
  <2> QED BY <1>1, <1>3, <1>c, <2>1, <2>2, QuietOrder
<1>4. CASE /\ k \in live /\ phase' = "running"
           /\ turn' = [turn EXCEPT ![k].cleared = TRUE, ![k].committed = TRUE]
           /\ Finish(k)
           /\ UNCHANGED live
  <2>k. k \in Turn /\ k \in Nat /\ k = turnOrder /\ ~turn[k].committed /\ live \subseteq Turn
    BY <1>2, <1>4, ConstTypes, ActiveTurn DEF OneBuffer, Typed, TypeOK
  <2>t. /\ turn'[k].committed /\ turn'[k].cleared /\ ~turn'[k].delayed
        /\ \A j \in Turn \ {k} : turn'[j] = turn[j]
    BY <1>4, <2>k DEF Typed, TypeOK, TurnRecord, WellFormed
  <2>1. OneBuffer'
    BY <1>2, <1>4, <2>t, FinishLeaves
  <2>2. \A j \in live : MayCommit(j)' => CommitsUpTo(j)'
    BY <1>c, <1>o, <2>t, <2>k DEF MayCommit
  <2>3. \A j \in Turn : j > turnOrder' => ~up'[j].finishing
    <3>1. \A j \in Turn : j > k => j # k
      BY <2>k, ConstTypes
    <3>2. \A j \in Turn \ {k} : up'[j].finishing = up[j].finishing
      BY <1>4, <2>k, FinishTyped
    <3> QED BY <1>1, <2>k, <1>o, <3>1, <3>2
  <2> QED BY <1>1, <1>4, <1>c, <1>o, <1>u, <2>1, <2>2, <2>3, ServedOrder
<1>5. CASE k \in live /\ Forget(k) /\ active' = 0 /\ Continue
  <2>k. k \in Turn /\ live \subseteq Turn
    BY <1>5, ActiveTurn DEF Typed, TypeOK
  <2>t. /\ live' = live \ {k}
        /\ \A j \in Turn \ {k} : turn'[j] = turn[j]
        /\ \A j \in Turn : up'[j].finishing = up[j].finishing
    BY <1>5, <2>k, ForgetEffect DEF Typed
  <2>1. OneBuffer'
    BY <1>2, <1>5, <2>k, <2>t DEF OneBuffer
  <2>2. \A j \in live' : MayCommit(j)' => CommitsUpTo(j)'
    BY <1>c, <1>o, <2>t, <2>k DEF MayCommit
  <2>3. /\ \A j \in Turn : j > turnOrder' => ~up'[j].finishing
        /\ \A j \in live' : j <= turnOrder'
    BY <1>1, <1>o, <2>t
  <2> QED BY <1>1, <1>c, <1>u, <2>1, <2>2, <2>3, ServedOrder
<1> QED BY <1>0, <1>3, <1>4, <1>5 DEF Clear

LEMMA OtherOrder ==
  ASSUME Typed, OrderInv,
         Disconnect \/ Terminated \/ UNCHANGED vars \/ \E k \in Turn : Task(k)
  PROVE  OrderInv'
<1>1. CASE Disconnect
  <2>1. OrderedCommits' /\ phase' # "running"
    BY <1>1 DEF Disconnect, End, client, OrderInv, OrderedCommits
  <2> QED BY <2>1, EndedOrder
<1>2. CASE Terminated \/ UNCHANGED vars
  <2>1. Steady /\ UNCHANGED vars /\ Ready' = Ready
    BY <1>2 DEF Terminated, Steady, vars, Ready, Waiting, Blocked
  <2>2. phase' = "running" => NoneStranded'
    BY <2>1 DEF vars, OrderInv, NoneStranded
  <2> QED BY <2>1, <2>2, QuietOrder DEF vars
<1>3. ASSUME NEW k \in Turn, Task(k) PROVE OrderInv'
  <2>1. /\ UNCHANGED <<phase, cause, settings, live, turnOrder, active, turn, loop, client>>
        /\ phase = "running"
    BY <1>3 DEF Task, UpQwen, UpStage, UpText, UpFailed, UpSentence, UpFinished, UpErr, Forward
  <2>2. \A j \in Turn : up'[j].finishing = up[j].finishing
    BY <1>3, TaskTyped
  <2>3. Steady /\ Ready' = Ready /\ commits' = commits /\ pc' = pc /\ cur' = cur
    BY <2>1 DEF Steady, Ready, Waiting, Blocked, loop, client
  <2>4. NoneStranded'
    BY <2>1, <2>3 DEF OrderInv, NoneStranded
  <2> QED BY <2>1, <2>2, <2>3, <2>4, QuietOrder
<1> QED BY <1>1, <1>2, <1>3

LEMMA InitOrder == Init => OrderInv
<1> SUFFICES ASSUME Init PROVE OrderInv
  OBVIOUS
<1>1. commits = <<>> /\ Len(commits) = 0 /\ live = {} /\ active = 0 /\ pc = "select" /\ cur = 0
      /\ \A j \in Turn : ~up[j].finishing
  BY DEF Init, NoTask
<1>2. OrderedCommits /\ \A j : CommitsUpTo(j)
  BY <1>1 DEF OrderedCommits, CommitsUpTo
<1> QED BY <1>1, <1>2 DEF OrderInv, OneBuffer, NoneStranded, Ready

LEMMA StepInv == IInv /\ [Next]_vars => IInv'
<1> SUFFICES ASSUME IInv, [Next]_vars PROVE IInv'
  OBVIOUS
<1>1. Typed /\ OrderInv
  BY DEF IInv, Typed
<1>2. Typed'
  BY <1>1, StepTyped
<1>3. OrderInv'
  <2>1. CASE Loop
    BY <1>1, <2>1, UpstreamOrder, DrainNextOrder, ReplayOrder DEF Loop
  <2>2. CASE Client
    BY <1>1, <2>2, QuietClientOrder, AppendFirstOrder, CommitOrder, ClearOrder DEF Client
  <2>3. CASE Disconnect \/ Terminated \/ UNCHANGED vars \/ \E k \in Turn : Task(k)
    BY <1>1, <2>3, OtherOrder
  <2> QED BY <2>1, <2>2, <2>3 DEF Next
<1> QED BY <1>2, <1>3 DEF IInv, Typed

LEMMA Invariance == Spec => []IInv
<1>1. Init => IInv
  BY InitTyped, InitOrder DEF IInv, Typed
<1> QED BY <1>1, StepInv, PTL DEF Spec

\* The items of a session are announced in the order of its audio, for any
\* number of turns, items and pending turns (previous_item_id, orderBlocked,
\* delayedCommit and drainOrderedEvents).
THEOREM CommitsOrdered == Spec => []OrderedCommits
<1>1. IInv => OrderedCommits
  BY DEF IInv, OrderInv
<1> QED BY <1>1, Invariance, PTL

\* The audio buffer belongs to the newest turn, still open upstream and under
\* the session's configuration; every other turn has ended its input.
THEOREM BufferOwned == Spec => []OneBuffer
<1>1. IInv => OneBuffer
  BY DEF IInv, OrderInv
<1> QED BY <1>1, Invariance, PTL

-----------------------------------------------------------------------------
(* Which steps may hold a turn back.                                       *)

\* No live turn appears, and none takes the tail role of a Qwen VAD turn.
LEMMA FewerBlock ==
  ASSUME Typed, live' \subseteq live,
         \A j \in live' : /\ turn'[j].mode = turn[j].mode /\ turn'[j].committed = turn[j].committed
                         /\ turn'[j].cleared = turn[j].cleared,
         NEW k, ~Blocked(k)
  PROVE  ~Blocked(k)'
BY DEF Blocked

LEMMA LoopBlocks ==
  ASSUME Typed, Loop, NEW k, ~Blocked(k)
  PROVE  ~Blocked(k)'
<1>l. live \subseteq Turn
  BY DEF Typed, TypeOK
<1>e. ASSUME NEW j, Effect(j) PROVE ~Blocked(k)'
  <2>1. live' \subseteq live /\ \A i \in live' : SameControl(turn'[i], turn[i])
    BY <1>l, <1>e DEF Effect, SameControl
  <2> QED BY <2>1, FewerBlock DEF SameControl
<1>s. ASSUME Ignore PROVE ~Blocked(k)'
  BY <1>s, FewerBlock DEF Ignore
<1>1. CASE Upstream
  <2> PICK j \in Turn, e \in Event :
       /\ UNCHANGED <<settings, turnOrder, active, cur, batch>>
       /\ \/ j \notin live /\ Ignore /\ UNCHANGED pc
          \/ j \in live /\ Blocked(j) /\ Hold(j, e) /\ UNCHANGED pc
          \/ j \in live /\ ~Blocked(j) /\ Effect(j) /\ Settle
    BY <1>1, UpstreamParts
  <2>i. /\ inbox' \in Seq([key : Turn, event : Event]) /\ Len(inbox') <= InboxCap
    <3>1. inbox \in Seq([key : Turn, event : Event]) /\ inbox # <<>> /\ inbox' = Tail(inbox)
          /\ Len(inbox) <= InboxCap /\ InboxCap \in Nat
      BY <1>1, BridgeAssumption DEF Upstream, Typed, TypeOK
    <3> QED BY <3>1, HeadTail
  <2>1. CASE j \in live /\ Blocked(j) /\ Hold(j, e) /\ UNCHANGED pc
    <3>1. /\ Reject \/ (Continue /\ UNCHANGED <<live, up, client>>)
          /\ \A i \in Turn : /\ turn'[i].mode = turn[i].mode
                             /\ turn'[i].committed = turn[i].committed
                             /\ turn'[i].cleared = turn[i].cleared
      BY <2>1, <2>i, HoldTyped
    <3>2. live' = live
      BY <3>1 DEF Reject
    <3> QED BY <1>l, <3>1, <3>2, FewerBlock
  <2> QED BY <1>e, <1>s, <2>1
<1>2. CASE Replay
  BY <1>2, <1>e, ReplayTyped
<1>3. CASE DrainNext
  <2>1. PICK j \in Ready : turn' = [turn EXCEPT ![j] = Released(@)] /\ live' = live
    BY <1>3 DEF DrainNext
  <2>2. j \in Turn
    BY <1>l DEF Ready
  <2>3. /\ \A i \in Turn \ {j} : turn'[i] = turn[i]
        /\ turn'[j].mode = turn[j].mode /\ turn'[j].committed = turn[j].committed
        /\ turn'[j].cleared = turn[j].cleared
    BY <2>1, <2>2, ReleasedKept
  <2> QED BY <1>l, <2>1, <2>3, FewerBlock
<1> QED BY <1>1, <1>2, <1>3 DEF Loop

LEMMA ClientBlocks ==
  ASSUME Typed, OrderInv, Client, NEW k \in live, ~Blocked(k)
  PROVE  ~Blocked(k)'
<1>1. Serving
  BY DEF Client, Refused, SessionUpdate, AppendMore, AppendFirst, Commit, Clear
<1>2. OneBuffer /\ \A j \in live : j <= turnOrder
  BY <1>1 DEF Serving, OrderInv
<1>l. live \subseteq Turn /\ k \in Nat /\ turnOrder \in Nat /\ \A j \in live : j \in Nat
  BY ConstTypes DEF Typed, TypeOK
<1>3. CASE Refused \/ SessionUpdate \/ AppendMore
  BY <1>3, <1>l, FewerBlock, QuietClientSteady DEF Steady
<1>4. CASE AppendFirst
  <2> SUFFICES ASSUME NEW e \in live', e < k, turn'[e].mode = "qwenVad", turn'[e].committed,
                      ~turn'[e].cleared
               PROVE  FALSE
    BY DEF Blocked
  <2>1. \/ live' = live /\ turn' = turn
        \/ /\ live' = live \cup {turnOrder + 1}
           /\ turn' = [turn EXCEPT ![turnOrder + 1] = [NewTurn(settings) EXCEPT !.samples = 1]]
    BY <1>4 DEF AppendFirst
  <2>2. e # turnOrder + 1
    BY <1>2, <1>l
  <2>3. e \in live /\ turn'[e] = turn[e]
    BY <2>1, <2>2, <1>l DEF Typed, TypeOK
  <2> QED BY <2>3 DEF Blocked
<1>5. CASE Commit \/ Clear
  <2> SUFFICES ASSUME NEW e \in live', e < k, turn'[e].mode = "qwenVad", turn'[e].committed,
                      ~turn'[e].cleared
               PROVE  FALSE
    BY DEF Blocked
  <2>1. live' \subseteq live /\ \A j \in live \ {active} : turn'[j] = turn[j]
    BY <1>5, <1>l DEF Commit, Clear, Forget, Typed, TypeOK
  <2>2. e # active
    BY <1>1, <1>2, <1>l, <2>1, ConstTypes DEF OneBuffer, Serving
  <2> QED BY <2>1, <2>2 DEF Blocked
<1> QED BY <1>3, <1>4, <1>5 DEF Client

\* A turn whose events are published is never held back later, so none of its
\* events can be overtaken through the queue (orderBlocked in upstream()).
THEOREM StaysPublished == Spec => NeverBlockedAgain
<1>1. IInv /\ [Next]_vars => [NoneHeldBack]_vars
  <2> SUFFICES ASSUME IInv, Next, NEW k \in live, ~Blocked(k)
               PROVE  ~Blocked(k)'
    BY DEF NoneHeldBack
  <2>0. Typed /\ OrderInv
    BY DEF IInv, Typed
  <2>1. CASE Loop
    BY <2>0, <2>1, LoopBlocks
  <2>2. CASE Client
    BY <2>0, <2>2, ClientBlocks
  <2>3. CASE Disconnect \/ Terminated \/ \E j \in Turn : Task(j)
    <3>1. CASE Disconnect \/ Terminated
      BY <3>1 DEF Disconnect, Terminated, vars, Blocked
    <3>2. ASSUME NEW j \in Turn, Task(j) PROVE live' = live /\ turn' = turn
      BY <3>2 DEF Task, UpQwen, UpStage, UpText, UpFailed, UpSentence, UpFinished, UpErr, Forward
    <3> QED BY <2>3, <3>1, <3>2 DEF Blocked
  <2> QED BY <2>1, <2>2, <2>3 DEF Next
<1> QED BY <1>1, Invariance, PTL DEF NeverBlockedAgain, Spec

-----------------------------------------------------------------------------
(* The boundary of a turn.                                                 *)

\* No turn has more audio behind its boundary than it has received.
Within == \A k \in Turn : turn[k].consumed <= turn[k].samples

\* Turn r of the next state has its boundary no earlier than t had, and within
\* its audio.
Onward(r, t) == r.consumed >= t.consumed /\ r.consumed <= r.samples
SameAudio(r, t) == r.samples = t.samples /\ r.consumed = t.consumed

\* Only turn k changes: it goes, or its boundary moves forward.
Advances(k) ==
  \/ turn' = turn
  \/ \E r : turn' = [turn EXCEPT ![k] = r] /\ Onward(r, turn[k])
  \/ Forget(k)

LEMMA AudioTyped ==
  ASSUME TypeOK, NEW k \in Turn
  PROVE  turn[k] \in TurnRecord /\ turn[k].samples \in Nat /\ turn[k].consumed \in Nat
BY DEF TypeOK, TurnRecord

LEMMA BoundaryOnward ==
  ASSUME TypeOK, Within, NEW k \in Turn, NEW t \in Int
  PROVE  Boundary(k, t) >= turn[k].consumed /\ Boundary(k, t) <= turn[k].samples
<1>1. turn[k].samples \in Nat /\ turn[k].consumed \in Nat /\ turn[k].consumed <= turn[k].samples
  BY AudioTyped DEF Within
<1> QED BY <1>1 DEF Boundary

LEMMA SameOnward ==
  ASSUME TypeOK, Within, NEW k \in Turn, NEW r, SameAudio(r, turn[k])
  PROVE  Onward(r, turn[k])
BY AudioTyped DEF Within, SameAudio, Onward

LEMMA VadSentenceAdvances ==
  ASSUME TypeOK, Within, NEW k \in Turn, NEW e \in Event, VadSentence(k, e)
  PROVE  Advances(k)
<1>0. turn[k] \in TurnRecord /\ e.time \in Int
  BY AudioTyped, EventTypes
<1>1. CASE Reject
  BY <1>1 DEF Reject, Advances
<1>2. ASSUME NEW u, NEW n, turn' = [turn EXCEPT ![k].item = u, ![k].sentence = n]
      PROVE  Advances(k)
  <2> DEFINE r == [turn[k] EXCEPT !.item = u, !.sentence = n]
  <2>1. turn' = [turn EXCEPT ![k] = r]
    BY <1>0, <1>2 DEF TypeOK
  <2>2. SameAudio(r, turn[k])
    BY <1>0 DEF SameAudio, TurnRecord
  <2> HIDE DEF r
  <2> QED BY <2>1, <2>2, SameOnward DEF Advances
<1>3. ASSUME NEW n, turn' = [turn EXCEPT ![k].item = None, ![k].sentence = n,
                                         ![k].consumed = Boundary(k, e.time)]
      PROVE  Advances(k)
  <2> DEFINE b == Boundary(k, e.time)
             r == [turn[k] EXCEPT !.item = None, !.sentence = n, !.consumed = b]
  <2>1. turn' = [turn EXCEPT ![k] = r]
    BY <1>0, <1>3 DEF TypeOK
  <2>2. b >= turn[k].consumed /\ b <= turn[k].samples
    BY <1>0, BoundaryOnward
  <2> HIDE DEF b
  <2>3. r.consumed = b /\ r.samples = turn[k].samples
    BY <1>0 DEF TurnRecord
  <2>4. Onward(r, turn[k])
    BY <2>2, <2>3 DEF Onward
  <2> HIDE DEF r
  <2> QED BY <2>1, <2>4 DEF Advances
<1> QED BY <1>1, <1>2, <1>3, ZenonT(30) DEF VadSentence

LEMMA TurnSentenceAdvances ==
  ASSUME TypeOK, Within, NEW k \in Turn, NEW e \in Event, TurnSentence(k, e)
  PROVE  Advances(k)
<1>0. turn[k] \in TurnRecord
  BY AudioTyped
<1>1. CASE Reject \/ Ignore
  BY <1>1 DEF Reject, Ignore, Advances
<1>2. ASSUME turn' = [turn EXCEPT ![k].text = @ \o e.text] PROVE Advances(k)
  <2> DEFINE r == [turn[k] EXCEPT !.text = @ \o e.text]
  <2>1. turn' = [turn EXCEPT ![k] = r]
    BY <1>0, <1>2 DEF TypeOK
  <2>2. SameAudio(r, turn[k])
    BY <1>0 DEF SameAudio, TurnRecord
  <2> HIDE DEF r
  <2> QED BY <2>1, <2>2, SameOnward DEF Advances
<1> QED BY <1>1, <1>2 DEF TurnSentence

LEMMA QwenStageAdvances ==
  ASSUME TypeOK, Within, NEW k \in Turn, NEW e \in Event,
         NEW t \in TurnRecord, SameAudio(t, turn[k]), QwenStage(k, e, t)
  PROVE  Advances(k)
<1> DEFINE u == e.id
<1>1. CASE Reject
  BY <1>1 DEF Reject, Advances
<1>2. ASSUME NEW r, SameAudio(r, t), turn' = [turn EXCEPT ![k] = r] PROVE Advances(k)
  <2>1. SameAudio(r, turn[k])
    BY <1>2 DEF SameAudio
  <2> QED BY <1>2, <2>1, SameOnward DEF Advances
<1>3. CASE turn' = [turn EXCEPT ![k] = t]
  BY <1>2, <1>3 DEF SameAudio
<1>4. CASE turn' = [turn EXCEPT ![k] = [t EXCEPT !.consumed = Boundary(k, e.time)]]
  <2> DEFINE b == Boundary(k, e.time)
             r == [t EXCEPT !.consumed = b]
  <2>1. b >= turn[k].consumed /\ b <= turn[k].samples
    BY EventTypes, BoundaryOnward
  <2> HIDE DEF b
  <2>2. r.consumed = b /\ r.samples = turn[k].samples
    BY DEF TurnRecord, SameAudio
  <2>3. Onward(r, turn[k])
    BY <2>1, <2>2 DEF Onward
  <2>4. turn' = [turn EXCEPT ![k] = r]
    BY <1>4 DEF b
  <2> HIDE DEF r
  <2> QED BY <2>3, <2>4 DEF Advances
<1>5. CASE turn' = [turn EXCEPT ![k] = [t EXCEPT !.items[u].st = "committed"]]
  <2>1. SameAudio([t EXCEPT !.items[u].st = "committed"], t)
    BY DEF SameAudio, TurnRecord
  <2> QED BY <1>2, <1>5, <2>1
<1>6. CASE turn' = [turn EXCEPT ![k] = [t EXCEPT !.items[u].text = e.text]]
  <2>1. SameAudio([t EXCEPT !.items[u].text = e.text], t)
    BY DEF SameAudio, TurnRecord
  <2> QED BY <1>2, <1>6, <2>1
<1>7. CASE turn' = [turn EXCEPT ![k] = [t EXCEPT !.items[u] = [st |-> "done", text |-> <<>>]]]
  <2>1. SameAudio([t EXCEPT !.items[u] = [st |-> "done", text |-> <<>>]], t)
    BY DEF SameAudio, TurnRecord
  <2> QED BY <1>2, <1>7, <2>1
<1> QED BY <1>1, <1>3, <1>4, <1>5, <1>6, <1>7 DEF QwenStage

LEMMA ProcessAdvances ==
  ASSUME TypeOK, Within, NEW k \in Turn, NEW e \in Event, Process(k, e)
  PROVE  Advances(k)
<1>1. CASE Reject \/ Ignore \/ ProcessErr(k)
  BY <1>1 DEF Reject, Ignore, ProcessErr, Advances
<1>2. CASE ProcessFinished(k)
  BY <1>2 DEF ProcessFinished, Reject, Advances
<1>3. CASE VadSentence(k, e) \/ TurnSentence(k, e)
  BY <1>3, VadSentenceAdvances, TurnSentenceAdvances
<1>4. CASE QwenItem(k, e)
  <2>0. turn[k] \in TurnRecord
    BY AudioTyped
  <2>1. ASSUME NEW x, NEW b \in BOOLEAN, x \in {"open", "committed"},
               QwenStage(k, e, [turn[k] EXCEPT !.items[e.id].st = x, !.bound = b])
        PROVE  Advances(k)
    <3> DEFINE t == [turn[k] EXCEPT !.items[e.id].st = x, !.bound = b]
    <3>1. t \in TurnRecord
      <4>1. [turn[k].items EXCEPT ![e.id].st = x]
              \in [Ids -> [st : {"absent", "open", "committed", "done"}, text : Text]]
        BY <2>0, <2>1 DEF TurnRecord
      <4>2. t = [turn[k] EXCEPT !.items = [turn[k].items EXCEPT ![e.id].st = x], !.bound = b]
        OBVIOUS
      <4> HIDE DEF t
      <4> QED BY <2>0, <2>1, <4>1, <4>2 DEF TurnRecord
    <3>2. SameAudio(t, turn[k])
      BY <2>0 DEF SameAudio, TurnRecord
    <3>3. QwenStage(k, e, t)
      BY <2>1
    <3> HIDE DEF t
    <3> QED BY <3>1, <3>2, <3>3, QwenStageAdvances
  <2>2. CASE QwenStage(k, e, turn[k])
    <3>1. SameAudio(turn[k], turn[k])
      BY DEF SameAudio
    <3> QED BY <2>0, <2>2, <3>1, QwenStageAdvances
  <2> QED BY <1>1, <1>4, <2>1, <2>2 DEF QwenItem
<1> QED BY <1>1, <1>2, <1>3, <1>4 DEF Process

\* What a step does to the boundaries, and the invariant that it rests on.
BoundaryMoves ==
  /\ Within'
  /\ \A k \in live \cap live' : turn'[k].consumed \in turn[k].consumed .. turn'[k].samples

LEMMA SameMoves ==
  ASSUME TypeOK, Within, turn' = turn
  PROVE  BoundaryMoves
<1>1. live \subseteq Turn
  BY DEF TypeOK
<1>2. ASSUME NEW k \in Turn PROVE turn[k].consumed \in turn[k].consumed .. turn[k].samples
  BY AudioTyped DEF Within
<1> QED BY <1>1, <1>2 DEF BoundaryMoves, Within

LEMMA OneMoves ==
  ASSUME TypeOK, TypeOK', Within, NEW k \in Turn, NEW r,
         turn' = [turn EXCEPT ![k] = r], r.consumed <= r.samples,
         k \in live \cap live' => r.consumed >= turn[k].consumed
  PROVE  BoundaryMoves
<1>1. live \subseteq Turn /\ turn'[k] = r /\ \A j \in Turn \ {k} : turn'[j] = turn[j]
  BY DEF TypeOK
<1>2. Within'
  BY <1>1 DEF Within
<1>3. ASSUME NEW j \in Turn
      PROVE  /\ turn[j].samples \in Nat /\ turn[j].consumed \in Nat
             /\ turn'[j].samples \in Nat /\ turn'[j].consumed \in Nat
             /\ turn'[j].consumed <= turn'[j].samples
  BY <1>2 DEF TypeOK, TurnRecord, Within
<1>4. ASSUME NEW j \in live \cap live'
      PROVE  turn'[j].consumed \in turn[j].consumed .. turn'[j].samples
  <2>1. turn'[j].consumed >= turn[j].consumed
    BY <1>1, <1>3, <1>4
  <2> QED BY <1>1, <1>3, <2>1
<1> QED BY <1>2, <1>4 DEF BoundaryMoves

LEMMA ForgetMoves ==
  ASSUME TypeOK, TypeOK', Within, NEW k \in Turn, Forget(k)
  PROVE  BoundaryMoves
<1>1. k \notin live'
  BY DEF Forget
<1> DEFINE r == NewTurn("sentManual")
<1>2. r.consumed <= r.samples
  BY DEF NewTurn
<1>3. turn' = [turn EXCEPT ![k] = r]
  BY DEF Forget
<1> HIDE DEF r
<1> QED BY <1>1, <1>2, <1>3, OneMoves

LEMMA AdvancesMoves ==
  ASSUME TypeOK, TypeOK', Within, NEW k \in Turn, Advances(k)
  PROVE  BoundaryMoves
<1>1. CASE turn' = turn
  BY <1>1, SameMoves
<1>2. CASE \E r : turn' = [turn EXCEPT ![k] = r] /\ Onward(r, turn[k])
  BY <1>2, OneMoves DEF Onward
<1>3. CASE Forget(k)
  BY <1>3, ForgetMoves
<1> QED BY <1>1, <1>2, <1>3 DEF Advances

\* A field that is not about the audio is changed, of one turn.
LEMMA KeptMoves ==
  ASSUME TypeOK, TypeOK', Within, NEW k \in Turn, NEW r,
         turn' = [turn EXCEPT ![k] = r], SameAudio(r, turn[k])
  PROVE  BoundaryMoves
BY SameOnward, AdvancesMoves DEF Advances

LEMMA LoopMoves ==
  ASSUME Typed, Typed', Within, Loop
  PROVE  BoundaryMoves
<1>0. TypeOK /\ TypeOK' /\ live \subseteq Turn
  BY DEF Typed, TypeOK
<1>1. CASE Upstream
  <2> DEFINE k == Head(inbox).key
             e == Head(inbox).event
  <2>1. inbox \in Seq([key : Turn, event : Event]) /\ inbox # <<>>
    BY <1>0, <1>1 DEF Upstream, TypeOK
  <2>2. Head(inbox) \in [key : Turn, event : Event]
    BY <2>1, HeadTail
  <2>3. k \in Turn /\ e \in Event
    BY <2>2
  <2>4. Ignore \/ Hold(k, e) \/ Process(k, e)
    BY <1>1 DEF Upstream
  <2> HIDE DEF k, e
  <2>5. CASE Hold(k, e)
    <3>1. CASE Reject
      BY <1>0, <3>1, SameMoves DEF Reject
    <3>2. ASSUME NEW q, NEW b, turn' = [turn EXCEPT ![k].queued = q, ![k].bytes = b]
          PROVE  BoundaryMoves
      <4> DEFINE r == [turn[k] EXCEPT !.queued = q, !.bytes = b]
      <4>1. turn' = [turn EXCEPT ![k] = r]
        BY <1>0, <2>3, <3>2 DEF TypeOK
      <4>2. SameAudio(r, turn[k])
        BY <1>0, <2>3, AudioTyped DEF SameAudio, TurnRecord
      <4> HIDE DEF r
      <4> QED BY <1>0, <2>3, <4>1, <4>2, KeptMoves
    <3> QED BY <2>5, <3>1, <3>2 DEF Hold
  <2> QED BY <1>0, <2>3, <2>4, <2>5, SameMoves, ProcessAdvances, AdvancesMoves DEF Ignore
<1>2. CASE Replay
  <2>1. Head(batch) \in Event
    BY <1>2 DEF Replay, Typed, TypeOK, WellFormed
  <2>2. CASE cur \in Turn
    BY <1>0, <1>2, <2>1, <2>2, ProcessAdvances, AdvancesMoves DEF Replay
  <2>3. CASE cur \notin Turn
    BY <1>0, <1>2, <2>3, SameMoves DEF Replay, Process, Ignore
  <2> QED BY <2>2, <2>3
<1>3. CASE DrainNext
  <2>1. PICK k \in Ready : turn' = [turn EXCEPT ![k] = Released(@)]
    BY <1>3 DEF DrainNext
  <2>2. k \in Turn
    BY <1>0 DEF Ready
  <2>3. turn' = [turn EXCEPT ![k] = Released(turn[k])]
    BY <1>0, <2>1, <2>2 DEF TypeOK
  <2>4. SameAudio(Released(turn[k]), turn[k])
    BY <1>0, <2>2, AudioTyped DEF SameAudio, Released, TurnRecord
  <2> QED BY <1>0, <2>2, <2>3, <2>4, KeptMoves
<1> QED BY <1>1, <1>2, <1>3 DEF Loop

LEMMA ClientMoves ==
  ASSUME Typed, Typed', OrderInv, Within, Client
  PROVE  BoundaryMoves
<1>0. TypeOK /\ TypeOK' /\ live \subseteq Turn
  BY DEF Typed, TypeOK
<1>1. CASE Refused \/ SessionUpdate
  BY <1>0, <1>1, SameMoves DEF Refused, SessionUpdate
<1>2. CASE AppendMore
  <2> DEFINE r == [turn[active] EXCEPT !.samples = @ + 1]
  <2>1. active \in Turn
    BY <1>0, <1>2 DEF AppendMore
  <2>2. turn' = [turn EXCEPT ![active] = r]
    BY <1>0, <1>2, <2>1 DEF AppendMore, TypeOK
  <2>3. /\ turn[active].samples \in Nat /\ turn[active].consumed \in Nat
        /\ turn[active].consumed <= turn[active].samples
    BY <1>0, <2>1, AudioTyped DEF Within
  <2>4. r.samples = turn[active].samples + 1 /\ r.consumed = turn[active].consumed
    BY <1>0, <2>1, AudioTyped DEF TurnRecord
  <2> HIDE DEF r
  <2>5. Onward(r, turn[active])
    BY <2>3, <2>4 DEF Onward
  <2> QED BY <1>0, <2>1, <2>2, <2>5, AdvancesMoves DEF Advances
<1>3. CASE AppendFirst
  <2>1. CASE turn' = turn
    BY <1>0, <2>1, SameMoves
  <2>2. CASE turn' = [turn EXCEPT ![turnOrder + 1] = [NewTurn(settings) EXCEPT !.samples = 1]]
    <3> DEFINE r == [NewTurn(settings) EXCEPT !.samples = 1]
    <3>1. r.consumed <= r.samples /\ turn' = [turn EXCEPT ![turnOrder + 1] = r]
      BY <2>2 DEF NewTurn
    <3>2. turnOrder + 1 \in Turn
      BY <1>0, <1>3, ConstTypes, SMTT(30) DEF AppendFirst, Turn, TypeOK
    <3>3. turnOrder + 1 \notin live
      <4>1. \A j \in live : j <= turnOrder
        BY <1>3 DEF OrderInv, AppendFirst, Serving
      <4> QED BY <1>0, <4>1 DEF TypeOK
    <3> HIDE DEF r
    <3> QED BY <1>0, <3>1, <3>2, <3>3, OneMoves
  <2> QED BY <1>3, <2>1, <2>2 DEF AppendFirst
<1>4. CASE Commit
  <2> DEFINE i == CommitName(active)
             d == Delays(active)
             r == [turn[active] EXCEPT !.committed = TRUE, !.item = i, !.delayed = d]
  <2>1. active \in Turn
    BY <1>0, <1>4 DEF Commit, Committable
  <2>2. turn' = [turn EXCEPT ![active] = r]
    BY <1>0, <1>4, <2>1 DEF Commit, TypeOK
  <2> HIDE DEF i, d
  <2>3. SameAudio(r, turn[active])
    BY <1>0, <2>1, AudioTyped DEF SameAudio, TurnRecord
  <2> HIDE DEF r
  <2> QED BY <1>0, <2>1, <2>2, <2>3, KeptMoves
<1>5. CASE Clear
  <2>1. CASE turn' = turn
    BY <1>0, <2>1, SameMoves
  <2>2. CASE active \in live /\ Forget(active)
    BY <1>0, <2>2, ForgetMoves
  <2>3. CASE /\ active \in live
             /\ turn' = [turn EXCEPT ![active].cleared = TRUE, ![active].committed = TRUE]
    <3> DEFINE r == [turn[active] EXCEPT !.cleared = TRUE, !.committed = TRUE]
    <3>1. active \in Turn
      BY <1>0, <2>3
    <3>2. turn' = [turn EXCEPT ![active] = r]
      BY <1>0, <2>3, <3>1 DEF TypeOK
    <3>3. SameAudio(r, turn[active])
      BY <1>0, <3>1, AudioTyped DEF SameAudio, TurnRecord
    <3> HIDE DEF r
    <3> QED BY <1>0, <3>1, <3>2, <3>3, KeptMoves
  <2> QED BY <1>5, <2>1, <2>2, <2>3 DEF Clear
<1> QED BY <1>1, <1>2, <1>3, <1>4, <1>5 DEF Client

LEMMA StepMoves == IInv /\ Within /\ [Next]_vars => BoundaryMoves
<1> SUFFICES ASSUME IInv, Within, [Next]_vars PROVE BoundaryMoves
  OBVIOUS
<1>1. Typed /\ Typed' /\ OrderInv /\ TypeOK
  BY StepInv DEF IInv, Typed
<1>2. CASE Loop
  BY <1>1, <1>2, LoopMoves
<1>3. CASE Client
  BY <1>1, <1>3, ClientMoves
<1>4. CASE Disconnect \/ Terminated \/ UNCHANGED vars
  BY <1>1, <1>4, SameMoves DEF Disconnect, Terminated, vars
<1>5. ASSUME NEW j \in Turn, Task(j) PROVE turn' = turn
  BY <1>5 DEF Task, UpQwen, UpStage, UpText, UpFailed, UpSentence, UpFinished, UpErr, Forward
<1> QED BY <1>1, <1>2, <1>3, <1>4, <1>5, SameMoves DEF Next

\* The VAD boundary of a turn only moves forward and stays within the audio
\* received, whatever end times the service reports and in whatever order the
\* results come, from the inbox or from a replayed queue
\* (turn.consumedSamples in processUpstream and upstreamQwen).
THEOREM BoundaryHolds == Spec => BoundarySound
<1>1. Init => IInv /\ Within
  <2>1. Init => Within
    BY DEF Init, NewTurn, Within
  <2> QED BY <2>1, InitTyped, InitOrder DEF IInv, Typed
<1>2. IInv /\ Within /\ [Next]_vars => IInv' /\ Within'
  BY StepInv, StepMoves DEF BoundaryMoves
<1>3. IInv /\ Within /\ [Next]_vars
        => [\A k \in live \cap live' :
              turn'[k].consumed \in turn[k].consumed .. turn'[k].samples]_vars
  BY StepMoves DEF BoundaryMoves
<1> QED BY <1>1, <1>2, <1>3, PTL DEF BoundarySound, Spec

-----------------------------------------------------------------------------
(* The events of a turn that are still to be processed.                    *)

Entry == [key : Turn, event : Event]

\* What a step may do to the events of a turn, which are a and b before it
\* and c and d after it: drop the first ones, leave them, take the first one,
\* add one at the end, or merge two neighbours g and x into one.
ShrinksTo(k, a, b, c, d) ==
  /\ PendingIn(k, c, d) \subseteq PendingIn(k, a, b)
  /\ \A e, f : EarlierIn(k, c, d, e, f) => EarlierIn(k, a, b, e, f)
  /\ \A e \in PendingIn(k, a, b) \ PendingIn(k, c, d), f \in PendingIn(k, c, d) :
       EarlierIn(k, a, b, e, f)

StaysAs(k, a, b, c, d) ==
  ShrinksTo(k, a, b, c, d) /\ PendingIn(k, a, b) \subseteq PendingIn(k, c, d)

PopsTo(k, h, a, b, c, d) ==
  /\ ShrinksTo(k, a, b, c, d)
  /\ h \in PendingIn(k, a, b)
  /\ PendingIn(k, a, b) \subseteq PendingIn(k, c, d) \cup {h}
  /\ \A f \in PendingIn(k, c, d) : EarlierIn(k, a, b, h, f)

GrowsTo(k, x, a, b, c, d) ==
  /\ PendingIn(k, c, d) = PendingIn(k, a, b) \cup {x}
  /\ \A e, f : EarlierIn(k, c, d, e, f)
                 => EarlierIn(k, a, b, e, f) \/ (e \in PendingIn(k, a, b) /\ f = x)

MergesTo(k, g, x, m, a, b, c, d) ==
  /\ g \in PendingIn(k, a, b) /\ x \in PendingIn(k, a, b) /\ EarlierIn(k, a, b, g, x)
  /\ \A e \in PendingIn(k, a, b) \ {g, x} : EarlierIn(k, a, b, e, g) \/ EarlierIn(k, a, b, x, e)
  /\ m \in PendingIn(k, c, d)
  /\ PendingIn(k, c, d) \subseteq PendingIn(k, a, b) \cup {m}
  /\ PendingIn(k, a, b) \subseteq PendingIn(k, c, d) \cup {g, x}
  /\ \A e, f : EarlierIn(k, c, d, e, f)
                 => \/ EarlierIn(k, a, b, e, f)
                    \/ f = m /\ EarlierIn(k, a, b, e, g)
                    \/ e = m /\ EarlierIn(k, a, b, x, f)

LEMMA TailAt ==
  ASSUME NEW S, NEW s \in Seq(S), s # <<>>
  PROVE  /\ Len(s) \in Nat /\ Len(s) >= 1 /\ Head(s) = s[1] /\ 1 \in DOMAIN s
         /\ DOMAIN s = 1 .. Len(s) /\ DOMAIN Tail(s) = 1 .. Len(s) - 1
         /\ \A n \in DOMAIN Tail(s) : n + 1 \in DOMAIN s /\ Tail(s)[n] = s[n + 1]
         /\ \A n \in DOMAIN s : n # 1 => n - 1 \in DOMAIN Tail(s) /\ Tail(s)[n - 1] = s[n]
OBVIOUS

LEMMA AppendAt ==
  ASSUME NEW S, NEW s \in Seq(S), NEW x
  PROVE  /\ Len(s) \in Nat /\ DOMAIN s = 1 .. Len(s)
         /\ DOMAIN Append(s, x) = 1 .. Len(s) + 1
         /\ \A n \in DOMAIN s : Append(s, x)[n] = s[n]
         /\ Append(s, x)[Len(s) + 1] = x
OBVIOUS

\* The first entry of the inbox is another turn's.
LEMMA OtherStays ==
  ASSUME NEW k, NEW a, NEW b \in Seq(Entry), b # <<>>, Head(b).key # k
  PROVE  StaysAs(k, a, b, a, Tail(b))
<1> DEFINE c == Tail(b)
<1>1. /\ Len(b) \in Nat /\ DOMAIN b = 1 .. Len(b) /\ DOMAIN c = 1 .. Len(b) - 1
      /\ \A n \in DOMAIN c : n + 1 \in DOMAIN b /\ c[n] = b[n + 1]
      /\ \A n \in DOMAIN b : n # 1 => n - 1 \in DOMAIN c /\ c[n - 1] = b[n]
      /\ b[1].key # k
  BY TailAt
<1> HIDE DEF c
<1>2. PendingIn(k, a, c) = PendingIn(k, a, b)
  <2>1. ASSUME NEW n \in DOMAIN c, c[n].key = k
        PROVE  \E m \in DOMAIN b : b[m].key = k /\ b[m].event = c[n].event
    BY <1>1, <2>1
  <2>2. ASSUME NEW n \in DOMAIN b, b[n].key = k
        PROVE  \E m \in DOMAIN c : c[m].key = k /\ c[m].event = b[n].event
    BY <1>1, <2>2
  <2> QED BY <2>1, <2>2 DEF PendingIn
<1>3. ASSUME NEW e, NEW f, EarlierIn(k, a, c, e, f) PROVE EarlierIn(k, a, b, e, f)
  <2>1. CASE \E m, n \in DOMAIN a : m < n /\ e = a[m] /\ f = a[n]
    BY <2>1 DEF EarlierIn
  <2>2. CASE \E m \in DOMAIN a, n \in DOMAIN c : e = a[m] /\ c[n].key = k /\ f = c[n].event
    BY <1>1, <2>2 DEF EarlierIn
  <2>3. ASSUME NEW m \in DOMAIN c, NEW n \in DOMAIN c, m < n, c[m].key = k, e = c[m].event,
               c[n].key = k, f = c[n].event
        PROVE  EarlierIn(k, a, b, e, f)
    <3>1. /\ m + 1 \in DOMAIN b /\ n + 1 \in DOMAIN b /\ m + 1 < n + 1
          /\ c[m] = b[m + 1] /\ c[n] = b[n + 1]
      BY <1>1, <2>3
    <3> QED BY <2>3, <3>1 DEF EarlierIn
  <2> QED BY <1>3, <2>1, <2>2, <2>3 DEF EarlierIn
<1> QED BY <1>2, <1>3 DEF StaysAs, ShrinksTo, c

\* An entry is taken from the inbox and forgotten.
LEMMA TailShrinks ==
  ASSUME NEW k, NEW b \in Seq(Entry), b # <<>>
  PROVE  ShrinksTo(k, <<>>, b, <<>>, Tail(b))
<1> DEFINE a == <<>>
           c == Tail(b)
<1>1. /\ DOMAIN b = 1 .. Len(b) /\ DOMAIN c = 1 .. Len(b) - 1 /\ Len(b) \in Nat
      /\ 1 \in DOMAIN b /\ \A n \in DOMAIN b : n # 1 => n - 1 \in DOMAIN c /\ c[n - 1] = b[n]
      /\ \A n \in DOMAIN c : n + 1 \in DOMAIN b /\ c[n] = b[n + 1]
  BY TailAt
<1>e. DOMAIN a = {}
  OBVIOUS
<1> HIDE DEF a, c
<1>2. PendingIn(k, a, c) \subseteq PendingIn(k, a, b)
  BY <1>1 DEF PendingIn
<1>3. ASSUME NEW e, NEW f, EarlierIn(k, a, c, e, f) PROVE EarlierIn(k, a, b, e, f)
  <2>1. CASE \E m, n \in DOMAIN a : m < n /\ e = a[m] /\ f = a[n]
    BY <2>1 DEF EarlierIn
  <2>2. CASE \E m \in DOMAIN a, n \in DOMAIN c : e = a[m] /\ c[n].key = k /\ f = c[n].event
    BY <1>1, <2>2 DEF EarlierIn
  <2>3. ASSUME NEW m \in DOMAIN c, NEW n \in DOMAIN c, m < n, c[m].key = k, e = c[m].event,
               c[n].key = k, f = c[n].event
        PROVE  EarlierIn(k, a, b, e, f)
    <3>1. /\ m + 1 \in DOMAIN b /\ n + 1 \in DOMAIN b /\ m + 1 < n + 1
          /\ c[m] = b[m + 1] /\ c[n] = b[n + 1]
      BY <1>1, <2>3
    <3> QED BY <2>3, <3>1 DEF EarlierIn
  <2> QED BY <1>3, <2>1, <2>2, <2>3 DEF EarlierIn
<1>4. ASSUME NEW e \in PendingIn(k, a, b), e \notin PendingIn(k, a, c), NEW f \in PendingIn(k, a, c)
      PROVE  EarlierIn(k, a, b, e, f) \/ (\E m \in DOMAIN a : f = a[m])
  <2>1. PICK m \in DOMAIN b : b[m].key = k /\ e = b[m].event
    BY <1>4 DEF PendingIn
  <2>2. m = 1
    BY <1>1, <1>4, <2>1 DEF PendingIn
  <2>3. ASSUME NEW n \in DOMAIN c, c[n].key = k, f = c[n].event PROVE EarlierIn(k, a, b, e, f)
    <3>1. n + 1 \in DOMAIN b /\ 1 < n + 1 /\ b[n + 1] = c[n]
      BY <1>1
    <3> QED BY <1>1, <2>1, <2>2, <2>3, <3>1 DEF EarlierIn
  <2> QED BY <1>4, <2>3 DEF PendingIn
<1> QED BY <1>2, <1>3, <1>4, <1>e DEF ShrinksTo, a, c

\* The first entry of the inbox is taken, of a turn that has no queue.
LEMMA InboxPops ==
  ASSUME NEW k, NEW b \in Seq(Entry), b # <<>>, Head(b).key = k
  PROVE  PopsTo(k, Head(b).event, <<>>, b, <<>>, Tail(b))
<1> DEFINE c == Tail(b)
<1>0. ShrinksTo(k, <<>>, b, <<>>, c)
  BY TailShrinks
<1>1. /\ DOMAIN b = 1 .. Len(b) /\ 1 \in DOMAIN b /\ Head(b) = b[1] /\ Len(b) \in Nat
      /\ DOMAIN c = 1 .. Len(b) - 1
      /\ \A n \in DOMAIN c : n + 1 \in DOMAIN b /\ c[n] = b[n + 1]
      /\ \A n \in DOMAIN b : n # 1 => n - 1 \in DOMAIN c /\ c[n - 1] = b[n]
  BY TailAt
<1> HIDE DEF c
<1>e. DOMAIN <<>> = {}
  OBVIOUS
<1>2. Head(b).event \in PendingIn(k, <<>>, b)
  BY <1>1 DEF PendingIn
<1>3. PendingIn(k, <<>>, b) \subseteq PendingIn(k, <<>>, c) \cup {Head(b).event}
  <2>1. ASSUME NEW n \in DOMAIN b, b[n].key = k, n # 1
        PROVE  \E m \in DOMAIN c : c[m].key = k /\ c[m].event = b[n].event
    BY <1>1, <2>1
  <2> QED BY <1>1, <1>e, <2>1 DEF PendingIn
<1>4. ASSUME NEW f \in PendingIn(k, <<>>, c) PROVE EarlierIn(k, <<>>, b, Head(b).event, f)
  <2>1. PICK n \in DOMAIN c : c[n].key = k /\ f = c[n].event
    BY <1>e DEF PendingIn
  <2>2. n + 1 \in DOMAIN b /\ 1 < n + 1 /\ b[n + 1] = c[n]
    BY <1>1, <2>1
  <2> QED BY <1>1, <2>1, <2>2 DEF EarlierIn
<1> QED BY <1>0, <1>2, <1>3, <1>4 DEF PopsTo, c

\* The first event of a queue is taken.
LEMMA AheadPops ==
  ASSUME NEW k, NEW a \in Seq(Event), a # <<>>, NEW b
  PROVE  PopsTo(k, Head(a), a, b, Tail(a), b)
<1> DEFINE c == Tail(a)
<1>1. /\ DOMAIN a = 1 .. Len(a) /\ 1 \in DOMAIN a /\ Head(a) = a[1] /\ Len(a) \in Nat
      /\ DOMAIN c = 1 .. Len(a) - 1
      /\ \A n \in DOMAIN c : n + 1 \in DOMAIN a /\ c[n] = a[n + 1]
      /\ \A n \in DOMAIN a : n # 1 => n - 1 \in DOMAIN c /\ c[n - 1] = a[n]
  BY TailAt
<1> HIDE DEF c
<1>2. /\ PendingIn(k, c, b) \subseteq PendingIn(k, a, b)
      /\ \A e, f : EarlierIn(k, c, b, e, f) => EarlierIn(k, a, b, e, f)
  <2>1. PendingIn(k, c, b) \subseteq PendingIn(k, a, b)
    BY <1>1 DEF PendingIn
  <2>2. ASSUME NEW e, NEW f, EarlierIn(k, c, b, e, f) PROVE EarlierIn(k, a, b, e, f)
    <3>1. ASSUME NEW m \in DOMAIN c, NEW n \in DOMAIN c, m < n, e = c[m], f = c[n]
          PROVE  EarlierIn(k, a, b, e, f)
      <4>1. /\ m + 1 \in DOMAIN a /\ n + 1 \in DOMAIN a /\ m + 1 < n + 1
            /\ c[m] = a[m + 1] /\ c[n] = a[n + 1]
        BY <1>1, <3>1
      <4> QED BY <3>1, <4>1 DEF EarlierIn
    <3>2. CASE \E m \in DOMAIN c, n \in DOMAIN b : e = c[m] /\ b[n].key = k /\ f = b[n].event
      BY <1>1, <3>2 DEF EarlierIn
    <3> QED BY <2>2, <3>1, <3>2 DEF EarlierIn
  <2> QED BY <2>1, <2>2
<1>3. Head(a) \in PendingIn(k, a, b)
  BY <1>1 DEF PendingIn
<1>4. PendingIn(k, a, b) \subseteq PendingIn(k, c, b) \cup {Head(a)}
  <2>1. ASSUME NEW n \in DOMAIN a, n # 1 PROVE \E m \in DOMAIN c : c[m] = a[n]
    BY <1>1, <2>1
  <2> QED BY <1>1, <2>1 DEF PendingIn
<1>5. ASSUME NEW f \in PendingIn(k, c, b) PROVE EarlierIn(k, a, b, Head(a), f)
  <2>1. CASE \E n \in DOMAIN c : f = c[n]
    <3>1. PICK n \in DOMAIN c : f = c[n]
      BY <2>1
    <3>2. n + 1 \in DOMAIN a /\ 1 < n + 1 /\ a[n + 1] = c[n]
      BY <1>1
    <3> QED BY <1>1, <3>1, <3>2 DEF EarlierIn
  <2>2. CASE \E n \in DOMAIN b : b[n].key = k /\ f = b[n].event
    BY <1>1, <2>2 DEF EarlierIn
  <2> QED BY <2>1, <2>2 DEF PendingIn
<1> QED BY <1>2, <1>3, <1>4, <1>5 DEF PopsTo, ShrinksTo, c

\* The first entry of the inbox joins the queue of its turn.
LEMMA QueueStays ==
  ASSUME NEW k, NEW a \in Seq(Event), NEW b \in Seq(Entry), b # <<>>, Head(b).key = k
  PROVE  StaysAs(k, a, b, Append(a, Head(b).event), Tail(b))
<1> DEFINE x == Head(b).event
           c == Append(a, x)
           d == Tail(b)
<1>1. /\ Len(b) \in Nat /\ DOMAIN b = 1 .. Len(b) /\ DOMAIN d = 1 .. Len(b) - 1
      /\ 1 \in DOMAIN b /\ b[1].key = k /\ b[1].event = x
      /\ \A n \in DOMAIN d : n + 1 \in DOMAIN b /\ d[n] = b[n + 1]
      /\ \A n \in DOMAIN b : n # 1 => n - 1 \in DOMAIN d /\ d[n - 1] = b[n]
  BY TailAt
<1>2. /\ Len(a) \in Nat /\ DOMAIN a = 1 .. Len(a) /\ DOMAIN c = 1 .. Len(a) + 1
      /\ \A n \in DOMAIN a : c[n] = a[n]
      /\ c[Len(a) + 1] = x /\ Len(a) + 1 \in DOMAIN c
  BY AppendAt
<1> HIDE DEF x, c, d
<1>3. PendingIn(k, c, d) = PendingIn(k, a, b)
  <2>1. ASSUME NEW e \in PendingIn(k, c, d) PROVE e \in PendingIn(k, a, b)
    <3>1. CASE \E n \in DOMAIN c : e = c[n]
      <4>1. PICK n \in DOMAIN c : e = c[n]
        BY <3>1
      <4>2. CASE n \in DOMAIN a
        BY <1>2, <4>1, <4>2 DEF PendingIn
      <4>3. CASE n \notin DOMAIN a
        <5>1. e = b[1].event
          BY <1>1, <1>2, <4>1, <4>3
        <5> QED BY <1>1, <5>1 DEF PendingIn
      <4> QED BY <4>2, <4>3
    <3>2. CASE \E n \in DOMAIN d : d[n].key = k /\ e = d[n].event
      BY <1>1, <3>2 DEF PendingIn
    <3> QED BY <2>1, <3>1, <3>2 DEF PendingIn
  <2>2. ASSUME NEW e \in PendingIn(k, a, b) PROVE e \in PendingIn(k, c, d)
    <3>1. CASE \E n \in DOMAIN a : e = a[n]
      <4>1. \A n \in DOMAIN a : n \in DOMAIN c
        BY <1>2
      <4> QED BY <1>2, <3>1, <4>1 DEF PendingIn
    <3>2. CASE \E n \in DOMAIN b : b[n].key = k /\ e = b[n].event
      <4>1. PICK n \in DOMAIN b : b[n].key = k /\ e = b[n].event
        BY <3>2
      <4>2. CASE n = 1
        BY <1>1, <1>2, <4>1, <4>2 DEF PendingIn
      <4>3. CASE n # 1
        <5>1. n - 1 \in DOMAIN d /\ d[n - 1].key = k /\ d[n - 1].event = e
          BY <1>1, <4>1, <4>3
        <5> QED BY <5>1 DEF PendingIn
      <4> QED BY <4>2, <4>3
    <3> QED BY <2>2, <3>1, <3>2 DEF PendingIn
  <2> QED BY <2>1, <2>2
<1>4. ASSUME NEW e, NEW f, EarlierIn(k, c, d, e, f) PROVE EarlierIn(k, a, b, e, f)
  <2>1. ASSUME NEW m \in DOMAIN c, NEW n \in DOMAIN c, m < n, e = c[m], f = c[n]
        PROVE  EarlierIn(k, a, b, e, f)
    <3>1. m \in DOMAIN a /\ e = a[m]
      BY <1>2, <2>1
    <3>2. CASE n \in DOMAIN a
      BY <1>2, <2>1, <3>1, <3>2 DEF EarlierIn
    <3>3. CASE n \notin DOMAIN a
      <4>1. f = b[1].event
        BY <1>1, <1>2, <2>1, <3>3
      <4> QED BY <1>1, <3>1, <4>1 DEF EarlierIn
    <3> QED BY <3>2, <3>3
  <2>2. ASSUME NEW m \in DOMAIN c, NEW n \in DOMAIN d, e = c[m], d[n].key = k, f = d[n].event
        PROVE  EarlierIn(k, a, b, e, f)
    <3>1. n + 1 \in DOMAIN b /\ 1 < n + 1 /\ b[n + 1].key = k /\ f = b[n + 1].event
      BY <1>1, <2>2
    <3>2. CASE m \in DOMAIN a
      BY <1>2, <2>2, <3>1, <3>2 DEF EarlierIn
    <3>3. CASE m \notin DOMAIN a
      <4>1. e = b[1].event
        BY <1>1, <1>2, <2>2, <3>3
      <4> QED BY <1>1, <3>1, <4>1 DEF EarlierIn
    <3> QED BY <3>2, <3>3
  <2>3. ASSUME NEW m \in DOMAIN d, NEW n \in DOMAIN d, m < n, d[m].key = k, e = d[m].event,
               d[n].key = k, f = d[n].event
        PROVE  EarlierIn(k, a, b, e, f)
    <3>1. /\ m + 1 \in DOMAIN b /\ n + 1 \in DOMAIN b /\ m + 1 < n + 1
          /\ d[m] = b[m + 1] /\ d[n] = b[n + 1]
      BY <1>1, <2>3
    <3> QED BY <2>3, <3>1 DEF EarlierIn
  <2> QED BY <1>4, <2>1, <2>2, <2>3 DEF EarlierIn
<1> QED BY <1>3, <1>4 DEF StaysAs, ShrinksTo, x, c, d

\* The goroutine of a turn adds an entry to the inbox.
LEMMA InboxGrows ==
  ASSUME NEW k, NEW a, NEW b \in Seq(Entry), NEW y
  PROVE  /\ y.key = k => GrowsTo(k, y.event, a, b, a, Append(b, y))
         /\ y.key # k => StaysAs(k, a, b, a, Append(b, y))
<1> DEFINE d == Append(b, y)
<1>1. /\ Len(b) \in Nat /\ DOMAIN b = 1 .. Len(b) /\ DOMAIN d = 1 .. Len(b) + 1
      /\ \A n \in DOMAIN b : d[n] = b[n]
      /\ d[Len(b) + 1] = y /\ Len(b) + 1 \in DOMAIN d
  BY AppendAt
<1> HIDE DEF d
<1>2. \A n \in DOMAIN b : n \in DOMAIN d
  BY <1>1
<1>3. \A n \in DOMAIN d : n \in DOMAIN b \/ d[n] = y
  BY <1>1
<1>4. ASSUME NEW e, NEW f, EarlierIn(k, a, d, e, f)
      PROVE  EarlierIn(k, a, b, e, f) \/ (y.key = k /\ e \in PendingIn(k, a, b) /\ f = y.event)
  <2>1. CASE \E m, n \in DOMAIN a : m < n /\ e = a[m] /\ f = a[n]
    BY <2>1 DEF EarlierIn
  <2>2. ASSUME NEW m \in DOMAIN a, NEW n \in DOMAIN d, e = a[m], d[n].key = k, f = d[n].event
        PROVE  EarlierIn(k, a, b, e, f) \/ (y.key = k /\ e \in PendingIn(k, a, b) /\ f = y.event)
    BY <1>1, <1>3, <2>2 DEF EarlierIn, PendingIn
  <2>3. ASSUME NEW m \in DOMAIN d, NEW n \in DOMAIN d, m < n, d[m].key = k, e = d[m].event,
               d[n].key = k, f = d[n].event
        PROVE  EarlierIn(k, a, b, e, f) \/ (y.key = k /\ e \in PendingIn(k, a, b) /\ f = y.event)
    <3>1. m \in DOMAIN b /\ e \in PendingIn(k, a, b)
      BY <1>1, <2>3 DEF PendingIn
    <3>2. CASE n \in DOMAIN b
      BY <1>1, <2>3, <3>1, <3>2 DEF EarlierIn
    <3>3. CASE d[n] = y
      BY <2>3, <3>1, <3>3
    <3> QED BY <1>3, <3>2, <3>3
  <2> QED BY <1>4, <2>1, <2>2, <2>3 DEF EarlierIn
<1>5. PendingIn(k, a, d) = PendingIn(k, a, b) \cup (IF y.key = k THEN {y.event} ELSE {})
  BY <1>1, <1>2, <1>3 DEF PendingIn
<1>6. ASSUME y.key = k PROVE GrowsTo(k, y.event, a, b, a, d)
  BY <1>4, <1>5, <1>6 DEF GrowsTo
<1>7. ASSUME y.key # k PROVE StaysAs(k, a, b, a, d)
  BY <1>4, <1>5, <1>7 DEF StaysAs, ShrinksTo
<1> QED BY <1>6, <1>7 DEF d

\* The first entry of the inbox is merged with the last event of the queue.
LEMMA QueueMerges ==
  ASSUME NEW k, NEW a \in Seq(Event), a # <<>>, NEW b \in Seq(Entry), b # <<>>, Head(b).key = k,
         NEW y
  PROVE  MergesTo(k, a[Len(a)], Head(b).event, y, a, b,
                  Append(SubSeq(a, 1, Len(a) - 1), y), Tail(b))
<1> DEFINE x == Head(b).event
           c == Append(SubSeq(a, 1, Len(a) - 1), y)
           d == Tail(b)
           l == Len(a)
<1>1. /\ Len(b) \in Nat /\ DOMAIN b = 1 .. Len(b) /\ DOMAIN d = 1 .. Len(b) - 1
      /\ 1 \in DOMAIN b /\ b[1].key = k /\ b[1].event = x
      /\ \A n \in DOMAIN d : n + 1 \in DOMAIN b /\ d[n] = b[n + 1]
      /\ \A n \in DOMAIN b : n # 1 => n - 1 \in DOMAIN d /\ d[n - 1] = b[n]
  BY TailAt
<1>2. /\ l \in Nat /\ l >= 1 /\ DOMAIN a = 1 .. l /\ DOMAIN c = 1 .. l /\ l \in DOMAIN a /\ l \in DOMAIN c
      /\ \A n \in DOMAIN a : n # l => c[n] = a[n]
      /\ c[l] = y
  <2> DEFINE q == SubSeq(a, 1, l - 1)
  <2>1. l \in Nat /\ l >= 1 /\ DOMAIN a = 1 .. l
    BY TailAt
  <2>2. q \in Seq(Event) /\ Len(q) = l - 1 /\ \A n \in 1 .. l - 1 : q[n] = a[n]
    BY <2>1
  <2>3. c = Append(q, y)
    OBVIOUS
  <2> HIDE DEF q, l, c
  <2>4. /\ DOMAIN q = 1 .. l - 1 /\ DOMAIN c = 1 .. Len(q) + 1 /\ c[Len(q) + 1] = y
        /\ \A n \in DOMAIN q : c[n] = q[n]
    BY <2>2, <2>3, AppendAt
  <2> QED BY <2>1, <2>2, <2>4
<1> HIDE DEF x, c, d, l
<1>3. /\ a[l] \in PendingIn(k, a, b) /\ x \in PendingIn(k, a, b)
      /\ EarlierIn(k, a, b, a[l], x) /\ y \in PendingIn(k, c, d)
  BY <1>1, <1>2 DEF PendingIn, EarlierIn
<1>4. ASSUME NEW e \in PendingIn(k, c, d) PROVE e \in PendingIn(k, a, b) \cup {y}
  <2>1. CASE \E n \in DOMAIN c : e = c[n]
    BY <1>2, <2>1 DEF PendingIn
  <2>2. CASE \E n \in DOMAIN d : d[n].key = k /\ e = d[n].event
    BY <1>1, <2>2 DEF PendingIn
  <2> QED BY <1>4, <2>1, <2>2 DEF PendingIn
<1>5. ASSUME NEW e \in PendingIn(k, a, b) PROVE e \in PendingIn(k, c, d) \cup {a[l], x}
  <2>1. ASSUME NEW n \in DOMAIN a, e = a[n] PROVE e \in PendingIn(k, c, d) \cup {a[l], x}
    BY <1>2, <2>1 DEF PendingIn
  <2>2. ASSUME NEW n \in DOMAIN b, b[n].key = k, e = b[n].event
        PROVE  e \in PendingIn(k, c, d) \cup {a[l], x}
    <3>1. CASE n = 1
      BY <1>1, <2>2, <3>1
    <3>2. CASE n # 1
      <4>1. n - 1 \in DOMAIN d /\ d[n - 1].key = k /\ d[n - 1].event = e
        BY <1>1, <2>2, <3>2
      <4> QED BY <4>1 DEF PendingIn
    <3> QED BY <3>1, <3>2
  <2> QED BY <1>5, <2>1, <2>2 DEF PendingIn
<1>6. ASSUME NEW e, NEW f, EarlierIn(k, c, d, e, f)
      PROVE  \/ EarlierIn(k, a, b, e, f)
             \/ f = y /\ EarlierIn(k, a, b, e, a[l])
             \/ e = y /\ EarlierIn(k, a, b, x, f)
  <2> DEFINE Goal == \/ EarlierIn(k, a, b, e, f)
                     \/ f = y /\ EarlierIn(k, a, b, e, a[l])
                     \/ e = y /\ EarlierIn(k, a, b, x, f)
  <2>1. ASSUME NEW m \in DOMAIN c, NEW n \in DOMAIN c, m < n, e = c[m], f = c[n] PROVE Goal
    <3>1. m \in DOMAIN a /\ n \in DOMAIN a /\ m # l /\ e = a[m]
      BY <1>2, <2>1
    <3>2. CASE n = l
      BY <1>2, <2>1, <3>1, <3>2 DEF EarlierIn
    <3>3. CASE n # l
      BY <1>2, <2>1, <3>1, <3>3 DEF EarlierIn
    <3> QED BY <3>2, <3>3
  <2>2. ASSUME NEW m \in DOMAIN c, NEW n \in DOMAIN d, e = c[m], d[n].key = k, f = d[n].event
        PROVE  Goal
    <3>1. n + 1 \in DOMAIN b /\ 1 < n + 1 /\ b[n + 1].key = k /\ f = b[n + 1].event
      BY <1>1, <2>2
    <3>2. CASE m = l
      <4>1. EarlierIn(k, a, b, x, f)
        BY <1>1, <3>1 DEF EarlierIn
      <4> QED BY <1>2, <2>2, <3>2, <4>1
    <3>3. CASE m # l
      <4>1. m \in DOMAIN a /\ e = a[m]
        BY <1>2, <2>2, <3>3
      <4> QED BY <3>1, <4>1 DEF EarlierIn
    <3> QED BY <3>2, <3>3
  <2>3. ASSUME NEW m \in DOMAIN d, NEW n \in DOMAIN d, m < n, d[m].key = k, e = d[m].event,
               d[n].key = k, f = d[n].event
        PROVE  Goal
    <3>1. /\ m + 1 \in DOMAIN b /\ n + 1 \in DOMAIN b /\ m + 1 < n + 1
          /\ d[m] = b[m + 1] /\ d[n] = b[n + 1]
      BY <1>1, <2>3
    <3> QED BY <2>3, <3>1 DEF EarlierIn
  <2> HIDE DEF Goal
  <2>4. Goal
    BY <1>6, <2>1, <2>2, <2>3 DEF EarlierIn
  <2> QED BY <2>4 DEF Goal
<1>7. ASSUME NEW e \in PendingIn(k, a, b) \ {a[l], x}
      PROVE  EarlierIn(k, a, b, e, a[l]) \/ EarlierIn(k, a, b, x, e)
  <2>1. ASSUME NEW n \in DOMAIN a, e = a[n] PROVE EarlierIn(k, a, b, e, a[l])
    <3>1. n < l
      BY <1>2, <1>7, <2>1
    <3> QED BY <1>2, <2>1, <3>1 DEF EarlierIn
  <2>2. ASSUME NEW n \in DOMAIN b, b[n].key = k, e = b[n].event PROVE EarlierIn(k, a, b, x, e)
    <3>1. 1 < n
      BY <1>1, <1>7, <2>2
    <3> QED BY <1>1, <2>2, <3>1 DEF EarlierIn
  <2> QED BY <2>1, <2>2 DEF PendingIn
<1> QED BY <1>3, <1>4, <1>5, <1>6, <1>7 DEF MergesTo, x, c, d, l

Shrinks(k)         == ShrinksTo(k, Ahead(k), inbox, Ahead(k)', inbox')
Stays(k)           == StaysAs(k, Ahead(k), inbox, Ahead(k)', inbox')
Pops(k, h)         == PopsTo(k, h, Ahead(k), inbox, Ahead(k)', inbox')
Grows(k, x)        == GrowsTo(k, x, Ahead(k), inbox, Ahead(k)', inbox')
Merges(k, g, x, m) == MergesTo(k, g, x, m, Ahead(k), inbox, Ahead(k)', inbox')

LEMMA SameStays ==
  ASSUME NEW k, Ahead(k)' = Ahead(k), inbox' = inbox
  PROVE  Stays(k)
BY DEF Stays, StaysAs, ShrinksTo

LEMMA StaysShrinks ==
  ASSUME NEW k
  PROVE  /\ Stays(k) => Shrinks(k)
         /\ \A h : Pops(k, h) => Shrinks(k)
BY DEF Stays, Shrinks, Pops, StaysAs, PopsTo

\* Outside a replay there is no batch.
LEMMA NoBatch ==
  ASSUME Typed, ReplayInv, pc # "replay"
  PROVE  batch = <<>> /\ cur = 0 /\ \A k \in Turn : Ahead(k) = turn[k].queued
BY ConstTypes DEF Typed, WellFormed, ReplayInv, Ahead

\* A turn whose event is processed has nothing waiting.
LEMMA NothingWaits ==
  ASSUME Typed, OrderInv, phase = "running", pc = "select", NEW k \in live, ~Blocked(k)
  PROVE  turn[k].queued = <<>> /\ ~turn[k].delayed
BY DEF OrderInv, NoneStranded, Ready, Waiting

\* A turn that an event ends is forgotten.
LEMMA ProcessForgets ==
  ASSUME NEW k, NEW e, Process(k, e), k \notin live'
  PROVE  (turn' = turn /\ k \notin live) \/ Forget(k)
BY DEF Process, Ignore, ProcessErr, ProcessFinished, VadSentence, TurnSentence, QwenItem,
       QwenStage, Reject

LEMMA ForgetQueue ==
  ASSUME Typed, NEW k \in Turn, Forget(k)
  PROVE  turn'[k].queued = <<>> /\ ~turn'[k].delayed
BY DEF Typed, TypeOK, Forget, NewTurn

LEMMA ProcessQueue ==
  ASSUME Typed, NEW k \in Turn, NEW e \in Event, Process(k, e), turn[k].queued = <<>>
  PROVE  turn'[k].queued = <<>> /\ (turn'[k].delayed => turn[k].delayed)
<1>1. Effect(k)
  BY ProcessEffect DEF Typed
<1>2. CASE k \in live'
  BY <1>1, <1>2 DEF Effect, SameControl
<1>3. CASE k \notin live'
  BY <1>3, ProcessForgets, ForgetQueue
<1> QED BY <1>2, <1>3

LEMMA GoneKept ==
  ASSUME Typed, OrderInv, ReplayInv, [Next]_vars, NEW k \in Turn, k \notin live'
  PROVE  turn'[k].queued = <<>>
<1>0. k \notin live => turn[k].queued = <<>>
  BY DEF ReplayInv
<1>e. ASSUME NEW j \in Turn, NEW e \in Event, Process(j, e) PROVE turn'[k].queued = <<>>
  <2>1. Effect(j)
    BY <1>e, ProcessEffect DEF Typed
  <2>2. CASE k = j
    <3>1. CASE turn' = turn /\ k \notin live
      BY <1>0, <3>1
    <3>2. CASE Forget(k)
      BY <3>2, ForgetQueue
    <3> QED BY <1>e, <2>2, <3>1, <3>2, ProcessForgets
  <2>3. CASE k # j
    BY <1>0, <2>1, <2>3 DEF Effect
  <2> QED BY <2>2, <2>3
<1>1. CASE Upstream
  <2>1. \E j \in Turn, e \in Event : \/ Ignore \/ Process(j, e)
                                     \/ j \in live /\ Hold(j, e)
    <3>1. inbox \in Seq(Entry) /\ inbox # <<>>
      BY <1>1 DEF Upstream, Typed, TypeOK, Entry
    <3> DEFINE j == Head(inbox).key
               e == Head(inbox).event
    <3>2. j \in Turn /\ e \in Event
      <4>1. Head(inbox) \in Entry
        BY <3>1, HeadTail
      <4> QED BY <4>1 DEF Entry
    <3>3. Ignore \/ Process(j, e) \/ (j \in live /\ Hold(j, e))
      BY <1>1 DEF Upstream
    <3> HIDE DEF j, e
    <3> QED BY <3>2, <3>3
  <2> PICK j \in Turn, e \in Event : Ignore \/ Process(j, e) \/ (j \in live /\ Hold(j, e))
    BY <2>1
  <2>2. CASE Ignore
    BY <1>0, <2>2 DEF Ignore
  <2>3. CASE j \in live /\ Hold(j, e)
    <3>1. k \notin live /\ k # j
      BY <2>3, SMTT(30) DEF Hold, Reject
    <3>2. turn'[k] = turn[k]
      BY <2>3, <3>1 DEF Hold, Reject, Typed, TypeOK
    <3> QED BY <1>0, <3>1, <3>2
  <2> QED BY <1>e, <2>1, <2>2, <2>3
<1>2. CASE Replay
  <2>1. cur \in Turn /\ Head(batch) \in Event
    BY <1>2, ConstTypes DEF Replay, Typed, TypeOK, WellFormed, ReplayInv, Turn
  <2> QED BY <1>2, <1>e, <2>1 DEF Replay
<1>3. CASE DrainNext
  <2>1. PICK j \in Ready : turn' = [turn EXCEPT ![j] = Released(@)] /\ live' = live
    BY <1>3 DEF DrainNext
  <2> QED BY <1>0, <2>1, ReleasedKept DEF Ready, Typed, TypeOK
<1>4. CASE Client
  <2>1. CASE turn'[k] = turn[k] /\ k \notin live
    BY <1>0, <2>1
  <2>2. CASE Refused \/ SessionUpdate
    BY <1>0, <2>2 DEF Refused, SessionUpdate
  <2>3. CASE AppendMore
    <3>1. k \notin live /\ k # active
      BY <2>3 DEF AppendMore
    <3>2. turn'[k] = turn[k]
      BY <2>3, <3>1 DEF AppendMore, Typed, TypeOK
    <3> QED BY <2>1, <3>1, <3>2
  <2>4. CASE AppendFirst
    <3>1. CASE UNCHANGED <<live, turn>>
      BY <1>0, <3>1
    <3>2. CASE /\ live' = live \cup {turnOrder + 1}
               /\ turn' = [turn EXCEPT ![turnOrder + 1] = [NewTurn(settings) EXCEPT !.samples = 1]]
      <4>1. k # turnOrder + 1 /\ k \notin live
        BY <3>2
      <4>2. turn'[k] = turn[k]
        BY <3>2, <4>1 DEF Typed, TypeOK
      <4> QED BY <2>1, <4>1, <4>2
    <3> QED BY <2>4, <3>1, <3>2 DEF AppendFirst
  <2>5. CASE Commit
    <3>1. k \notin live /\ k # active
      BY <2>5 DEF Commit, Committable
    <3>2. turn'[k] = turn[k]
      BY <2>5, <3>1 DEF Commit, Typed, TypeOK
    <3> QED BY <2>1, <3>1, <3>2
  <2>6. CASE Clear
    <3>1. CASE active \in live /\ Forget(active)
      <4>1. CASE k = active
        BY <3>1, <4>1, ForgetQueue
      <4>2. CASE k # active
        <5>1. k \notin live /\ turn'[k] = turn[k]
          BY <3>1, <4>2 DEF Forget, Typed, TypeOK
        <5> QED BY <2>1, <5>1
      <4> QED BY <4>1, <4>2
    <3>2. CASE /\ active \in live /\ live' = live
               /\ turn' = [turn EXCEPT ![active].cleared = TRUE, ![active].committed = TRUE]
      <4>1. k # active /\ k \notin live
        BY <3>2
      <4>2. turn'[k] = turn[k]
        BY <3>2, <4>1 DEF Typed, TypeOK
      <4> QED BY <2>1, <4>1, <4>2
    <3>3. CASE UNCHANGED <<live, turn>>
      BY <1>0, <3>3
    <3> QED BY <2>6, <3>1, <3>2, <3>3 DEF Clear
  <2> QED BY <1>4, <2>2, <2>3, <2>4, <2>5, <2>6 DEF Client
<1>5. CASE Disconnect \/ Terminated \/ UNCHANGED vars
  BY <1>0, <1>5 DEF Disconnect, Terminated, vars
<1>6. ASSUME NEW j \in Turn, Task(j) PROVE turn'[k].queued = <<>>
  BY <1>0, <1>6 DEF Task, UpQwen, UpStage, UpText, UpFailed, UpSentence, UpFinished, UpErr, Forward
<1> QED BY <1>1, <1>2, <1>3, <1>4, <1>5, <1>6 DEF Next, Loop

LEMMA ReplayKept ==
  ASSUME Typed, OrderInv, ReplayInv, [Next]_vars
  PROVE  ReplayInv'
<1>g. \A k \in Turn \ live' : turn'[k].queued = <<>>
  BY GoneKept
<1>1. CASE Upstream
  BY <1>1, <1>g, NoBatch DEF Upstream, ReplayInv
<1>2. CASE Replay
  <2>1. cur \in Turn /\ Head(batch) \in Event /\ turn[cur].queued = <<>> /\ ~turn[cur].delayed
    BY <1>2, ConstTypes DEF Replay, Typed, TypeOK, WellFormed, ReplayInv, Turn
  <2>2. turn'[cur].queued = <<>> /\ ~turn'[cur].delayed
    BY <1>2, <2>1, ProcessQueue DEF Replay
  <2> QED BY <1>2, <1>g, <2>1, <2>2, ConstTypes DEF Replay, ReplayInv
<1>3. CASE DrainNext
  <2>1. PICK k \in Ready : /\ cur' = IF batch' = <<>> THEN 0 ELSE k
                           /\ turn' = [turn EXCEPT ![k] = Released(@)]
    BY <1>3 DEF DrainNext
  <2>2. k \in Turn
    BY DEF Ready, Typed, TypeOK
  <2> QED BY <1>g, <2>1, <2>2, ReleasedKept, ConstTypes DEF ReplayInv
<1>4. CASE Client
  <2>1. Serving /\ UNCHANGED <<cur, batch>>
    BY <1>4 DEF Client, Refused, SessionUpdate, AppendMore, AppendFirst, Commit, Clear, Served
  <2> QED BY <1>g, <2>1, NoBatch DEF Serving, ReplayInv
<1>5. CASE Disconnect \/ Terminated \/ UNCHANGED vars
  BY <1>5 DEF Disconnect, Terminated, vars, ReplayInv
<1>6. ASSUME NEW j \in Turn, Task(j) PROVE ReplayInv'
  BY <1>6 DEF Task, UpQwen, UpStage, UpText, UpFailed, UpSentence, UpFinished, UpErr, Forward,
              ReplayInv, loop
<1> QED BY <1>1, <1>2, <1>3, <1>4, <1>5, <1>6 DEF Next, Loop

-----------------------------------------------------------------------------
\* Merging in the queue of a turn that waits (Enqueue).
Merged(g, x, m) ==
  /\ g.kind = "delta" /\ x.kind = "delta" /\ g.id = x.id
  /\ m = [x EXCEPT !.delta = g.delta \o @]

\* What the loop, a task and a client message do to the events of each turn.
LEMMA UpstreamMoves ==
  ASSUME Typed, OrderInv, ReplayInv, Upstream, phase' = "running",
         NEW k, k = Head(inbox).key, NEW e, e = Head(inbox).event
  PROVE  /\ k \in Turn /\ e \in Event
         /\ \A j \in Turn \ {k} : Stays(j) /\ turn'[j] = turn[j]
         /\ \/ k \notin live /\ Ignore /\ Shrinks(k)
            \/ /\ k \in live /\ Blocked(k) /\ Hold(k, e)
               /\ Stays(k) \/ \E g, m : Merges(k, g, e, m) /\ Merged(g, e, m)
            \/ k \in live /\ ~Blocked(k) /\ Process(k, e) /\ Pops(k, e)
<1>0. /\ inbox \in Seq(Entry) /\ inbox # <<>> /\ inbox' = Tail(inbox)
      /\ Len(inbox) <= InboxCap /\ InboxCap \in Nat
      /\ batch' = batch /\ cur' = cur
  BY BridgeAssumption DEF Upstream, Typed, TypeOK, Entry
<1>1. k \in Turn /\ e \in Event
  <2>1. Head(inbox) \in Entry
    BY <1>0, HeadTail
  <2> QED BY <2>1 DEF Entry
<1>2. batch = <<>> /\ cur = 0 /\ cur' = 0 /\ 0 \notin Turn /\ \A j \in Turn : Ahead(j) = turn[j].queued
  BY <1>0, NoBatch, ConstTypes DEF Upstream
<1>3. ASSUME NEW j \in Turn PROVE Ahead(j)' = turn'[j].queued
  BY <1>2 DEF Ahead
<1>4. ASSUME NEW j \in Turn \ {k}, turn'[j] = turn[j] PROVE Stays(j)
  <2>1. Ahead(j)' = Ahead(j)
    BY <1>2, <1>3, <1>4
  <2> QED BY <1>0, <1>4, <2>1, OtherStays DEF Stays
<1>5. \/ k \notin live /\ Ignore /\ UNCHANGED pc
      \/ k \in live /\ Blocked(k) /\ Hold(k, e) /\ UNCHANGED pc
      \/ k \in live /\ ~Blocked(k) /\ Process(k, e) /\ Settle
  BY DEF Upstream
<1>6. CASE k \notin live /\ Ignore
  <2>1. turn' = turn
    BY <1>6 DEF Ignore
  <2>2. Ahead(k) = <<>> /\ Ahead(k)' = <<>>
    BY <1>1, <1>2, <1>3, <1>6, <2>1 DEF ReplayInv
  <2>3. Shrinks(k)
    BY <1>0, <2>2, TailShrinks DEF Shrinks
  <2> QED BY <1>1, <1>4, <1>6, <2>1, <2>3
<1>7. CASE k \in live /\ Blocked(k) /\ Hold(k, e) /\ UNCHANGED pc
  <2>1. \A j \in Turn \ {k} : turn'[j] = turn[j]
    <3>1. inbox' \in Seq([key : Turn, event : Event]) /\ Len(inbox') <= InboxCap
      BY <1>0, HeadTail DEF Entry
    <3>2. UNCHANGED <<settings, turnOrder, active, cur, batch, pc>>
      BY <1>7 DEF Upstream
    <3> QED BY <1>1, <1>7, <3>1, <3>2, HoldTyped
  <2> DEFINE q == turn[k].queued
             w == Enqueue(q, e)
  <2>2. q \in Seq(Event)
    BY <1>1 DEF Typed, TypeOK, TurnRecord
  <2>3. turn'[k].queued = Append(w.queue, w.event)
    <3>1. ~Reject
      BY <1>7 DEF Reject, End
    <3>2. \E b : turn' = [turn EXCEPT ![k].queued = Append(w.queue, w.event), ![k].bytes = b]
      BY <1>7, <3>1 DEF Hold
    <3>3. turn[k] \in TurnRecord /\ turn \in [Turn -> TurnRecord]
      BY <1>1 DEF Typed, TypeOK
    <3> HIDE DEF w
    <3> QED BY <1>1, <3>2, <3>3, SMTT(30) DEF TurnRecord
  <2>4. Ahead(k) = q /\ Ahead(k)' = Append(w.queue, w.event)
    BY <1>1, <1>2, <1>3, <2>3
  <2> DEFINE n == Len(q)
             merge == n > 0 /\ e.kind = "delta" /\ q[n].kind = "delta" /\ q[n].id = e.id
  <2>5. CASE ~merge
    <3>1. w.queue = q /\ w.event = e
      BY <2>5 DEF Enqueue
    <3>2. Stays(k)
      BY <1>0, <2>2, <2>4, <3>1, QueueStays DEF Stays
    <3> QED BY <1>1, <1>4, <1>7, <2>1, <3>2
  <2>6. CASE merge
    <3> DEFINE m == [e EXCEPT !.delta = q[n].delta \o @]
    <3>1. w.queue = SubSeq(q, 1, n - 1) /\ w.event = m
      BY <2>6 DEF Enqueue
    <3>2. q # <<>>
      BY <2>6
    <3>3. Merges(k, q[n], e, m)
      <4>1. Ahead(k) = q /\ Ahead(k)' = Append(SubSeq(q, 1, Len(q) - 1), m)
        BY <2>4, <3>1
      <4>2. e = Head(inbox).event /\ k = Head(inbox).key
        OBVIOUS
      <4> HIDE DEF q, m
      <4> QED BY <1>0, <2>2, <3>2, <4>1, <4>2, QueueMerges DEF Merges
    <3>4. Merged(q[n], e, m)
      BY <2>6 DEF Merged
    <3> QED BY <1>1, <1>4, <1>7, <2>1, <3>3, <3>4
  <2> QED BY <2>5, <2>6
<1>8. CASE k \in live /\ ~Blocked(k) /\ Process(k, e)
  <2>1. Effect(k)
    BY <1>1, <1>8, ProcessEffect DEF Typed
  <2>2. turn[k].queued = <<>> /\ turn'[k].queued = <<>>
    BY <1>1, <1>8, NothingWaits, ProcessQueue DEF Upstream
  <2>3. Ahead(k) = <<>> /\ Ahead(k)' = <<>>
    BY <1>1, <1>2, <1>3, <2>2
  <2>4. Pops(k, e)
    BY <1>0, <2>3, InboxPops DEF Pops
  <2> QED BY <1>1, <1>4, <1>8, <2>1, <2>4 DEF Effect
<1> QED BY <1>5, <1>6, <1>7, <1>8

LEMMA ReplayMoves ==
  ASSUME Typed, ReplayInv, Replay, NEW k, k = cur, NEW e, e = Head(batch)
  PROVE  /\ k \in Turn /\ e \in Event
         /\ Process(k, e) /\ Pops(k, e)
         /\ \A j \in Turn \ {k} : Stays(j) /\ turn'[j] = turn[j]
<1>1. /\ k \in Turn /\ batch \in Seq(Event) /\ batch # <<>> /\ turn[k].queued = <<>>
      /\ Process(k, e) /\ batch' = Tail(batch) /\ inbox' = inbox
      /\ cur' = IF batch' = <<>> THEN 0 ELSE k
  BY ConstTypes DEF Replay, Typed, TypeOK, WellFormed, ReplayInv, Turn
<1>2. e \in Event
  BY <1>1, HeadTail
<1>3. Effect(k) /\ turn'[k].queued = <<>>
  BY <1>1, <1>2, ProcessEffect, ProcessQueue DEF Typed
<1>4. Ahead(k) = batch
  BY DEF Ahead
<1>5. Ahead(k)' = Tail(batch)
  BY <1>1, <1>3, ConstTypes DEF Ahead
<1>6. Pops(k, e)
  BY <1>1, <1>4, <1>5, AheadPops DEF Pops
<1>7. ASSUME NEW j \in Turn \ {k} PROVE Stays(j) /\ turn'[j] = turn[j]
  <2>1. turn'[j] = turn[j]
    BY <1>3 DEF Effect
  <2>2. Ahead(j)' = Ahead(j)
    BY <1>1, <2>1, ConstTypes DEF Ahead
  <2> QED BY <1>1, <2>1, <2>2, SameStays
<1> QED BY <1>1, <1>2, <1>6, <1>7

LEMMA DrainMoves ==
  ASSUME Typed, ReplayInv, DrainNext
  PROVE  \A j \in Turn : Stays(j)
<1>1. PICK k \in Ready : /\ batch' = turn[k].queued
                         /\ cur' = IF batch' = <<>> THEN 0 ELSE k
                         /\ turn' = [turn EXCEPT ![k] = Released(@)]
  BY DEF DrainNext
<1>2. k \in Turn /\ 0 \notin Turn
  BY ConstTypes DEF Ready, Typed, TypeOK
<1>3. \A j \in Turn : Ahead(j) = turn[j].queued
  BY NoBatch DEF DrainNext
<1>4. turn'[k].queued = <<>> /\ \A j \in Turn \ {k} : turn'[j] = turn[j]
  BY <1>1, <1>2, ReleasedKept
<1>5. ASSUME NEW j \in Turn PROVE Ahead(j)' = Ahead(j)
  BY <1>1, <1>2, <1>3, <1>4 DEF Ahead
<1>6. inbox' = inbox
  BY DEF DrainNext
<1> QED BY <1>5, <1>6, SameStays

LEMMA ForwardMoves ==
  ASSUME Typed, NEW k \in Turn, NEW e, Forward(k, e)
  PROVE  /\ Grows(k, e)
         /\ \A j \in Turn \ {k} : Stays(j)
         /\ UNCHANGED <<live, turn, turnOrder, doc, commits, phase>>
         /\ phase = "running" /\ up[k].started
<1>1. /\ inbox \in Seq(Entry) /\ inbox' = Append(inbox, [key |-> k, event |-> e])
      /\ UNCHANGED <<live, turn, turnOrder, doc, commits, phase, cur, batch>>
      /\ phase = "running" /\ up[k].started
  BY DEF Forward, loop, client, Typed, TypeOK, Entry
<1>2. \A j \in Turn : Ahead(j)' = Ahead(j)
  BY <1>1 DEF Ahead
<1>3. Grows(k, e)
  BY <1>1, <1>2, InboxGrows DEF Grows
<1>4. \A j \in Turn \ {k} : Stays(j)
  BY <1>1, <1>2, InboxGrows DEF Stays
<1> QED BY <1>1, <1>3, <1>4

LEMMA AheadTyped ==
  ASSUME Typed, NEW k \in Turn
  PROVE  Ahead(k) \in Seq(Event) /\ Pending(k) \subseteq Event
<1>1. Ahead(k) \in Seq(Event) /\ inbox \in Seq(Entry)
  BY DEF Ahead, Typed, TypeOK, TurnRecord, Entry
<1>2. ASSUME NEW n \in DOMAIN inbox PROVE inbox[n].event \in Event
  <2>1. inbox[n] \in Entry
    BY <1>1
  <2> QED BY <2>1 DEF Entry
<1>3. \A n \in DOMAIN Ahead(k) : Ahead(k)[n] \in Event
  <2> DEFINE a == Ahead(k)
  <2>1. a \in Seq(Event)
    BY <1>1
  <2> HIDE DEF a
  <2>2. \A n \in DOMAIN a : a[n] \in Event
    BY <2>1
  <2> QED BY <2>2 DEF a
<1>4. Pending(k) \subseteq Event
  BY <1>2, <1>3 DEF Pending, PendingIn
<1> QED BY <1>1, <1>4

\* A queue that is dropped takes the first events with it.
LEMMA AheadDropped ==
  ASSUME NEW k, NEW a, NEW b
  PROVE  ShrinksTo(k, a, b, <<>>, b)
<1> DEFINE c == <<>>
<1>1. DOMAIN c = {}
  OBVIOUS
<1> HIDE DEF c
<1>2. ShrinksTo(k, a, b, c, b)
  BY <1>1 DEF ShrinksTo, PendingIn, EarlierIn
<1> QED BY <1>2 DEF c

LEMMA ClientTrafficMoves ==
  ASSUME Typed, ReplayInv, Serving, Served, NEW j \in Turn
  PROVE  /\ turn'[j].queued = turn[j].queued => Stays(j)
         /\ turn'[j].queued = <<>> => Shrinks(j)
<1>1. Ahead(j) = turn[j].queued /\ Ahead(j)' = turn'[j].queued /\ inbox' = inbox
  BY NoBatch, ConstTypes DEF Serving, Served, Ahead
<1>2. ASSUME turn'[j].queued = turn[j].queued PROVE Stays(j)
  BY <1>1, <1>2, SameStays
<1>3. ASSUME turn'[j].queued = <<>> PROVE Shrinks(j)
  BY <1>1, <1>3, AheadDropped DEF Shrinks
<1> QED BY <1>2, <1>3

-----------------------------------------------------------------------------
(* The promise about the events of a turn (StreamOf) is kept.              *)

\* The task has sent nothing more.
Silent(k) == /\ up'[k].lastFinal = up[k].lastFinal
             /\ \A u \in Ids : up'[k].items[u].len = up[k].items[u].len

LEMMA TextEvent ==
  ASSUME NEW e \in Event, HasText(e)
  PROVE  /\ e.id \in Ids /\ e.text \in Text /\ e.delta \in Text
         /\ Len(e.text) \in Nat /\ Len(e.delta) \in Nat
         /\ From(e) \in Int /\ From(e) <= Len(e.text)
<1>1. e.text \in Text /\ e.delta \in Text /\ e.id \in Ids
  BY EventTypes DEF HasText, ItemKind
<1>2. ASSUME NEW x \in Text PROVE Len(x) \in Nat
  BY DEF Text
<1>3. \A m, n \in Nat : m - n \in Int /\ m - n <= m
  OBVIOUS
<1> QED BY <1>1, <1>2, <1>3 DEF From

LEMMA SentTyped ==
  ASSUME Typed, NEW k \in Turn
  PROVE  up[k].lastFinal \in Nat /\ \A u \in Ids : up[k].items[u].len \in Nat
BY DEF Typed, TypeOK, TaskRecord

LEMMA ShrinkKeeps ==
  ASSUME Typed, NEW k \in Turn, StreamOf(k), Shrinks(k), Silent(k)
  PROVE  StreamOf(k)'
<1>0. /\ Pending(k)' \subseteq Pending(k)
      /\ \A e, f : Earlier(k, e, f)' => Earlier(k, e, f)
      /\ \A e \in Pending(k) \ Pending(k)', f \in Pending(k)' : Earlier(k, e, f)
  BY DEF Shrinks, ShrinksTo, Pending, Earlier
<1>1. ASSUME NEW e \in Pending(k)' PROVE SentEvent(k, e)'
  <2>1. e \in Event /\ SentEvent(k, e)
    BY <1>0, AheadTyped DEF StreamOf
  <2>2. CASE ~HasText(e)
    BY <2>1, <2>2 DEF SentEvent, Silent
  <2>3. CASE HasText(e)
    <3>0. e.id \in Ids /\ Len(e.text) \in Nat /\ From(e) \in Int /\ From(e) <= Len(e.text)
      BY <2>1, <2>3, TextEvent
    <3>1. /\ From(e) <= Len(e.text) /\ Len(e.text) \in Nat /\ From(e) \in Int
          /\ up'[k].items[e.id].len = up[k].items[e.id].len
          /\ up[k].items[e.id].len \in Nat
      <4>2. up'[k].items[e.id].len = up[k].items[e.id].len
        BY <3>0 DEF Silent
      <4> QED BY <3>0, <4>2, SentTyped
    <3>2. ASSUME NEW c \in Len(e.text) + 1 .. up[k].items[e.id].len
          PROVE  \E g \in Pending(k)' : Brings(g, e.id, c)
      <4>1. PICK g \in Pending(k) : Brings(g, e.id, c)
        BY <2>1, <2>3 DEF SentEvent
      <4>2. g \in Pending(k)'
        <5> SUFFICES ASSUME g \notin Pending(k)' PROVE FALSE
          OBVIOUS
        <5>1. Len(g.text) <= From(e)
          BY <1>0, <2>3, <4>1 DEF StreamOf, Ordered, Brings
        <5>2. c <= Len(g.text) /\ Len(g.text) \in Nat
          BY <4>1, AheadTyped, TextEvent DEF Brings
        <5> QED BY <3>1, <5>1, <5>2
      <4> QED BY <4>1, <4>2
    <3>3. /\ e.kind = "final" => e.id <= up'[k].lastFinal
          /\ Shaped(e) /\ Len(e.text) <= up'[k].items[e.id].len
      BY <2>1, <2>3, <3>1 DEF SentEvent, Silent
    <3>4. \A c \in Len(e.text) + 1 .. up'[k].items[e.id].len :
            \E g \in Pending(k)' : Brings(g, e.id, c)
      BY <3>1, <3>2
    <3> QED BY <3>3, <3>4 DEF SentEvent
  <2> QED BY <2>2, <2>3
<1> QED BY <1>0, <1>1 DEF StreamOf

LEMMA ChunksLen ==
  ASSUME NEW a \in Nat, NEW b \in Nat, a <= b
  PROVE  /\ Chunks(a, b) \in Text /\ Len(Chunks(a, b)) = b - a
         /\ \A c \in Nat : b <= c => Chunks(a, b) \o Chunks(b, c) = Chunks(a, c)
<1>1. Chunks(a, b) \in Text /\ Len(Chunks(a, b)) = b - a
  BY DEF Chunks, Text
<1>2. ASSUME NEW c \in Nat, b <= c PROVE Chunks(a, b) \o Chunks(b, c) = Chunks(a, c)
  <2> DEFINE s == Chunks(a, b)
             t == Chunks(b, c)
             r == Chunks(a, c)
  <2>1. /\ s \in Seq(Nat) /\ Len(s) = b - a /\ \A i \in 1 .. b - a : s[i] = a + i
        /\ t \in Seq(Nat) /\ Len(t) = c - b /\ \A i \in 1 .. c - b : t[i] = b + i
        /\ r \in Seq(Nat) /\ Len(r) = c - a /\ \A i \in 1 .. c - a : r[i] = a + i
    BY <1>2 DEF Chunks
  <2> HIDE DEF s, t, r
  <2>2. /\ s \o t \in Seq(Nat) /\ Len(s \o t) = (b - a) + (c - b)
        /\ \A i \in 1 .. (b - a) + (c - b) :
             (s \o t)[i] = IF i <= b - a THEN s[i] ELSE t[i - (b - a)]
    <3>1. /\ s \o t \in Seq(Nat) /\ Len(s \o t) = Len(s) + Len(t)
          /\ \A i \in 1 .. Len(s) + Len(t) :
               (s \o t)[i] = IF i <= Len(s) THEN s[i] ELSE t[i - Len(s)]
      BY <2>1, ConcatProperties, Zenon
    <3> QED BY <2>1, <3>1
  <2>3. (b - a) + (c - b) = c - a
    BY <1>2
  <2>4. ASSUME NEW i \in 1 .. c - a PROVE (s \o t)[i] = r[i]
    <3>1. CASE i <= b - a
      BY <1>2, <2>1, <2>2, <2>3, <3>1
    <3>2. CASE ~(i <= b - a)
      <4>1. i - (b - a) \in 1 .. c - b
        BY <1>2, <3>2
      <4>2. (s \o t)[i] = b + (i - (b - a))
        BY <2>1, <2>2, <2>3, <3>2, <4>1
      <4>3. b + (i - (b - a)) = a + i
        BY <1>2
      <4> QED BY <2>1, <4>2, <4>3
    <3> QED BY <3>1, <3>2
  <2>5. s \o t = r
    <3>1. Len(s \o t) = Len(r) /\ \A i \in 1 .. Len(s \o t) : (s \o t)[i] = r[i]
      BY <2>1, <2>2, <2>3, <2>4
    <3>2. s \o t \in Seq(Nat) /\ r \in Seq(Nat)
      BY <2>1, <2>2
    <3> QED BY <3>1, <3>2, SeqEqual, Zenon
  <2> QED BY <2>5 DEF s, t, r
<1> QED BY <1>1, <1>2

\* The task has sent event x, and keeps account of it.
Sends(k, x) ==
  /\ up[k].lastFinal <= up'[k].lastFinal
  /\ x.kind \in SentenceKind => up[k].lastFinal < x.id
  /\ x.kind = "final" => x.id <= up'[k].lastFinal
  /\ HasText(x) => /\ Shaped(x) /\ From(x) = up[k].items[x.id].len
                   /\ Len(x.text) = up'[k].items[x.id].len
  /\ \A u \in Ids : ~(HasText(x) /\ x.id = u) => up'[k].items[u].len = up[k].items[u].len

LEMMA SendsMore ==
  ASSUME Typed, NEW k \in Turn, NEW x \in Event, Sends(k, x),
         up' \in [Turn -> TaskRecord]
  PROVE  /\ up[k].lastFinal \in Nat /\ up'[k].lastFinal \in Nat
         /\ \A u \in Ids : /\ up[k].items[u].len \in Nat /\ up'[k].items[u].len \in Nat
                           /\ up[k].items[u].len <= up'[k].items[u].len
                           /\ \A c \in up[k].items[u].len + 1 .. up'[k].items[u].len : Brings(x, u, c)
<1>1. /\ up[k].lastFinal \in Nat /\ up'[k].lastFinal \in Nat
      /\ \A u \in Ids : up[k].items[u].len \in Nat /\ up'[k].items[u].len \in Nat
  BY DEF Typed, TypeOK, TaskRecord
<1>2. ASSUME NEW u \in Ids
      PROVE  /\ up[k].items[u].len <= up'[k].items[u].len
             /\ \A c \in up[k].items[u].len + 1 .. up'[k].items[u].len : Brings(x, u, c)
  <2>1. CASE HasText(x) /\ x.id = u
    <3>1. From(x) = up[k].items[u].len /\ Len(x.text) = up'[k].items[u].len
      BY <2>1 DEF Sends
    <3>2. From(x) <= Len(x.text) /\ From(x) \in Int /\ Len(x.text) \in Nat
      BY <2>1, TextEvent
    <3>3. ASSUME NEW c \in From(x) + 1 .. Len(x.text) PROVE Brings(x, u, c)
      BY <2>1, <3>2 DEF Brings
    <3> QED BY <3>1, <3>2, <3>3
  <2>2. CASE ~(HasText(x) /\ x.id = u)
    <3>1. up'[k].items[u].len = up[k].items[u].len
      BY <2>2 DEF Sends
    <3> QED BY <1>1, <3>1
  <2> QED BY <2>1, <2>2
<1> QED BY <1>1, <1>2

LEMMA GrowKeeps ==
  ASSUME Typed, NEW k \in Turn, NEW x \in Event, StreamOf(k), Grows(k, x), Sends(k, x),
         up' \in [Turn -> TaskRecord]
  PROVE  StreamOf(k)'
<1>0. /\ Pending(k)' = Pending(k) \cup {x}
      /\ \A e, f : Earlier(k, e, f)' => Earlier(k, e, f) \/ (e \in Pending(k) /\ f = x)
  BY DEF Grows, GrowsTo, Pending, Earlier
<1>1. /\ up[k].lastFinal \in Nat /\ up'[k].lastFinal \in Nat /\ up[k].lastFinal <= up'[k].lastFinal
      /\ \A u \in Ids : /\ up[k].items[u].len \in Nat /\ up'[k].items[u].len \in Nat
                        /\ up[k].items[u].len <= up'[k].items[u].len
                        /\ \A c \in up[k].items[u].len + 1 .. up'[k].items[u].len : Brings(x, u, c)
  BY SendsMore DEF Sends
<1>2. Pending(k) \subseteq Event
  BY AheadTyped
<1>3. ASSUME NEW e \in Pending(k) PROVE SentEvent(k, e)'
  <2>1. e \in Event /\ SentEvent(k, e)
    BY <1>2, <1>3 DEF StreamOf
  <2>2. e.kind = "final" => e.id <= up'[k].lastFinal
    <3> SUFFICES ASSUME e.kind = "final" PROVE e.id <= up'[k].lastFinal
      OBVIOUS
    <3>1. e.id <= up[k].lastFinal /\ e.id \in Nat
      BY <2>1, EventTypes DEF SentEvent, SentenceKind, Ids
    <3> QED BY <1>1, <3>1
  <2>3. ASSUME HasText(e)
        PROVE  /\ Shaped(e) /\ Len(e.text) <= up'[k].items[e.id].len
               /\ \A c \in Len(e.text) + 1 .. up'[k].items[e.id].len :
                    \E g \in Pending(k)' : Brings(g, e.id, c)
    <3>1. /\ e.id \in Ids /\ Len(e.text) \in Nat /\ Shaped(e)
          /\ Len(e.text) <= up[k].items[e.id].len
      BY <2>1, <2>3, TextEvent DEF SentEvent
    <3>2. Len(e.text) <= up'[k].items[e.id].len
      BY <1>1, <3>1
    <3>3. ASSUME NEW c \in Len(e.text) + 1 .. up'[k].items[e.id].len
          PROVE  \E g \in Pending(k)' : Brings(g, e.id, c)
      <4>1. CASE c <= up[k].items[e.id].len
        <5>1. c \in Len(e.text) + 1 .. up[k].items[e.id].len
          BY <1>1, <3>1, <4>1
        <5> QED BY <1>0, <2>1, <2>3, <5>1 DEF SentEvent
      <4>2. CASE ~(c <= up[k].items[e.id].len)
        <5>1. c \in up[k].items[e.id].len + 1 .. up'[k].items[e.id].len
          BY <1>1, <3>1, <4>2
        <5> QED BY <1>0, <1>1, <3>1, <5>1
      <4> QED BY <4>1, <4>2
    <3> QED BY <3>1, <3>2, <3>3
  <2> QED BY <2>2, <2>3 DEF SentEvent
<1>4. SentEvent(k, x)'
  <2>1. x.kind = "final" => x.id <= up'[k].lastFinal
    BY DEF Sends
  <2>2. ASSUME HasText(x)
        PROVE  /\ Shaped(x) /\ Len(x.text) <= up'[k].items[x.id].len
               /\ Len(x.text) + 1 .. up'[k].items[x.id].len = {}
    <3>1. Shaped(x) /\ Len(x.text) = up'[k].items[x.id].len /\ Len(x.text) \in Nat
      BY <2>2, TextEvent DEF Sends
    <3> QED BY <3>1
  <2> QED BY <2>1, <2>2 DEF SentEvent
<1>5. ASSUME NEW e \in Pending(k) PROVE Ordered(e, x)
  <2>1. e \in Event /\ SentEvent(k, e)
    BY <1>2, <1>5 DEF StreamOf
  <2>2. ASSUME e.kind = "final", x.kind \in SentenceKind PROVE e.id < x.id
    <3>1. e.id <= up[k].lastFinal /\ up[k].lastFinal < x.id
      BY <2>1, <2>2 DEF SentEvent, Sends
    <3>2. e.id \in Nat /\ x.id \in Nat
      BY <2>1, <2>2, EventTypes DEF SentenceKind, Ids
    <3> QED BY <1>1, <3>1, <3>2
  <2>3. ASSUME HasText(e), HasText(x), e.id = x.id PROVE Len(e.text) <= From(x)
    BY <2>1, <2>3 DEF SentEvent, Sends
  <2> QED BY <2>2, <2>3 DEF Ordered
<1> QED BY <1>0, <1>3, <1>4, <1>5 DEF StreamOf

\* Two updates that are merged follow one another without a gap.
LEMMA MergedShape ==
  ASSUME Typed, NEW k \in Turn, StreamOf(k), NEW g, NEW x, NEW m,
         Merges(k, g, x, m), Merged(g, x, m)
  PROVE  /\ g \in Event /\ x \in Event /\ HasText(g) /\ HasText(x) /\ g.id = x.id
         /\ HasText(m) /\ m.id = x.id /\ m.kind = "delta" /\ m.text = x.text
         /\ From(m) = From(g) /\ From(x) = Len(g.text) /\ Shaped(m)
<1>0. /\ g \in Pending(k) /\ x \in Pending(k) /\ Earlier(k, g, x)
      /\ \A e \in Pending(k) \ {g, x} : Earlier(k, e, g) \/ Earlier(k, x, e)
  BY DEF Merges, MergesTo, Pending, Earlier
<1>1. /\ g \in Event /\ x \in Event /\ HasText(g) /\ HasText(x) /\ g.id = x.id
      /\ SentEvent(k, g) /\ SentEvent(k, x)
  BY <1>0, AheadTyped DEF Merged, HasText, StreamOf
<1>2. /\ Len(g.text) \in Nat /\ From(g) \in Int /\ From(g) <= Len(g.text) /\ Len(g.delta) \in Nat
      /\ Len(x.text) \in Nat /\ From(x) \in Int /\ From(x) <= Len(x.text) /\ Len(x.delta) \in Nat
      /\ x.id \in Ids /\ g.delta \in Text /\ x.delta \in Text
  BY <1>1, TextEvent
<1>3. Len(g.text) <= From(x) /\ Shaped(g) /\ Shaped(x) /\ Len(x.text) <= up[k].items[x.id].len
  BY <1>0, <1>1 DEF StreamOf, Ordered, SentEvent
<1>4. From(x) = Len(g.text)
  <2> SUFFICES ASSUME Len(g.text) < From(x) PROVE FALSE
    BY <1>2, <1>3
  <2> DEFINE c == Len(g.text) + 1
  <2>1. up[k].items[x.id].len \in Nat
    BY <1>2, SentTyped
  <2>2. c \in Len(g.text) + 1 .. up[k].items[x.id].len
    BY <1>2, <1>3, <2>1
  <2>3. PICK h \in Pending(k) : Brings(h, x.id, c)
    BY <1>1, <2>2 DEF SentEvent
  <2>4. /\ HasText(h) /\ h.id = x.id /\ From(h) < c /\ c <= Len(h.text)
        /\ From(h) \in Int /\ Len(h.text) \in Nat /\ h \in Event
    BY <2>3, AheadTyped, TextEvent DEF Brings
  <2>5. h # g /\ h # x
    BY <1>2, <2>4
  <2>6. CASE Earlier(k, h, g)
    <3>1. Len(h.text) <= From(g)
      BY <1>1, <2>4, <2>6 DEF StreamOf, Ordered
    <3> QED BY <1>2, <2>4, <3>1
  <2>7. CASE Earlier(k, x, h)
    <3>1. Len(x.text) <= From(h)
      BY <1>1, <2>4, <2>7 DEF StreamOf, Ordered
    <3> QED BY <1>2, <2>4, <3>1
  <2> QED BY <1>0, <2>5, <2>6, <2>7
<1>5. /\ HasText(m) /\ m.id = x.id /\ m.kind = "delta" /\ m.text = x.text
      /\ m.delta = g.delta \o x.delta
  <2>1. x \in [kind : ItemKind \cup SentenceKind, id : Ids, time : Int, delta : Text, text : Text]
    BY <1>1 DEF Merged, Event, EndKind
  <2> QED BY <2>1 DEF Merged, HasText
<1>6. From(g) \in Nat /\ From(g) <= Len(g.text) /\ Len(g.text) <= Len(x.text)
  <2>1. From(g) = Len(g.text) - Len(g.delta) /\ Len(g.delta) <= Len(g.text)
    BY <1>3 DEF Shaped, From
  <2>2. \A a, b \in Nat : a <= b => b - a \in Nat
    OBVIOUS
  <2>3. From(g) \in Nat
    BY <1>2, <2>1, <2>2
  <2> QED BY <1>2, <1>4, <2>3
<1>7. m.delta = Chunks(From(g), Len(x.text))
  <2>1. g.delta = Chunks(From(g), Len(g.text)) /\ x.delta = Chunks(Len(g.text), Len(x.text))
    BY <1>3, <1>4 DEF Shaped
  <2>2. Chunks(From(g), Len(g.text)) \o Chunks(Len(g.text), Len(x.text)) = Chunks(From(g), Len(x.text))
    BY <1>2, <1>6, ChunksLen
  <2> QED BY <1>5, <2>1, <2>2
<1>8. Len(m.delta) = Len(x.text) - From(g)
  <2>1. From(g) <= Len(x.text)
    BY <1>2, <1>6
  <2> QED BY <1>2, <1>6, <1>7, <2>1, ChunksLen
<1>9. From(m) = From(g)
  <2>1. From(m) = Len(x.text) - (Len(x.text) - From(g))
    BY <1>5, <1>8 DEF From
  <2> QED BY <1>2, <2>1
<1>10. Shaped(m)
  <2>1. x.text = Chunks(0, Len(x.text))
    BY <1>3 DEF Shaped
  <2>2. Len(m.delta) <= Len(m.text)
    BY <1>2, <1>5, <1>6, <1>8
  <2> QED BY <1>5, <1>7, <1>9, <2>1, <2>2 DEF Shaped
<1> QED BY <1>1, <1>4, <1>5, <1>9, <1>10

\* What the two events brought, the merged one brings.
LEMMA MergedBrings ==
  ASSUME Typed, NEW k \in Turn, StreamOf(k), NEW g, NEW x, NEW m,
         Merges(k, g, x, m), Merged(g, x, m), NEW u, NEW c \in Nat,
         \E h \in Pending(k) : Brings(h, u, c)
  PROVE  \E h \in Pending(k)' : Brings(h, u, c)
<1>0. /\ Pending(k) \subseteq Pending(k)' \cup {g, x}
      /\ m \in Pending(k)'
  BY DEF Merges, MergesTo, Pending
<1>1. /\ g \in Event /\ x \in Event /\ HasText(g) /\ HasText(x) /\ g.id = x.id
      /\ HasText(m) /\ m.id = x.id /\ m.text = x.text
      /\ From(m) = From(g) /\ From(x) = Len(g.text)
  BY MergedShape
<1>2. /\ Len(g.text) \in Nat /\ From(g) \in Int /\ From(g) <= Len(g.text)
      /\ Len(x.text) \in Nat /\ From(x) <= Len(x.text)
  BY <1>1, TextEvent
<1>3. PICK h \in Pending(k) : Brings(h, u, c)
  OBVIOUS
<1>4. ASSUME h = g \/ h = x PROVE Brings(m, u, c)
  BY <1>1, <1>2, <1>3, <1>4 DEF Brings
<1> QED BY <1>0, <1>3, <1>4

LEMMA MergeKeeps ==
  ASSUME Typed, NEW k \in Turn, StreamOf(k), NEW g, NEW x, NEW m,
         Merges(k, g, x, m), Merged(g, x, m), Silent(k)
  PROVE  StreamOf(k)'
<1>0. /\ Pending(k)' \subseteq Pending(k) \cup {m}
      /\ x \in Pending(k)
      /\ \A e, f : Earlier(k, e, f)' => \/ Earlier(k, e, f)
                                        \/ f = m /\ Earlier(k, e, g)
                                        \/ e = m /\ Earlier(k, x, f)
  BY DEF Merges, MergesTo, Pending, Earlier
<1>1. /\ x \in Event /\ HasText(g) /\ HasText(x) /\ g.id = x.id
      /\ HasText(m) /\ m.id = x.id /\ m.kind = "delta" /\ m.text = x.text
      /\ From(m) = From(g) /\ Shaped(m)
  BY MergedShape
<1>2. ASSUME NEW e, e \in Pending(k) \/ e = m PROVE SentEvent(k, e)'
  <2> DEFINE y == IF e \in Pending(k) THEN e ELSE x
  <2>1. y \in Event /\ SentEvent(k, y) /\ y \in Pending(k)
    BY <1>0, AheadTyped DEF StreamOf
  <2>2. e.kind = "final" => e.id <= up'[k].lastFinal
    BY <1>1, <1>2, <2>1 DEF SentEvent, Silent
  <2>3. ASSUME HasText(e)
        PROVE  /\ Shaped(e) /\ Len(e.text) <= up'[k].items[e.id].len
               /\ \A c \in Len(e.text) + 1 .. up'[k].items[e.id].len :
                    \E h \in Pending(k)' : Brings(h, e.id, c)
    <3>1. HasText(y) /\ e.text = y.text /\ e.id = y.id /\ Shaped(e)
      BY <1>1, <1>2, <2>1, <2>3 DEF SentEvent
    <3> HIDE DEF y
    <3>2. /\ y.id \in Ids /\ Len(y.text) \in Nat /\ Len(y.text) <= up[k].items[y.id].len
          /\ \A c \in Len(y.text) + 1 .. up[k].items[y.id].len :
                    \E h \in Pending(k) : Brings(h, y.id, c)
      BY <2>1, <3>1, TextEvent DEF SentEvent
    <3>3. up'[k].items[y.id].len = up[k].items[y.id].len
      BY <3>2 DEF Silent
    <3>4. ASSUME NEW c \in Len(y.text) + 1 .. up[k].items[y.id].len
          PROVE  \E h \in Pending(k)' : Brings(h, y.id, c)
      <4>1. c \in Nat
        BY <3>2, SentTyped
      <4> QED BY <3>2, <4>1, MergedBrings
    <3> QED BY <3>1, <3>2, <3>3, <3>4
  <2> QED BY <2>2, <2>3 DEF SentEvent
<1>3. ASSUME NEW e, NEW f, Earlier(k, e, f)' PROVE Ordered(e, f)
  <2>1. CASE Earlier(k, e, f)
    BY <2>1 DEF StreamOf
  <2>2. CASE f = m /\ Earlier(k, e, g)
    BY <1>1, <2>2 DEF StreamOf, Ordered, SentenceKind
  <2>3. CASE e = m /\ Earlier(k, x, f)
    BY <1>1, <2>3 DEF StreamOf, Ordered
  <2> QED BY <1>0, <1>3, <2>1, <2>2, <2>3
<1> QED BY <1>0, <1>2, <1>3 DEF StreamOf

\* Nothing was taken from the events of turn k.
Arrives(k) ==
  \/ Stays(k) /\ Silent(k)
  \/ \E x \in Event : Grows(k, x) /\ Sends(k, x)
  \/ Silent(k) /\ \E g, x, m : Merges(k, g, x, m) /\ Merged(g, x, m)

\* What a step does to the events of turn k.
Traffic(k) ==
  \/ Arrives(k)
  \/ Shrinks(k) /\ Silent(k) /\ k \notin live'
  \/ \E h \in Event : Pops(k, h) /\ Process(k, h) /\ Silent(k)

LEMMA StreamKept ==
  ASSUME Typed, up' \in [Turn -> TaskRecord], NEW k \in Turn, StreamOf(k), Traffic(k)
  PROVE  StreamOf(k)'
<1>1. CASE Shrinks(k) /\ Silent(k)
  BY <1>1, ShrinkKeeps
<1>2. CASE \E x \in Event : Grows(k, x) /\ Sends(k, x)
  BY <1>2, GrowKeeps
<1>3. CASE Silent(k) /\ \E g, x, m : Merges(k, g, x, m) /\ Merged(g, x, m)
  BY <1>3, MergeKeeps
<1> QED BY <1>1, <1>2, <1>3, StaysShrinks DEF Traffic, Arrives

LEMMA PastKept ==
  ASSUME Typed, up' \in [Turn -> TaskRecord], NEW k \in Turn, StreamOf(k), Traffic(k),
         NEW u \in Ids, Past(k, u)
  PROVE  Past(k, u)'
<1>1. CASE Shrinks(k) /\ Silent(k)
  <2>1. Pending(k)' \subseteq Pending(k)
    BY <1>1 DEF Shrinks, ShrinksTo, Pending
  <2> QED BY <1>1, <2>1 DEF Past, Silent
<1>2. ASSUME NEW x \in Event, Grows(k, x), Sends(k, x) PROVE Past(k, u)'
  <2>1. Pending(k)' = Pending(k) \cup {x}
    BY <1>2 DEF Grows, GrowsTo, Pending
  <2>2. up[k].lastFinal \in Nat /\ up'[k].lastFinal \in Nat /\ up[k].lastFinal <= up'[k].lastFinal
    BY <1>2, SendsMore DEF Sends
  <2>3. ASSUME x.kind \in SentenceKind PROVE u < x.id
    <3>1. up[k].lastFinal < x.id /\ x.id \in Nat /\ u \in Nat
      BY <1>2, <2>3, EventTypes DEF Sends, Ids
    <3> QED BY <2>2, <3>1 DEF Past
  <2>4. u <= up'[k].lastFinal
    BY <2>2 DEF Past, Ids
  <2> QED BY <2>1, <2>3, <2>4 DEF Past
<1>3. ASSUME Silent(k), NEW g, NEW x, NEW m, Merges(k, g, x, m), Merged(g, x, m)
      PROVE  Past(k, u)'
  <2>1. Pending(k)' \subseteq Pending(k) \cup {m}
    BY <1>3 DEF Merges, MergesTo, Pending
  <2>2. m.kind \notin SentenceKind
    BY <1>3, MergedShape DEF SentenceKind
  <2> QED BY <1>3, <2>1, <2>2 DEF Past, Silent
<1> QED BY <1>1, <1>2, <1>3, StaysShrinks DEF Traffic, Arrives

LEMMA ReachesKept ==
  ASSUME Typed, up' \in [Turn -> TaskRecord], NEW k \in Turn, StreamOf(k), Arrives(k),
         NEW u \in Ids, NEW l \in Nat, Reaches(k, u, l)
  PROVE  Reaches(k, u, l)'
<1>0. up[k].items[u].len \in Nat /\ up'[k].items[u].len \in Nat
  BY DEF Typed, TypeOK, TaskRecord
<1>1. CASE Stays(k) /\ Silent(k)
  <2>1. Pending(k)' = Pending(k) /\ up'[k].items[u].len = up[k].items[u].len
    BY <1>1 DEF Stays, StaysAs, ShrinksTo, Pending, Silent
  <2> QED BY <2>1 DEF Reaches
<1>2. ASSUME NEW x \in Event, Grows(k, x), Sends(k, x) PROVE Reaches(k, u, l)'
  <2>1. Pending(k)' = Pending(k) \cup {x}
    BY <1>2 DEF Grows, GrowsTo, Pending
  <2>2. /\ up[k].items[u].len <= up'[k].items[u].len
        /\ \A c \in up[k].items[u].len + 1 .. up'[k].items[u].len : Brings(x, u, c)
    BY <1>2, SendsMore
  <2>3. l <= up'[k].items[u].len
    BY <1>0, <2>2 DEF Reaches
  <2>4. HasText(x) /\ x.id = u => l <= From(x)
    BY <1>2 DEF Reaches, Sends
  <2>5. ASSUME NEW c \in l + 1 .. up'[k].items[u].len
        PROVE  \E e \in Pending(k)' : Brings(e, u, c)
    <3>1. c \in l + 1 .. up[k].items[u].len \/ c \in up[k].items[u].len + 1 .. up'[k].items[u].len
      BY <1>0
    <3> QED BY <2>1, <2>2, <3>1 DEF Reaches
  <2> QED BY <2>1, <2>3, <2>4, <2>5 DEF Reaches
<1>3. ASSUME Silent(k), NEW g, NEW x, NEW m, Merges(k, g, x, m), Merged(g, x, m)
      PROVE  Reaches(k, u, l)'
  <2>1. Pending(k)' \subseteq Pending(k) \cup {m} /\ g \in Pending(k)
    BY <1>3 DEF Merges, MergesTo, Pending
  <2>2. HasText(g) /\ g.id = m.id /\ From(m) = From(g)
    BY <1>3, MergedShape
  <2>3. up'[k].items[u].len = up[k].items[u].len
    BY <1>3 DEF Silent
  <2>4. ASSUME NEW c \in l + 1 .. up[k].items[u].len
        PROVE  \E e \in Pending(k)' : Brings(e, u, c)
    <3>1. c \in Nat
      BY <1>0
    <3>2. \E e \in Pending(k) : Brings(e, u, c)
      BY DEF Reaches
    <3> QED BY <1>3, <3>1, <3>2, MergedBrings
  <2>5. l <= up[k].items[u].len /\ \A e \in Pending(k)' : HasText(e) /\ e.id = u => l <= From(e)
    BY <2>1, <2>2 DEF Reaches
  <2> QED BY <2>3, <2>4, <2>5 DEF Reaches
<1> QED BY <1>1, <1>2, <1>3 DEF Arrives

\* An event that is processed brings exactly what follows the text processed
\* so far, and its text is what has been processed then.
LEMMA PopReaches ==
  ASSUME Typed, NEW k \in Turn, StreamOf(k), NEW h, Pops(k, h), Silent(k),
         NEW u \in Ids, NEW l \in Nat, Reaches(k, u, l)
  PROVE  /\ ~(HasText(h) /\ h.id = u) => Reaches(k, u, l)'
         /\ HasText(h) /\ h.id = u => /\ Reaches(k, u, Len(h.text))'
                                      /\ h.text = Chunks(0, l) \o h.delta
                                      /\ h.text = Chunks(0, Len(h.text))
<1>0. /\ h \in Pending(k) /\ Pending(k)' \subseteq Pending(k) /\ Pending(k) \subseteq Pending(k)' \cup {h}
      /\ \A f \in Pending(k)' : Earlier(k, h, f)
  BY DEF Pops, PopsTo, ShrinksTo, Pending, Earlier
<1>1. up'[k].items[u].len = up[k].items[u].len /\ up[k].items[u].len \in Nat
  BY SentTyped DEF Silent
<1>2. ASSUME ~(HasText(h) /\ h.id = u) PROVE Reaches(k, u, l)'
  <2>1. ASSUME NEW c \in l + 1 .. up[k].items[u].len
        PROVE  \E e \in Pending(k)' : Brings(e, u, c)
    BY <1>0, <1>2 DEF Reaches, Brings
  <2>2. l <= up[k].items[u].len /\ \A e \in Pending(k)' : HasText(e) /\ e.id = u => l <= From(e)
    BY <1>0 DEF Reaches
  <2> QED BY <1>1, <2>1, <2>2 DEF Reaches
<1>3. ASSUME HasText(h), h.id = u
      PROVE  /\ Reaches(k, u, Len(h.text))'
             /\ h.text = Chunks(0, l) \o h.delta
             /\ h.text = Chunks(0, Len(h.text))
  <2>1. h \in Event /\ SentEvent(k, h)
    BY <1>0, AheadTyped DEF StreamOf
  <2>2. Len(h.text) \in Nat /\ From(h) \in Int /\ From(h) <= Len(h.text)
    BY <1>3, <2>1, TextEvent
  <2>3. Shaped(h) /\ Len(h.text) <= up[k].items[u].len
    BY <1>3, <2>1 DEF SentEvent
  <2>4. \A f \in Pending(k)' : HasText(f) /\ f.id = u => Len(h.text) <= From(f)
    BY <1>0, <1>3 DEF StreamOf, Ordered
  <2>5. ASSUME NEW c \in Len(h.text) + 1 .. up[k].items[u].len
        PROVE  \E e \in Pending(k)' : Brings(e, u, c)
    <3>1. PICK e \in Pending(k) : Brings(e, u, c)
      BY <1>3, <2>1 DEF SentEvent
    <3>2. e # h
      BY <2>2, <3>1, <1>1 DEF Brings
    <3> QED BY <1>0, <3>1, <3>2
  <2>6. Reaches(k, u, Len(h.text))'
    BY <1>1, <2>3, <2>4, <2>5 DEF Reaches
  <2>7. From(h) = l
    <3>1. l <= From(h)
      BY <1>0, <1>3 DEF Reaches
    <3> SUFFICES ASSUME l < From(h) PROVE FALSE
      BY <2>2, <3>1
    <3>2. l + 1 \in l + 1 .. up[k].items[u].len
      BY <1>1, <2>2, <2>3
    <3>3. PICK e \in Pending(k) : Brings(e, u, l + 1)
      BY <3>2 DEF Reaches
    <3>4. e # h
      BY <2>2, <3>3 DEF Brings
    <3>5. Len(h.text) <= From(e) /\ From(e) < l + 1
      BY <1>0, <2>4, <3>3, <3>4 DEF Brings
    <3>6. From(e) \in Int
      BY <3>3, AheadTyped, TextEvent DEF Brings
    <3> QED BY <2>2, <3>5, <3>6
  <2>8. h.text = Chunks(0, Len(h.text)) /\ h.delta = Chunks(l, Len(h.text))
    BY <2>3, <2>7 DEF Shaped
  <2>9. Chunks(0, l) \o Chunks(l, Len(h.text)) = Chunks(0, Len(h.text))
    <3>1. 0 \in Nat /\ 0 <= l /\ l <= Len(h.text)
      BY <2>2, <2>7
    <3> QED BY <2>2, <3>1, ChunksLen
  <2> QED BY <2>6, <2>8, <2>9
<1> QED BY <1>2, <1>3

LEMMA TaskArrives ==
  ASSUME Typed, NEW k \in Turn, Task(k), NEW j \in Turn
  PROVE  Arrives(j)
<1>1. ASSUME NEW x \in Event, Forward(k, x), Sends(k, x), \A i \in Turn \ {k} : up'[i] = up[i]
      PROVE  Arrives(j)
  <2>1. CASE j = k
    BY <1>1, <2>1, ForwardMoves DEF Arrives
  <2>2. CASE j # k
    <3>1. Stays(j) /\ Silent(j)
      BY <1>1, <2>2, ForwardMoves DEF Silent
    <3> QED BY <3>1 DEF Arrives
  <2> QED BY <2>1, <2>2
<1>t. /\ up \in [Turn -> TaskRecord] /\ up[k].items \in [Ids -> [len : Nat, done : BOOLEAN]]
      /\ up[k].lastFinal \in Nat /\ up[k] \in TaskRecord
  BY DEF Typed, TypeOK, TaskRecord
<1>2. ASSUME NEW u \in Ids, UpStage(k, u) PROVE Arrives(j)
  <2>1. PICK x \in Event : Forward(k, x) /\ ~HasText(x) /\ x.kind \notin SentenceKind
    <3>1. CASE \E kind \in {"started", "committed"} : Forward(k, Plain(kind, u))
      <4>1. PICK kind \in {"started", "committed"} : Forward(k, Plain(kind, u))
        BY <3>1
      <4>2. Plain(kind, u) \in Event
        BY EventsTyped
      <4>3. ~HasText(Plain(kind, u)) /\ Plain(kind, u).kind \notin SentenceKind
        BY DEF HasText, SentenceKind, Plain, Ev
      <4> QED BY <4>1, <4>2, <4>3
    <3>2. CASE \E t \in Times \ {-1} : Forward(k, Ev("stopped", u, t, <<>>, <<>>))
      <4>1. PICK t \in Times : Forward(k, Ev("stopped", u, t, <<>>, <<>>))
        BY <3>2
      <4>2. t \in Int /\ <<>> \in Text
        BY BridgeAssumption DEF Text
      <4> DEFINE x == Ev("stopped", u, t, <<>>, <<>>)
      <4>3. x \in Event
        BY <4>2, EventsTyped
      <4>4. ~HasText(x) /\ x.kind \notin SentenceKind
        BY DEF HasText, SentenceKind, Ev
      <4> HIDE DEF x
      <4> QED BY <4>1, <4>3, <4>4 DEF x
    <3> QED BY <1>2, <3>1, <3>2 DEF UpStage
  <2>2. up' = up
    BY <1>2 DEF UpStage
  <2>3. Sends(k, x)
    BY <1>t, <2>1, <2>2 DEF Sends, SentenceKind
  <2> QED BY <1>1, <2>1, <2>2, <2>3
<1>3. ASSUME NEW u \in Ids, NEW n \in 0 .. MaxText, NEW kind \in {"delta", "completed"},
             UpText(k, u, n, kind)
      PROVE  Arrives(j)
  <2> DEFINE l == up[k].items[u].len
             x == Ev(kind, u, 0, Chunks(l, n), Chunks(0, n))
  <2>1. Forward(k, x) /\ l \in Nat /\ n \in Nat /\ l <= n
    BY <1>3, <1>t DEF UpText
  <2>2. x.kind = kind /\ x.id = u /\ x.delta = Chunks(l, n) /\ x.text = Chunks(0, n)
    BY DEF Ev
  <2>3. /\ Chunks(0, n) \in Text /\ Len(Chunks(0, n)) = n /\ Chunks(l, n) \in Text
        /\ Len(Chunks(l, n)) = n - l
    <3>1. 0 \in Nat /\ 0 <= n /\ n - 0 = n
      BY <2>1
    <3> QED BY <2>1, <3>1, ChunksLen
  <2>4. x \in Event
    <3>1. kind \in {"stopped", "delta", "completed", "final"} /\ 0 \in Int
      OBVIOUS
    <3> QED BY <2>3, <3>1, EventsTyped
  <2>5. From(x) = l /\ Len(x.text) = n /\ Len(x.delta) <= Len(x.text)
    <3>1. Len(x.text) = n /\ Len(x.delta) = n - l
      BY <2>2, <2>3
    <3>2. n - (n - l) = l /\ n - l <= n
      BY <2>1
    <3> HIDE DEF x, l
    <3> QED BY <3>1, <3>2 DEF From
  <2>6. HasText(x) /\ Shaped(x) /\ x.kind \notin SentenceKind
    BY <2>2, <2>5 DEF HasText, Shaped, SentenceKind
  <2>7. up' = [up EXCEPT ![k].items[u] = [len |-> n, done |-> kind = "completed"]]
    BY <1>3 DEF UpText
  <2>8. /\ up'[k].items[u].len = n /\ up'[k].lastFinal = up[k].lastFinal
        /\ \A v \in Ids \ {u} : up'[k].items[v].len = up[k].items[v].len
        /\ \A i \in Turn \ {k} : up'[i] = up[i]
    BY <1>t, <2>7 DEF TaskRecord
  <2> HIDE DEF x
  <2>9. Sends(k, x)
    BY <1>t, <2>2, <2>5, <2>6, <2>8 DEF Sends, SentenceKind
  <2> QED BY <1>1, <2>1, <2>4, <2>8, <2>9
<1>4. ASSUME NEW u \in Ids, UpFailed(k, u) PROVE Arrives(j)
  <2>1. PICK x \in Event : Forward(k, x) /\ ~HasText(x) /\ x.kind \notin SentenceKind
    BY <1>4, EventsTyped DEF UpFailed, HasText, SentenceKind, Plain, Ev
  <2>2. /\ \A v \in Ids : up'[k].items[v].len = up[k].items[v].len
        /\ up'[k].lastFinal = up[k].lastFinal
        /\ \A i \in Turn \ {k} : up'[i] = up[i]
    BY <1>4, <1>t DEF UpFailed, TaskRecord
  <2>3. Sends(k, x)
    BY <1>t, <2>1, <2>2 DEF Sends, SentenceKind
  <2> QED BY <1>1, <2>1, <2>2, <2>3
<1>5. ASSUME NEW u \in (up[k].lastFinal + 1) .. MaxIds, Forward(k, Plain("partial", u)), up' = up
      PROVE  Arrives(j)
  <2>1. u \in Ids /\ up[k].lastFinal < u
    BY <1>5, <1>t, ConstTypes DEF Ids
  <2>2. PICK x \in Event : Forward(k, x) /\ x.kind = "partial" /\ x.id = u
    BY <1>5, <2>1, EventsTyped DEF Plain, Ev
  <2>3. Sends(k, x)
    BY <1>5, <1>t, <2>1, <2>2 DEF Sends, HasText, SentenceKind
  <2> QED BY <1>1, <1>5, <2>2, <2>3
<1>6. ASSUME NEW u \in (up[k].lastFinal + 1) .. MaxIds, NEW t \in Times, NEW y \in {<<>>, <<u>>},
             Forward(k, Ev("final", u, t, <<>>, y)),
             up' = [up EXCEPT ![k].lastFinal = u, ![k].heard = @ \o y]
      PROVE  Arrives(j)
  <2>1. u \in Ids /\ up[k].lastFinal < u /\ up[k].lastFinal <= u /\ u <= u
    BY <1>6, <1>t, ConstTypes DEF Ids
  <2>2. PICK x \in Event : Forward(k, x) /\ x.kind = "final" /\ x.id = u
    <3>1. t \in Int /\ <<>> \in Text /\ y \in Text
      <4>1. t \in Int
        BY BridgeAssumption
      <4>2. u \in Nat
        BY <2>1 DEF Ids
      <4>3. <<u>> \in Seq(Nat) /\ <<>> \in Seq(Nat)
        BY <4>2
      <4> QED BY <1>6, <4>1, <4>3 DEF Text
    <3> DEFINE x == Ev("final", u, t, <<>>, y)
    <3>2. x \in Event
      BY <2>1, <3>1, EventsTyped
    <3>3. x.kind = "final" /\ x.id = u
      BY DEF Ev
    <3> HIDE DEF x
    <3> QED BY <1>6, <3>2, <3>3 DEF x
  <2>3. /\ up'[k].lastFinal = u /\ up'[k].items = up[k].items
        /\ \A i \in Turn \ {k} : up'[i] = up[i]
    BY <1>6, <1>t DEF TaskRecord
  <2>4. Sends(k, x)
    BY <2>1, <2>2, <2>3 DEF Sends, HasText, SentenceKind
  <2> QED BY <1>1, <2>2, <2>3, <2>4
<1>7. CASE UpFinished(k) \/ UpErr(k)
  <2>1. PICK x \in Event : Forward(k, x) /\ ~HasText(x) /\ x.kind \notin SentenceKind
    BY <1>7, EventsTyped DEF UpFinished, UpErr, HasText, SentenceKind, Plain, Ev
  <2>2. /\ up'[k].items = up[k].items /\ up'[k].lastFinal = up[k].lastFinal
        /\ \A i \in Turn \ {k} : up'[i] = up[i]
    BY <1>7, <1>t DEF UpFinished, UpErr, TaskRecord
  <2>3. Sends(k, x)
    BY <1>t, <2>1, <2>2 DEF Sends, SentenceKind
  <2> QED BY <1>1, <2>1, <2>2, <2>3
<1> QED BY <1>2, <1>3, <1>4, <1>5, <1>6, <1>7 DEF Task, UpQwen, UpSentence

LEMMA ForgetSilent ==
  ASSUME Typed, NEW k, Forget(k), NEW j \in Turn
  PROVE  Silent(j)
BY DEF Forget, Silent, Typed, TypeOK, TaskRecord

LEMMA ProcessSilent ==
  ASSUME Typed, NEW k, NEW e, Process(k, e), NEW j \in Turn
  PROVE  Silent(j)
<1>1. up' = up \/ Forget(k)
  BY DEF Process, Ignore, ProcessErr, ProcessFinished, VadSentence, TurnSentence, QwenItem,
         QwenStage, Reject
<1>2. CASE up' = up
  BY <1>2 DEF Silent
<1> QED BY <1>1, <1>2, ForgetSilent

LEMMA ClientTraffic ==
  ASSUME Typed, OrderInv, ReplayInv, phase' = "running", Client, NEW j \in Turn
  PROVE  Traffic(j)
<1>0. Serving /\ Served
  BY DEF Client, Refused, SessionUpdate, AppendMore, AppendFirst, Commit, Clear
<1>t. turn \in [Turn -> TurnRecord] /\ up \in [Turn -> TaskRecord]
  BY DEF Typed, TypeOK
<1>1. ASSUME turn'[j].queued = turn[j].queued, Silent(j) PROVE Traffic(j)
  BY <1>0, <1>1, ClientTrafficMoves DEF Traffic, Arrives
<1>2. CASE Refused \/ SessionUpdate
  <2>1. turn' = turn /\ up' = up
    BY <1>2 DEF Refused, SessionUpdate
  <2> QED BY <1>1, <2>1 DEF Silent
<1>3. CASE AppendMore
  <2>1. turn'[j].queued = turn[j].queued /\ up' = up
    BY <1>3, <1>t DEF AppendMore, TurnRecord
  <2> QED BY <1>1, <2>1 DEF Silent
<1>4. CASE AppendFirst
  <2>1. \/ turn' = turn /\ up' = up
        \/ /\ turnOrder < MaxTurns
           /\ turn' = [turn EXCEPT ![turnOrder + 1] = [NewTurn(settings) EXCEPT !.samples = 1]]
           /\ up' = [up EXCEPT ![turnOrder + 1].started = TRUE, ![turnOrder + 1].open = TRUE,
                               ![turnOrder + 1].qwen = IsQwen(settings)]
    BY <1>4 DEF AppendFirst
  <2>2. CASE turn' = turn /\ up' = up
    BY <1>1, <2>2 DEF Silent
  <2>3. CASE /\ turn' = [turn EXCEPT ![turnOrder + 1] = [NewTurn(settings) EXCEPT !.samples = 1]]
             /\ up' = [up EXCEPT ![turnOrder + 1].started = TRUE, ![turnOrder + 1].open = TRUE,
                                 ![turnOrder + 1].qwen = IsQwen(settings)]
    <3>1. Silent(j)
      BY <1>t, <2>3 DEF Silent, TaskRecord
    <3>2. CASE j = turnOrder + 1
      <4>1. turnOrder \in Int /\ j \notin live
        BY <1>0, <3>2, ConstTypes DEF OrderInv, Serving, Typed, TypeOK
      <4>2. turn[j].queued = <<>>
        BY <4>1 DEF ReplayInv
      <4>3. turn'[j].queued = <<>>
        BY <1>t, <2>3, <3>2 DEF NewTurn
      <4> QED BY <1>1, <3>1, <4>2, <4>3
    <3>3. CASE j # turnOrder + 1
      <4>1. turn'[j] = turn[j]
        BY <1>t, <2>3, <3>3
      <4> QED BY <1>1, <3>1, <4>1
    <3> QED BY <3>2, <3>3
  <2> QED BY <2>1, <2>2, <2>3
<1>5. CASE Commit
  <2>1. turn'[j].queued = turn[j].queued
    BY <1>5, <1>t DEF Commit, TurnRecord
  <2>2. Silent(j)
    BY <1>5, <1>t DEF Commit, Finish, Silent, TaskRecord
  <2> QED BY <1>1, <2>1, <2>2
<1>6. CASE Clear
  <2>1. CASE UNCHANGED <<turn, up>>
    BY <1>1, <2>1 DEF Silent
  <2>2. CASE /\ turn' = [turn EXCEPT ![active].cleared = TRUE, ![active].committed = TRUE]
             /\ Finish(active)
    <3>1. turn'[j].queued = turn[j].queued
      BY <1>t, <2>2 DEF TurnRecord
    <3>2. Silent(j)
      BY <2>2, <1>t DEF Finish, Silent, TaskRecord
    <3> QED BY <1>1, <3>1, <3>2
  <2>3. CASE Forget(active)
    <3>1. Silent(j)
      BY <2>3, ForgetSilent
    <3>2. CASE j = active
      <4>1. turn'[j].queued = <<>>
        BY <2>3, <3>2, ForgetQueue
      <4>2. j \notin live'
        BY <2>3, <3>2 DEF Forget
      <4> QED BY <1>0, <3>1, <4>1, <4>2, ClientTrafficMoves DEF Traffic
    <3>3. CASE j # active
      <4>1. turn'[j] = turn[j]
        BY <1>t, <2>3, <3>3 DEF Forget
      <4> QED BY <1>1, <3>1, <4>1
    <3> QED BY <3>2, <3>3
  <2> QED BY <1>6, <2>1, <2>2, <2>3 DEF Clear
<1> QED BY <1>2, <1>3, <1>4, <1>5, <1>6 DEF Client

LEMMA LoopTraffic ==
  ASSUME Typed, OrderInv, ReplayInv, phase' = "running", Loop, NEW j \in Turn
  PROVE  Traffic(j)
<1>1. CASE Upstream
  <2> DEFINE k == Head(inbox).key
             e == Head(inbox).event
  <2>1. /\ k \in Turn /\ e \in Event
        /\ \A i \in Turn \ {k} : Stays(i) /\ turn'[i] = turn[i]
        /\ \/ k \notin live /\ Ignore /\ Shrinks(k)
           \/ /\ k \in live /\ Blocked(k) /\ Hold(k, e)
              /\ Stays(k) \/ \E g, m : Merges(k, g, e, m) /\ Merged(g, e, m)
           \/ k \in live /\ ~Blocked(k) /\ Process(k, e) /\ Pops(k, e)
    BY <1>1, UpstreamMoves
  <2>2. Silent(j)
    <3>1. CASE Ignore \/ Hold(k, e)
      <4>1. up' = up
        BY <3>1 DEF Ignore, Hold, Reject
      <4> QED BY <4>1 DEF Silent
    <3>2. CASE Process(k, e)
      BY <3>2, ProcessSilent
    <3> QED BY <2>1, <3>1, <3>2
  <2>3. CASE j # k
    BY <2>1, <2>2, <2>3 DEF Traffic, Arrives
  <2>4. CASE j = k
    <3> HIDE DEF k, e
    <3>1. Ignore => live' = live
      BY DEF Ignore
    <3> QED BY <2>1, <2>2, <2>4, <3>1 DEF Traffic, Arrives
  <2> QED BY <2>3, <2>4
<1>2. CASE DrainNext
  <2>1. Stays(j)
    BY <1>2, DrainMoves
  <2>2. up' = up
    BY <1>2 DEF DrainNext
  <2> QED BY <2>1, <2>2 DEF Traffic, Arrives, Silent
<1>3. CASE Replay
  <2> DEFINE k == cur
             e == Head(batch)
  <2>1. /\ k \in Turn /\ e \in Event
        /\ Process(k, e) /\ Pops(k, e)
        /\ \A i \in Turn \ {k} : Stays(i) /\ turn'[i] = turn[i]
    BY <1>3, ReplayMoves
  <2>2. Silent(j)
    BY <2>1, ProcessSilent
  <2> HIDE DEF k, e
  <2> QED BY <2>1, <2>2 DEF Traffic, Arrives
<1> QED BY <1>1, <1>2, <1>3 DEF Loop

LEMMA StepTraffic ==
  ASSUME Typed, OrderInv, ReplayInv, phase = "running", phase' = "running", [Next]_vars,
         NEW j \in Turn
  PROVE  Traffic(j)
<1>1. CASE Disconnect \/ Terminated \/ UNCHANGED vars
  <2>1. UNCHANGED <<inbox, cur, batch, turn, up>>
    BY <1>1 DEF Disconnect, Terminated, vars, loop
  <2>2. Ahead(j)' = Ahead(j)
    BY <2>1 DEF Ahead
  <2> QED BY <2>1, <2>2, SameStays DEF Traffic, Arrives, Silent
<1> QED BY <1>1, LoopTraffic, ClientTraffic, TaskArrives DEF Next, Traffic

-----------------------------------------------------------------------------
(* What a step may tell the client of the items of a turn, and the book    *)
(* that the turn keeps of them.                                            *)

\* What a step may tell the client of an item: announce it, go on with it, give
\* it its outcome.  An error that ends the session is reported once.
Told(i) ==
  \/ doc'[i] = doc[i]
  \/ /\ doc[i].st = "committed" \/ (doc[i].st = "none" /\ Announced(i)')
     /\ \/ doc'[i].st = "committed" /\ doc'[i].ends = doc[i].ends
        \/ /\ doc'[i].st = "completed" /\ doc'[i].shown = doc'[i].transcript
           /\ doc'[i].ends = doc[i].ends + 1
        \/ doc'[i].st = "failed" /\ doc'[i].ends = doc[i].ends + 1
  \/ /\ phase' = "ended" /\ doc[i].ends = 0
     /\ doc'[i].st = "failed" /\ doc'[i].ends = 1 /\ doc'[i].shown = doc[i].shown

\* The step is one of turn k, and its book is right afterwards.
Booked(k) ==
  /\ \A i \in Item : Told(i) /\ (i[1] # k => doc'[i] = doc[i])
  /\ turn[k].cleared =>
       \A u \in Uid : doc[<<k, u>>].st = "none" => doc'[<<k, u>>].st = "none"
  /\ phase' = "running" /\ k \in live' => Book(k, turn'[k], doc')
  /\ phase' = "running" /\ k \notin live' => \A u \in Uid : doc'[<<k, u>>].st # "committed"

LEMMA AddedAt ==
  ASSUME NEW d \in DocType, NEW i \in Item
  PROVE  /\ \A j \in Item : j # i => Added(d, i)[j] = d[j]
         /\ Added(d, i)[i].st = "committed" /\ Added(d, i)[i].shown = d[i].shown
         /\ Added(d, i)[i].ends = d[i].ends
BY DEF Added, DocType, DocRecord

LEMMA DeltaAt ==
  ASSUME NEW d \in DocType, NEW i \in Item, NEW x \in Text
  PROVE  /\ \A j \in Item : j # i => Delta(d, i, x)[j] = d[j]
         /\ Delta(d, i, x)[i].st = d[i].st /\ Delta(d, i, x)[i].shown = d[i].shown \o x
         /\ Delta(d, i, x)[i].ends = d[i].ends
BY DEF Delta, DocType, DocRecord

LEMMA CompletedAt ==
  ASSUME NEW d \in DocType, NEW i \in Item, NEW x \in Text
  PROVE  /\ \A j \in Item : j # i => Completed(d, i, x)[j] = d[j]
         /\ Completed(d, i, x)[i].st = "completed" /\ Completed(d, i, x)[i].shown = d[i].shown
         /\ Completed(d, i, x)[i].transcript = x /\ Completed(d, i, x)[i].ends = d[i].ends + 1
<1> DEFINE r == [d[i] EXCEPT !.st = "completed", !.transcript = x, !.ends = @ + 1]
<1>1. Completed(d, i, x) = [d EXCEPT ![i] = r]
  BY DEF Completed, DocType, DocRecord
<1>2. r.st = "completed" /\ r.shown = d[i].shown /\ r.transcript = x /\ r.ends = d[i].ends + 1
  BY DEF DocType, DocRecord
<1> HIDE DEF r
<1>3. \A j \in Item : [d EXCEPT ![i] = r][j] = IF j = i THEN r ELSE d[j]
  BY DEF DocType
<1>4. Completed(d, i, x)[i] = r /\ \A j \in Item : j # i => Completed(d, i, x)[j] = d[j]
  BY <1>1, <1>3
<1> QED BY <1>2, <1>4

LEMMA FailedAt ==
  ASSUME NEW d \in DocType, NEW i \in Item
  PROVE  /\ \A j \in Item : j # i => Failed(d, {i})[j] = d[j]
         /\ Failed(d, {i})[i].st = "failed" /\ Failed(d, {i})[i].ends = d[i].ends + 1
BY DEF Failed, DocType, DocRecord

LEMMA AnnouncedNow ==
  ASSUME Typed, NEW i, commits' = Append(commits, i)
  PROVE  Announced(i)'
<1>1. commits \in Seq(Item)
  BY DEF Typed, TypeOK
<1>2. Len(commits) + 1 \in 1 .. Len(commits') /\ commits'[Len(commits) + 1] = i
  BY <1>1
<1> QED BY <1>2 DEF Announced

LEMMA CommitTold ==
  ASSUME Typed, NEW i \in Item, NEW x \in Text, CommitItem(i, x), doc[i].st = "none"
  PROVE  /\ \A j \in Item : Told(j) /\ (j # i => doc'[j] = doc[j])
         /\ doc'[i].st = "committed" /\ doc'[i].shown = doc[i].shown \o x
<1>1. doc \in DocType /\ Added(doc, i) \in DocType
  BY DocTypes DEF Typed, TypeOK, DocType
<1>2. /\ \A j \in Item : j # i => doc'[j] = doc[j]
      /\ doc'[i].st = "committed" /\ doc'[i].shown = doc[i].shown \o x
      /\ doc'[i].ends = doc[i].ends
  <2> DEFINE a == Added(doc, i)
  <2>1. /\ \A j \in Item : j # i => a[j] = doc[j]
        /\ a[i].st = "committed" /\ a[i].shown = doc[i].shown /\ a[i].ends = doc[i].ends
    BY <1>1, AddedAt
  <2> HIDE DEF a
  <2>2. /\ \A j \in Item : j # i => Delta(a, i, x)[j] = a[j]
        /\ Delta(a, i, x)[i].st = a[i].st /\ Delta(a, i, x)[i].shown = a[i].shown \o x
        /\ Delta(a, i, x)[i].ends = a[i].ends
    BY <1>1, DeltaAt DEF a
  <2>3. doc' = Delta(a, i, x)
    BY DEF CommitItem, a
  <2> QED BY <2>1, <2>2, <2>3
<1>3. Announced(i)'
  BY AnnouncedNow DEF CommitItem
<1> QED BY <1>2, <1>3 DEF Told

LEMMA EmptyFirst == \A x \in Text : <<>> \o x = x /\ <<>> \in Text
BY DEF Text

-----------------------------------------------------------------------------
(* What the events of an item do to a Qwen turn.                           *)

\* The fields of a turn that the books are about, but for the items.
Alike(r, t) ==
  /\ r.mode = t.mode /\ r.committed = t.committed /\ r.cleared = t.cleared
  /\ r.delayed = t.delayed /\ r.bound = t.bound /\ r.item = t.item
  /\ r.sentence = t.sentence /\ r.text = t.text

\* The five ways in which an event of item u is served: t is the turn before
\* it, i the item as the client knows it.
Staged(k, e, t, i) ==
  LET a == t.items[e.id]
      b == turn'[k].items[e.id]
  IN  \/ /\ ~HasText(e) /\ b = a /\ UNCHANGED client
      \/ /\ ~HasText(e) /\ a.st = "open" /\ b = [st |-> "committed", text |-> a.text]
         /\ CommitItem(i, a.text)
      \/ /\ HasText(e) /\ b = [st |-> a.st, text |-> e.text] /\ UNCHANGED commits
         /\ doc' = IF a.st = "committed" THEN Delta(doc, i, e.delta) ELSE doc
      \/ /\ HasText(e) /\ a.st = "committed" /\ b = [st |-> "done", text |-> <<>>]
         /\ doc' = Completed(Delta(doc, i, e.delta), i, e.text) /\ UNCHANGED commits
      \/ /\ ~HasText(e) /\ a.st = "committed" /\ b = [st |-> "done", text |-> <<>>]
         /\ doc' = Failed(doc, {i}) /\ UNCHANGED commits

LEMMA StageParts ==
  ASSUME Typed, phase' = "running", NEW k \in Turn, NEW e \in Event, e.id \in Ids,
         NEW t \in TurnRecord, QwenStage(k, e, t)
  PROVE  /\ live' = live /\ up' = up
         /\ Alike(turn'[k], t)
         /\ \A v \in Ids : v # e.id => turn'[k].items[v] = t.items[v]
         /\ Staged(k, e, t, <<k, IF t.mode = "qwenManual" THEN t.item ELSE e.id>>)
<1> DEFINE u == e.id
           i == <<k, IF t.mode = "qwenManual" THEN t.item ELSE u>>
           I == [st : {"absent", "open", "committed", "done"}, text : Text]
           Conclusion == /\ live' = live /\ up' = up
                         /\ Alike(turn'[k], t)
                         /\ \A v \in Ids : v # e.id => turn'[k].items[v] = t.items[v]
                         /\ Staged(k, e, t, i)
<1> SUFFICES Conclusion
  OBVIOUS
<1>t. turn \in [Turn -> TurnRecord] /\ t.items \in [Ids -> I] /\ t.items[u] \in I
  BY DEF Typed, TypeOK, TurnRecord
<1>item. ASSUME NEW b \in I, turn' = [turn EXCEPT ![k] = [t EXCEPT !.items[u] = b]]
         PROVE  /\ Alike(turn'[k], t) /\ turn'[k].items[u] = b
                /\ \A v \in Ids : v # u => turn'[k].items[v] = t.items[v]
  BY <1>t, <1>item DEF Alike, TurnRecord
<1>x. e.text \in Text /\ <<>> \in Text
  BY EventTypes DEF Text
<1>1. CASE /\ e.kind = "started" \/ (e.kind = "committed" /\ t.items[u].st = "committed")
           /\ turn' = [turn EXCEPT ![k] = t] /\ Continue /\ UNCHANGED <<live, up>>
           /\ UNCHANGED client
  <2>1. turn'[k] = t /\ ~HasText(e)
    BY <1>1, <1>t DEF HasText
  <2> HIDE DEF i
  <2> QED BY <1>1, <2>1 DEF Alike, Staged
<1>2. CASE /\ e.kind = "stopped"
           /\ turn' = [turn EXCEPT ![k] = [t EXCEPT !.consumed = Boundary(k, e.time)]]
           /\ Continue /\ UNCHANGED <<live, up>>
           /\ UNCHANGED client
  <2>1. Alike(turn'[k], t) /\ turn'[k].items = t.items /\ ~HasText(e)
    BY <1>2, <1>t DEF HasText, Alike, TurnRecord
  <2> HIDE DEF i
  <2> QED BY <1>2, <2>1 DEF Staged
<1>3. CASE /\ e.kind = "committed" /\ t.items[u].st = "open"
           /\ turn' = [turn EXCEPT ![k] = [t EXCEPT !.items[u].st = "committed"]]
           /\ Continue /\ UNCHANGED <<live, up>>
           /\ CommitItem(i, t.items[u].text)
  <2> DEFINE b == [st |-> "committed", text |-> t.items[u].text]
  <2>1. [t EXCEPT !.items[u].st = "committed"] = [t EXCEPT !.items[u] = b]
    <3>1. [t.items[u] EXCEPT !.st = "committed"] = b
      BY <1>t
    <3> QED BY <3>1
  <2>2. b \in I /\ ~HasText(e)
    BY <1>3, <1>t DEF HasText
  <2> HIDE DEF i, b
  <2>3. /\ Alike(turn'[k], t) /\ turn'[k].items[u] = b
        /\ \A v \in Ids : v # u => turn'[k].items[v] = t.items[v]
    BY <1>3, <1>item, <2>1, <2>2
  <2> QED BY <1>3, <2>2, <2>3 DEF Staged, b
<1>4. CASE /\ e.kind = "delta"
           /\ turn' = [turn EXCEPT ![k] = [t EXCEPT !.items[u].text = e.text]]
           /\ Continue /\ UNCHANGED <<live, up>>
           /\ doc' = IF t.items[u].st = "committed" THEN Delta(doc, i, e.delta) ELSE doc
           /\ UNCHANGED commits
  <2> DEFINE b == [st |-> t.items[u].st, text |-> e.text]
  <2>1. [t EXCEPT !.items[u].text = e.text] = [t EXCEPT !.items[u] = b]
    <3>1. [t.items[u] EXCEPT !.text = e.text] = b
      BY <1>t
    <3> QED BY <3>1
  <2>2. b \in I /\ HasText(e)
    BY <1>4, <1>t, <1>x DEF HasText
  <2> HIDE DEF i, b
  <2>3. /\ Alike(turn'[k], t) /\ turn'[k].items[u] = b
        /\ \A v \in Ids : v # u => turn'[k].items[v] = t.items[v]
    BY <1>4, <1>item, <2>1, <2>2
  <2> QED BY <1>4, <2>2, <2>3 DEF Staged, b
<1>5. CASE /\ turn' = [turn EXCEPT ![k] = [t EXCEPT !.items[u] = [st |-> "done", text |-> <<>>]]]
           /\ t.items[u].st = "committed"
           /\ Continue /\ UNCHANGED <<live, up>>
           /\ \/ e.kind = "completed" /\ doc' = Completed(Delta(doc, i, e.delta), i, e.text)
              \/ e.kind = "failed" /\ doc' = Failed(doc, {i})
           /\ UNCHANGED commits
  <2> DEFINE b == [st |-> "done", text |-> <<>>]
  <2>1. b \in I /\ (e.kind = "completed" => HasText(e)) /\ (e.kind = "failed" => ~HasText(e))
    BY <1>x DEF HasText
  <2> HIDE DEF i
  <2>2. /\ Alike(turn'[k], t) /\ turn'[k].items[u] = b
        /\ \A v \in Ids : v # u => turn'[k].items[v] = t.items[v]
    BY <1>5, <1>item, <2>1
  <2> QED BY <1>5, <2>1, <2>2 DEF Staged
<1>6. ~Reject
  BY DEF Reject, End
<1> QED BY <1>1, <1>2, <1>3, <1>4, <1>5, <1>6 DEF QwenStage

LEMMA StagedTold ==
  ASSUME Typed, NoneShown, NEW k, NEW e \in Event, e.id \in Ids, NEW t \in TurnRecord,
         NEW i \in Item, Staged(k, e, t, i),
         t.items[e.id].st \in {"open", "committed"},
         OpenItem(t.items[e.id], doc[i]), ToldItem(t.items[e.id], doc[i]),
         HasText(e) => t.items[e.id].text \o e.delta = e.text
  PROVE  /\ \A j \in Item : Told(j) /\ (j # i => doc'[j] = doc[j])
         /\ turn'[k].items[e.id].st # "absent"
         /\ OpenItem(turn'[k].items[e.id], doc'[i]) /\ ToldItem(turn'[k].items[e.id], doc'[i])
         /\ t.items[e.id].st = "committed" => turn'[k].items[e.id].st # "open"
<1> DEFINE a == t.items[e.id]
           b == turn'[k].items[e.id]
<1>d. /\ doc \in DocType /\ e.delta \in Text /\ e.text \in Text /\ a.text \in Text
      /\ Delta(doc, i, e.delta) \in DocType
  BY EventTypes, DocTypes DEF Typed, TypeOK, DocType, TurnRecord
<1>a. a.st = "open" \/ a.st = "committed"
  OBVIOUS
<1> HIDE DEF a, b
<1>b. /\ a.st = "open" => doc[i].st = "none"
      /\ a.st = "committed" => doc[i].st = "committed" /\ doc[i].shown = a.text
      /\ HasText(e) => a.text \o e.delta = e.text
  BY DEF OpenItem, ToldItem, a
<1>c. Staged(k, e, t, i) <=>
        \/ /\ ~HasText(e) /\ b = a /\ UNCHANGED client
        \/ /\ ~HasText(e) /\ a.st = "open" /\ b = [st |-> "committed", text |-> a.text]
           /\ CommitItem(i, a.text)
        \/ /\ HasText(e) /\ b = [st |-> a.st, text |-> e.text] /\ UNCHANGED commits
           /\ doc' = IF a.st = "committed" THEN Delta(doc, i, e.delta) ELSE doc
        \/ /\ HasText(e) /\ a.st = "committed" /\ b = [st |-> "done", text |-> <<>>]
           /\ doc' = Completed(Delta(doc, i, e.delta), i, e.text) /\ UNCHANGED commits
        \/ /\ ~HasText(e) /\ a.st = "committed" /\ b = [st |-> "done", text |-> <<>>]
           /\ doc' = Failed(doc, {i}) /\ UNCHANGED commits
  BY DEF Staged, a, b
<1> DEFINE Goal == /\ \A j \in Item : Told(j) /\ (j # i => doc'[j] = doc[j])
                   /\ b.st # "absent" /\ OpenItem(b, doc'[i]) /\ ToldItem(b, doc'[i])
                   /\ a.st = "committed" => b.st # "open"
<1>1. CASE ~HasText(e) /\ b = a /\ UNCHANGED client
  <2>1. \A j \in Item : Told(j) /\ doc'[j] = doc[j]
    BY <1>1 DEF client, Told
  <2> QED BY <1>1, <1>a, <1>b, <2>1 DEF OpenItem, ToldItem, a, b
<1>2. CASE /\ a.st = "open" /\ b = [st |-> "committed", text |-> a.text]
           /\ CommitItem(i, a.text)
  <2>1. /\ \A j \in Item : Told(j) /\ (j # i => doc'[j] = doc[j])
        /\ doc'[i].st = "committed" /\ doc'[i].shown = doc[i].shown \o a.text
    BY <1>2, <1>b, <1>d, CommitTold
  <2>2. doc'[i].shown = a.text
    BY <1>2, <1>b, <1>d, <2>1, EmptyFirst DEF NoneShown
  <2>3. Goal
    BY <1>2, <2>1, <2>2 DEF OpenItem, ToldItem
  <2> QED BY <2>3 DEF a, b
<1>3. CASE /\ HasText(e) /\ b = [st |-> a.st, text |-> e.text]
           /\ doc' = IF a.st = "committed" THEN Delta(doc, i, e.delta) ELSE doc
  <2>1. CASE a.st = "committed"
    <3>1. /\ \A j \in Item : j # i => doc'[j] = doc[j]
          /\ doc'[i].st = doc[i].st /\ doc'[i].shown = doc[i].shown \o e.delta
          /\ doc'[i].ends = doc[i].ends
      BY <1>3, <1>d, <2>1, DeltaAt, ZenonT(30)
    <3>2. doc'[i].shown = e.text /\ doc'[i].st = "committed"
      BY <1>3, <1>b, <2>1, <3>1
    <3>3. \A j \in Item : Told(j)
      BY <1>b, <2>1, <3>1, <3>2 DEF Told
    <3>4. Goal
      BY <1>3, <2>1, <3>1, <3>2, <3>3 DEF OpenItem, ToldItem
    <3> QED BY <3>4 DEF a, b
  <2>2. CASE a.st = "open"
    <3>1. \A j \in Item : Told(j) /\ doc'[j] = doc[j]
      BY <1>3, <2>2 DEF Told
    <3>2. Goal
      BY <1>3, <1>b, <2>2, <3>1 DEF OpenItem, ToldItem
    <3> QED BY <3>2 DEF a, b
  <2> QED BY <1>a, <2>1, <2>2
<1>4. CASE /\ HasText(e) /\ a.st = "committed" /\ b = [st |-> "done", text |-> <<>>]
           /\ doc' = Completed(Delta(doc, i, e.delta), i, e.text)
  <2>0. PICK d \in DocType, x \in Text : d = Delta(doc, i, e.delta) /\ x = e.text
    BY <1>d
  <2>1. /\ \A j \in Item : j # i => d[j] = doc[j]
        /\ d[i].shown = doc[i].shown \o e.delta
        /\ d[i].ends = doc[i].ends
    <3>1. PICK y \in Text : y = e.delta
      BY <1>d
    <3>2. doc \in DocType /\ d = Delta(doc, i, y)
      BY <1>d, <2>0, <3>1
    <3>3. /\ \A j \in Item : j # i => Delta(doc, i, y)[j] = doc[j]
          /\ Delta(doc, i, y)[i].shown = doc[i].shown \o y
          /\ Delta(doc, i, y)[i].ends = doc[i].ends
      BY <3>2, DeltaAt
    <3> QED BY <3>1, <3>2, <3>3
  <2>2. /\ \A j \in Item : j # i => Completed(d, i, x)[j] = d[j]
        /\ Completed(d, i, x)[i].st = "completed"
        /\ Completed(d, i, x)[i].shown = d[i].shown
        /\ Completed(d, i, x)[i].transcript = x
        /\ Completed(d, i, x)[i].ends = d[i].ends + 1
    <3>1. \A j \in Item : j # i => Completed(d, i, x)[j] = d[j]
      BY CompletedAt
    <3>2. Completed(d, i, x)[i].st = "completed" /\ Completed(d, i, x)[i].shown = d[i].shown
      BY CompletedAt
    <3>3. Completed(d, i, x)[i].transcript = x /\ Completed(d, i, x)[i].ends = d[i].ends + 1
      BY CompletedAt
    <3> QED BY <3>1, <3>2, <3>3
  <2>3. /\ \A j \in Item : j # i => doc'[j] = d[j]
        /\ doc'[i].st = "completed" /\ doc'[i].shown = d[i].shown
        /\ doc'[i].transcript = e.text /\ doc'[i].ends = d[i].ends + 1
    BY <1>4, <2>0, <2>2
  <2>4. \A j \in Item : Told(j) /\ (j # i => doc'[j] = doc[j])
    BY <1>4, <1>b, <2>1, <2>3, ZenonT(30) DEF Told
  <2>5. Goal
    BY <1>4, <2>3, <2>4 DEF OpenItem, ToldItem
  <2> QED BY <2>5 DEF a, b
<1>5. CASE /\ a.st = "committed" /\ b = [st |-> "done", text |-> <<>>]
           /\ doc' = Failed(doc, {i})
  <2>1. /\ \A j \in Item : j # i => doc'[j] = doc[j]
        /\ doc'[i].st = "failed" /\ doc'[i].ends = doc[i].ends + 1
    BY <1>5, <1>d, FailedAt
  <2>2. \A j \in Item : Told(j)
    BY <1>5, <1>b, <2>1 DEF Told
  <2>3. Goal
    BY <1>5, <2>1, <2>2 DEF OpenItem, ToldItem
  <2> QED BY <2>3 DEF a, b
<1> QED BY <1>1, <1>2, <1>3, <1>4, <1>5, <1>c

LEMMA VadStage ==
  ASSUME Typed, NoneShown, NEW k \in Turn, NEW e \in Event, e.id \in Ids, NEW t \in TurnRecord,
         Staged(k, e, t, <<k, e.id>>), Alike(turn'[k], t),
         \A v \in Ids : v # e.id => turn'[k].items[v] = t.items[v],
         t.mode = "qwenVad", t.cleared = turn[k].cleared, VadBook(k, t, doc),
         t.items[e.id].st \in {"open", "committed"},
         t.cleared => t.items[e.id].st = "committed",
         HasText(e) => t.items[e.id].text \o e.delta = e.text,
         k \in live'
  PROVE  Booked(k)
<1> DEFINE u == e.id
           i == <<k, u>>
<1>1. i \in Item /\ i[1] = k /\ <<k, Tail0>> \in Item /\ Tail0 # u
      /\ \A v \in Uid : <<k, v>> \in Item /\ (v # u => <<k, v>> # i)
  BY ConstTypes DEF Item, Tail0, Ids
<1>2. OpenItem(t.items[u], doc[i]) /\ ToldItem(t.items[u], doc[i])
  BY DEF VadBook
<1>3. /\ \A j \in Item : Told(j) /\ (j # i => doc'[j] = doc[j])
      /\ OpenItem(turn'[k].items[u], doc'[i]) /\ ToldItem(turn'[k].items[u], doc'[i])
  BY <1>1, <1>2, StagedTold
<1>4. \A v \in Uid : v # u => doc'[<<k, v>>] = doc[<<k, v>>]
  BY <1>1, <1>3
<1>5. VadBook(k, turn'[k], doc')
  <2>1. /\ turn'[k].item = None /\ turn'[k].text = <<>> /\ ~turn'[k].delayed
        /\ turn'[k].cleared => turn'[k].committed
    BY DEF VadBook, Alike
  <2>2. doc'[<<k, Tail0>>].st = "none"
    BY <1>1, <1>4, ConstTypes DEF VadBook
  <2>3. ASSUME NEW v \in Ids
        PROVE  OpenItem(turn'[k].items[v], doc'[<<k, v>>]) /\ ToldItem(turn'[k].items[v], doc'[<<k, v>>])
    <3>1. CASE v = u
      BY <1>3, <3>1
    <3>2. CASE v # u
      BY <1>4, <3>2, ConstTypes DEF VadBook
    <3> QED BY <3>1, <3>2
  <2> QED BY <2>1, <2>2, <2>3 DEF VadBook
<1>6. ASSUME turn[k].cleared, NEW v \in Uid, doc[<<k, v>>].st = "none"
      PROVE  doc'[<<k, v>>].st = "none"
  <2>1. v # u
    BY <1>2, <1>6 DEF ToldItem
  <2> QED BY <1>4, <1>6, <2>1
<1>7. Book(k, turn'[k], doc')
  BY <1>5 DEF Book, Alike, IsQwen
<1> HIDE DEF i
<1> QED BY <1>1, <1>3, <1>6, <1>7 DEF Booked

LEMMA ManualStage ==
  ASSUME Typed, NoneShown, NEW k \in Turn, NEW e \in Event, e.id \in Ids, NEW t \in TurnRecord,
         Staged(k, e, t, <<k, t.item>>), Alike(turn'[k], t),
         \A v \in Ids : v # e.id => turn'[k].items[v] = t.items[v],
         t.mode = "qwenManual", t.cleared = turn[k].cleared, ManualBook(k, t, doc),
         t.items[e.id].st = "committed", ~t.delayed,
         HasText(e) => t.items[e.id].text \o e.delta = e.text,
         k \in live'
  PROVE  Booked(k)
<1> DEFINE u == e.id
           i == <<k, Tail0>>
<1>1. i \in Item /\ i[1] = k /\ \A v \in Ids : <<k, v>> \in Item /\ <<k, v>> # i
  BY ConstTypes DEF Item, Tail0, Ids
<1>2. /\ t.bound /\ ToldItem(t.items[u], doc[i]) /\ OpenItem(t.items[u], doc[i])
      /\ t.committed /\ t.item = Tail0
      /\ \A v \in Ids \ {u} : t.items[v].st = "absent"
  BY DEF ManualBook, OpenItem
<1>3. /\ \A j \in Item : Told(j) /\ (j # i => doc'[j] = doc[j])
      /\ turn'[k].items[u].st # "absent"
      /\ OpenItem(turn'[k].items[u], doc'[i]) /\ ToldItem(turn'[k].items[u], doc'[i])
  <2>1. Staged(k, e, t, i)
    BY <1>2
  <2>2. t.items[u].st \in {"open", "committed"}
    OBVIOUS
  <2> HIDE DEF i
  <2> QED BY <1>1, <1>2, <2>1, <2>2, StagedTold, ZenonT(30)
<1>4. \A v \in Ids : doc'[<<k, v>>].st = "none"
  BY <1>1, <1>3, SMTT(30) DEF ManualBook
<1>5. /\ turn'[k].text = <<>> /\ ~turn'[k].cleared /\ turn'[k].item = Tail0
      /\ turn'[k].committed /\ ~turn'[k].delayed /\ turn'[k].bound
      /\ turn'[k].mode = "qwenManual" /\ ~turn[k].cleared
  BY <1>2 DEF ManualBook, Alike
<1>6. ASSUME NEW v \in Ids
      PROVE  /\ turn'[k].items[v].st = "absent" => turn'[k].items[v].text = <<>>
             /\ turn'[k].items[v].st # "absent" =>
                  /\ \A w \in Ids \ {v} : turn'[k].items[w].st = "absent"
                  /\ ToldItem(turn'[k].items[v], doc'[i])
  <2>1. CASE v = u
    BY <1>2, <1>3, <2>1
  <2>2. CASE v # u
    BY <1>2, <2>2, SMTT(30) DEF ManualBook
  <2> QED BY <2>1, <2>2
<1>7. ManualBook(k, turn'[k], doc')
  BY <1>3, <1>4, <1>5, <1>6 DEF ManualBook
<1>8. Book(k, turn'[k], doc')
  BY <1>5, <1>7 DEF Book, IsQwen
<1> HIDE DEF i
<1> QED BY <1>1, <1>3, <1>5, <1>8 DEF Booked

-----------------------------------------------------------------------------
(* The text of the items of a Qwen turn.                                   *)

LEMMA ItemTyped ==
  ASSUME NEW t \in TurnRecord, NEW u \in Ids
  PROVE  t.items[u].text \in Text /\ Len(t.items[u].text) \in Nat
         /\ t.items[u].st \in {"absent", "open", "committed", "done"}
BY DEF TurnRecord, Text

\* Item v does not notice an event of another item.
LEMMA OthersText ==
  ASSUME Typed, NEW k \in Turn, StreamOf(k), NEW e, Pops(k, e), Silent(k),
         NEW t \in TurnRecord, IsQwen(t.mode), TextOf(k, t),
         NEW r, NEW v \in Ids, ~(HasText(e) /\ e.id = v),
         Listening(r, v) => Listening(t, v) /\ r.items[v].text = t.items[v].text
  PROVE  Listening(r, v) => /\ r.items[v].text = Chunks(0, Len(r.items[v].text))
                            /\ Reaches(k, v, Len(r.items[v].text))'
<1> SUFFICES ASSUME Listening(r, v)
             PROVE  /\ r.items[v].text = Chunks(0, Len(r.items[v].text))
                    /\ Reaches(k, v, Len(r.items[v].text))'
  OBVIOUS
<1> DEFINE l == Len(t.items[v].text)
<1>1. /\ r.items[v].text = t.items[v].text /\ t.items[v].text = Chunks(0, l)
      /\ Reaches(k, v, l) /\ l \in Nat
  BY ItemTyped DEF TextOf
<1>2. l = Len(r.items[v].text)
  BY <1>1
<1> HIDE DEF l
<1>3. Reaches(k, v, l)'
  BY <1>1, PopReaches
<1> QED BY <1>1, <1>2, <1>3

\* An event that is processed continues the text of its item.
LEMMA TextFits ==
  ASSUME Typed, NEW k \in Turn, StreamOf(k), NEW e, Pops(k, e), Silent(k),
         NEW t \in TurnRecord, IsQwen(t.mode), TextOf(k, t),
         HasText(e), e.id \in Ids, Listening(t, e.id)
  PROVE  /\ t.items[e.id].text \o e.delta = e.text
         /\ e.text = Chunks(0, Len(e.text)) /\ Reaches(k, e.id, Len(e.text))'
<1>1. PICK l \in Nat, u \in Ids : l = Len(t.items[e.id].text) /\ u = e.id
  BY ItemTyped
<1>2. t.items[u].text = Chunks(0, l) /\ Reaches(k, u, l)
  BY <1>1 DEF TextOf
<1>3. /\ e.text = Chunks(0, l) \o e.delta
      /\ e.text = Chunks(0, Len(e.text)) /\ Reaches(k, u, Len(e.text))'
  BY <1>1, <1>2, PopReaches, ZenonT(30)
<1> QED BY <1>1, <1>2, <1>3

LEMMA StagedText ==
  ASSUME Typed, NEW k \in Turn, StreamOf(k), NEW e \in Event, Pops(k, e), Silent(k), e.id \in Ids,
         turn' \in [Turn -> TurnRecord],
         NEW t \in TurnRecord, IsQwen(t.mode), TextOf(k, t), Listening(t, e.id),
         NEW i, Staged(k, e, t, i), Alike(turn'[k], t),
         \A v \in Ids : v # e.id => turn'[k].items[v] = t.items[v]
  PROVE  TextOf(k, turn[k])'
<1>1. PICK r \in TurnRecord : r = turn'[k]
  OBVIOUS
<1>2. IsQwen(r.mode) /\ r.cleared = t.cleared
  BY <1>1 DEF Alike
<1>3. ASSUME NEW v \in Ids
      PROVE  Listening(r, v) => /\ r.items[v].text = Chunks(0, Len(r.items[v].text))
                                /\ Reaches(k, v, Len(r.items[v].text))'
  <2>1. CASE v # e.id
    <3>1. r.items[v] = t.items[v]
      BY <1>1, <2>1
    <3>2. Listening(r, v) => Listening(t, v)
      BY <1>2, <3>1 DEF Listening, Dropped
    <3> QED BY <2>1, <3>1, <3>2, OthersText
  <2>2. CASE v = e.id /\ HasText(e)
    <3>1. e.text = Chunks(0, Len(e.text)) /\ Reaches(k, v, Len(e.text))'
      BY <2>2, TextFits
    <3>2. r.items[v].st = "done" \/ r.items[v].text = e.text
      BY <1>1, <2>2 DEF Staged
    <3>3. CASE r.items[v].st = "done"
      BY <3>3 DEF Listening, Dropped
    <3>4. CASE r.items[v].text = e.text
      BY <3>1, <3>4
    <3> QED BY <3>2, <3>3, <3>4
  <2>3. CASE v = e.id /\ ~HasText(e)
    <3>1. r.items[v].st = "done" \/ r.items[v].text = t.items[v].text
      BY <1>1, <2>3 DEF Staged
    <3>2. CASE r.items[v].st = "done"
      BY <3>2 DEF Listening, Dropped
    <3>3. CASE r.items[v].text = t.items[v].text
      BY <2>3, <3>3, OthersText
    <3> QED BY <3>1, <3>2, <3>3
  <2> QED BY <2>1, <2>2, <2>3
<1> QED BY <1>1, <1>2, <1>3 DEF TextOf

\* The turn with the item of event e opened, or bound to its commit.
Opened(t, e) ==
  [t EXCEPT !.items[e.id].st = IF t.mode = "qwenManual" THEN "committed" ELSE "open",
            !.bound = t.mode = "qwenManual"]

LEMMA OpenedParts ==
  ASSUME NEW t \in TurnRecord, NEW e, e.id \in Ids, NEW r, r = Opened(t, e)
  PROVE  /\ r \in TurnRecord
         /\ r.mode = t.mode /\ r.committed = t.committed /\ r.cleared = t.cleared
         /\ r.delayed = t.delayed /\ r.item = t.item /\ r.text = t.text
         /\ r.bound = (t.mode = "qwenManual")
         /\ \A v \in Ids : v # e.id => r.items[v] = t.items[v]
         /\ r.items[e.id].text = t.items[e.id].text
         /\ r.items[e.id].st = IF t.mode = "qwenManual" THEN "committed" ELSE "open"
<1> DEFINE I == [st : {"absent", "open", "committed", "done"}, text : Text]
           m == t.mode = "qwenManual"
           s == IF m THEN "committed" ELSE "open"
           i == [t.items[e.id] EXCEPT !.st = s]
           J == [t.items EXCEPT ![e.id] = i]
<1>1. t.items \in [Ids -> I] /\ t.items[e.id] \in I /\ m \in BOOLEAN
  BY DEF TurnRecord
<1>2. i \in I /\ i.text = t.items[e.id].text /\ i.st = s
  BY <1>1
<1> HIDE DEF i, s
<1>3. J \in [Ids -> I] /\ J[e.id] = i /\ \A v \in Ids : v # e.id => J[v] = t.items[v]
  BY <1>1, <1>2
<1>4. Opened(t, e) = [t EXCEPT !.items = J, !.bound = m]
  BY <1>1 DEF Opened, TurnRecord, i, s
<1> HIDE DEF J, m
<1>5. /\ r \in TurnRecord /\ r.items = J /\ r.bound = m
      /\ r.mode = t.mode /\ r.committed = t.committed /\ r.cleared = t.cleared
      /\ r.delayed = t.delayed /\ r.item = t.item /\ r.text = t.text
  BY <1>1, <1>3, <1>4 DEF TurnRecord
<1> QED BY <1>2, <1>3, <1>5 DEF s, m

LEMMA IgnoreBooked ==
  ASSUME Typed, NEW k, Ignore, k \in live, Book(k, turn[k], doc)
  PROVE  Booked(k)
<1>1. UNCHANGED <<live, turn, doc>>
  BY DEF Ignore
<1>2. \A i \in Item : Told(i)
  BY <1>1 DEF Told
<1> QED BY <1>1, <1>2 DEF Booked

\* A turn in which an item was just opened still has its book in order.
LEMMA OpenedBook ==
  ASSUME NEW k, NEW t \in TurnRecord, IsQwen(t.mode), Book(k, t, doc), ~t.delayed,
         NEW e, e.id \in Ids, t.items[e.id].st = "absent", ~t.cleared, ~Mismatch(t),
         NEW r, r = Opened(t, e)
  PROVE  Book(k, r, doc)
<1>1. /\ r.mode = t.mode /\ r.committed = t.committed /\ r.cleared = t.cleared
      /\ r.delayed = t.delayed /\ r.item = t.item /\ r.text = t.text
      /\ r.bound = (t.mode = "qwenManual")
      /\ \A v \in Ids : v # e.id => r.items[v] = t.items[v]
      /\ r.items[e.id].text = t.items[e.id].text
      /\ r.items[e.id].st = IF t.mode = "qwenManual" THEN "committed" ELSE "open"
  BY OpenedParts
<1>2. CASE t.mode = "qwenVad"
  <2>1. VadBook(k, t, doc)
    BY <1>2 DEF Book
  <2>2. ASSUME NEW v \in Ids
        PROVE  OpenItem(r.items[v], doc[<<k, v>>]) /\ ToldItem(r.items[v], doc[<<k, v>>])
    <3>1. CASE v = e.id
      BY <1>1, <1>2, <2>1, <3>1 DEF VadBook, OpenItem, ToldItem
    <3>2. CASE v # e.id
      BY <1>1, <2>1, <3>2 DEF VadBook
    <3> QED BY <3>1, <3>2
  <2>3. VadBook(k, r, doc)
    BY <1>1, <2>1, <2>2 DEF VadBook
  <2> QED BY <1>1, <1>2, <2>3 DEF Book, IsQwen
<1>3. CASE t.mode = "qwenManual"
  <2>1. ManualBook(k, t, doc) /\ t.committed /\ ~t.bound
    BY <1>3 DEF Book, Mismatch
  <2>2. \A v \in Ids : t.items[v].st = "absent" /\ t.items[v].text = <<>>
    BY <2>1 DEF ManualBook
  <2>3. doc[<<k, Tail0>>].st = "committed" /\ doc[<<k, Tail0>>].shown = <<>>
    BY <2>1 DEF ManualBook
  <2>4. ToldItem(r.items[e.id], doc[<<k, Tail0>>])
    BY <1>1, <1>3, <2>2, <2>3 DEF ToldItem
  <2>5. \E u \in Ids : r.items[u].st # "absent"
    BY <1>1, <1>3
  <2>6. ASSUME NEW u \in Ids
        PROVE  /\ r.items[u].st = "absent" => r.items[u].text = <<>>
               /\ r.items[u].st # "absent" => /\ r.bound
                                              /\ \A v \in Ids \ {u} : r.items[v].st = "absent"
                                              /\ ToldItem(r.items[u], doc[<<k, Tail0>>])
    <3>1. CASE u = e.id
      BY <1>1, <1>3, <2>2, <2>4, <3>1, ZenonT(30)
    <3>2. CASE u # e.id
      BY <1>1, <2>2, <3>2
    <3> QED BY <3>1, <3>2
  <2>7. ManualBook(k, r, doc)
    <3>1. /\ r.text = <<>> /\ ~r.cleared /\ r.item = IF r.committed THEN Tail0 ELSE None
          /\ \A u \in Ids : doc[<<k, u>>].st = "none"
          /\ r.committed /\ ~r.delayed /\ r.bound
      BY <1>1, <1>3, <2>1 DEF ManualBook
    <3> QED BY <2>5, <2>6, <3>1 DEF ManualBook
  <2> QED BY <1>1, <1>3, <2>7 DEF Book, IsQwen
<1> QED BY <1>2, <1>3 DEF IsQwen

LEMMA QwenBooked ==
  ASSUME Typed, NoneShown, phase' = "running", turn' \in [Turn -> TurnRecord],
         NEW k \in live, NEW e \in Event, e.id \in Ids, IsQwen(turn[k].mode), QwenItem(k, e),
         StreamOf(k), Pops(k, e), Silent(k), Book(k, turn[k], doc), TextOf(k, turn[k]), ~turn[k].delayed
  PROVE  Booked(k) /\ TextOf(k, turn[k])'
<1> DEFINE u == e.id
<1>k. k \in Turn
  BY DEF Typed, TypeOK
<1>0. PICK t \in TurnRecord : t = turn[k]
  BY <1>k DEF Typed, TypeOK
<1>w. t.items[u].st = "open" => t.mode = "qwenVad"
  BY <1>0, <1>k DEF Typed, WellFormed
<1>s. ASSUME NEW r \in TurnRecord, QwenStage(k, e, r), Book(k, r, doc), TextOf(k, r),
             Listening(r, u), r.items[u].st # "absent", r.mode = t.mode, r.cleared = t.cleared,
             ~r.delayed, r.items[u].st = "open" => r.mode = "qwenVad"
      PROVE  Booked(k) /\ TextOf(k, turn[k])'
  <2> DEFINE i == <<k, IF r.mode = "qwenManual" THEN r.item ELSE u>>
  <2>1. /\ live' = live /\ Alike(turn'[k], r) /\ Staged(k, e, r, i)
        /\ \A v \in Ids : v # e.id => turn'[k].items[v] = r.items[v]
    BY <1>s, <1>k, StageParts
  <2>2. IsQwen(r.mode)
    BY <1>0, <1>s
  <2>3. TextOf(k, turn[k])'
    BY <1>k, <1>s, <2>1, <2>2, StagedText
  <2>4. HasText(e) => r.items[u].text \o e.delta = e.text
    BY <1>k, <1>s, <2>2, TextFits
  <2>5. r.items[u].st \in {"open", "committed"} /\ (r.cleared => r.items[u].st = "committed")
    BY <1>s, ItemTyped DEF Listening, Dropped
  <2>6. CASE r.mode = "qwenVad"
    <3>1. i = <<k, u>> /\ VadBook(k, r, doc)
      BY <1>s, <2>6 DEF Book
    <3> QED BY <1>k, <1>0, <1>s, <2>1, <2>3, <2>4, <2>5, <2>6, <3>1, VadStage
  <2>7. CASE r.mode = "qwenManual"
    <3>1. i = <<k, r.item>> /\ ManualBook(k, r, doc) /\ r.items[u].st = "committed"
      BY <1>s, <2>5, <2>7 DEF Book
    <3> QED BY <1>k, <1>0, <1>s, <2>1, <2>3, <2>4, <2>7, <3>1, ManualStage
  <2> QED BY <2>2, <2>6, <2>7 DEF IsQwen
<1>1. CASE Dropped(t, t.items[u].st) /\ Ignore
  <2>1. Booked(k)
    BY <1>1, IgnoreBooked
  <2>2. turn'[k] = t
    BY <1>0, <1>1 DEF Ignore
  <2>3. ASSUME NEW v \in Ids, Listening(t, v)
        PROVE  /\ t.items[v].text = Chunks(0, Len(t.items[v].text))
               /\ Reaches(k, v, Len(t.items[v].text))'
    <3>1. v # u
      BY <1>1, <2>3 DEF Listening
    <3> QED BY <1>0, <1>k, <2>3, <3>1, OthersText
  <2>4. TextOf(k, turn[k])'
    BY <2>2, <2>3 DEF TextOf
  <2> QED BY <2>1, <2>4
<1>2. CASE /\ ~Dropped(t, t.items[u].st) /\ t.items[u].st = "absent" /\ ~Mismatch(t)
           /\ QwenStage(k, e, Opened(t, e))
  <2>0. PICK r : r = Opened(t, e)
    OBVIOUS
  <2>1. /\ r \in TurnRecord
        /\ r.mode = t.mode /\ r.committed = t.committed /\ r.cleared = t.cleared
        /\ r.delayed = t.delayed
        /\ \A v \in Ids : v # u => r.items[v] = t.items[v]
        /\ r.items[u].text = t.items[u].text
        /\ r.items[u].st = IF t.mode = "qwenManual" THEN "committed" ELSE "open"
    BY <2>0, OpenedParts
  <2>2. ~t.cleared
    BY <1>2 DEF Dropped
  <2>3. Book(k, r, doc)
    BY <1>0, <1>2, <2>0, <2>2, OpenedBook
  <2>4. \A v \in Ids : Listening(r, v) => Listening(t, v) /\ r.items[v].text = t.items[v].text
    BY <1>2, <2>1 DEF Listening, Dropped
  <2>5. TextOf(k, r)
    BY <1>0, <2>1, <2>4 DEF TextOf
  <2>6. Listening(r, u) /\ r.items[u].st # "absent"
    BY <2>1, <2>2 DEF Listening, Dropped
  <2>7. r.items[u].st = "open" => r.mode = "qwenVad"
    BY <1>0, <2>1 DEF IsQwen
  <2> QED BY <1>0, <1>2, <1>s, <2>0, <2>1, <2>3, <2>5, <2>6, <2>7
<1>3. CASE /\ ~Dropped(t, t.items[u].st) /\ t.items[u].st # "absent"
           /\ QwenStage(k, e, t)
  BY <1>0, <1>3, <1>s, <1>w DEF Listening
<1>4. ~Reject
  BY DEF Reject, End
<1>5. \/ Dropped(t, t.items[u].st) /\ Ignore
      \/ /\ ~Dropped(t, t.items[u].st) /\ t.items[u].st = "absent" /\ ~Mismatch(t)
         /\ QwenStage(k, e, Opened(t, e))
      \/ ~Dropped(t, t.items[u].st) /\ t.items[u].st # "absent" /\ QwenStage(k, e, t)
  BY <1>0, <1>4 DEF QwenItem, Opened
<1> QED BY <1>1, <1>2, <1>3, <1>5

-----------------------------------------------------------------------------
(* What the sentences and the end of a task do to a turn.                  *)

\* Announced and completed in one step.
LEMMA WholeTold ==
  ASSUME Typed, NoneShown, NEW i \in Item, NEW x \in Text, doc[i].st = "none",
         commits' = Append(commits, i),
         doc' = Completed(Delta(Added(doc, i), i, x), i, x)
  PROVE  /\ \A j \in Item : Told(j) /\ (j # i => doc'[j] = doc[j])
         /\ doc'[i].st = "completed"
<1>1. PICK a \in DocType : a = Added(doc, i)
  BY DocTypes DEF Typed, TypeOK, DocType
<1>2. PICK d \in DocType : d = Delta(a, i, x)
  BY DocTypes
<1>3. /\ \A j \in Item : j # i => a[j] = doc[j]
      /\ a[i].shown = doc[i].shown /\ a[i].ends = doc[i].ends
  BY <1>1, AddedAt DEF Typed, TypeOK, DocType
<1>4. /\ \A j \in Item : j # i => d[j] = a[j]
      /\ d[i].shown = a[i].shown \o x /\ d[i].ends = a[i].ends
  BY <1>2, DeltaAt
<1>5. /\ \A j \in Item : j # i => Completed(d, i, x)[j] = d[j]
      /\ Completed(d, i, x)[i].st = "completed" /\ Completed(d, i, x)[i].shown = d[i].shown
  BY CompletedAt
<1>6. Completed(d, i, x)[i].transcript = x /\ Completed(d, i, x)[i].ends = d[i].ends + 1
  BY CompletedAt
<1>7. doc' = Completed(d, i, x)
  BY <1>1, <1>2
<1>8. doc[i].shown = <<>> /\ d[i].shown = x
  BY <1>3, <1>4, EmptyFirst DEF NoneShown
<1>9. Announced(i)'
  BY AnnouncedNow
<1> QED BY <1>3, <1>4, <1>5, <1>6, <1>7, <1>8, <1>9 DEF Told

LEMMA VadSentenceBooked ==
  ASSUME Typed, NoneShown, phase' = "running",
         NEW k \in live, NEW e \in Event, e.id \in Ids, e.kind \in SentenceKind,
         turn[k].mode = "sentVad", ~turn[k].committed, VadSentence(k, e),
         StreamOf(k), Pops(k, e), Silent(k), Book(k, turn[k], doc), FreshOf(k, turn[k], doc),
         \A u \in Ids : Past(k, u) => Past(k, u)'
  PROVE  Booked(k) /\ FreshOf(k, turn[k], doc)'
<1> DEFINE i == <<k, e.id>>
<1>k. k \in Turn
  BY DEF Typed, TypeOK
<1>0. PICK t \in TurnRecord : t = turn[k]
  BY <1>k DEF Typed, TypeOK
<1>1. SentenceBook(k, t, doc) /\ t.mode = "sentVad" /\ ~t.committed /\ ~t.delayed
  <2>1. t.delayed => t.committed
    BY <1>0, <1>k DEF Typed, WellFormed
  <2> QED BY <1>0, <2>1 DEF Book, IsQwen
<1>2. /\ i \in Item /\ i[1] = k /\ e.id # Tail0 /\ e.id # None /\ e.id \in Uid
      /\ \A v \in Uid : <<k, v>> \in Item /\ (v # e.id => <<k, v>> # i)
  BY <1>k, ConstTypes DEF Item, Tail0, Ids, None
<1>p. /\ e \in Pending(k) /\ Pending(k)' \subseteq Pending(k)
      /\ \A f \in Pending(k)' : Earlier(k, e, f)
  BY DEF Pops, PopsTo, ShrinksTo, Pending, Earlier
<1>3. ASSUME t.item = None PROVE doc[i].st = "none"
  <2>1. doc[i].st # "none" => Past(k, e.id)
    BY <1>0, <1>1 DEF FreshOf
  <2>2. ~Past(k, e.id)
    BY <1>p DEF Past, Ids
  <2> QED BY <2>1, <2>2
<1>4. ASSUME t.item # None, t.sentence = e.id PROVE t.item = e.id /\ doc[i].st = "none"
  BY <1>1, <1>4 DEF SentenceBook
<1>c. \A v \in Uid : doc[<<k, v>>].st # "committed"
  BY <1>1, ConstTypes DEF SentenceBook
<1>5. ~Reject
  BY DEF Reject, End
<1>6. PICK u, s : /\ u = IF t.item = None THEN e.id ELSE t.item
                  /\ s = IF t.item = None THEN e.id ELSE t.sentence
  OBVIOUS
<1>7. /\ s = e.id
      /\ \/ /\ turn' = [turn EXCEPT ![k].item = u, ![k].sentence = s]
            /\ Continue /\ UNCHANGED <<live, up, commits, doc>>
         \/ /\ e.kind = "final"
            /\ turn' = [turn EXCEPT ![k].item = None, ![k].sentence = s,
                                    ![k].consumed = Boundary(k, e.time)]
            /\ commits' = Append(commits, <<k, u>>)
            /\ doc' = Completed(Delta(Added(doc, <<k, u>>), <<k, u>>, e.text), <<k, u>>, e.text)
            /\ Continue /\ UNCHANGED <<live, up>>
  BY <1>0, <1>5, <1>6 DEF VadSentence
<1>8. u = e.id /\ doc[i].st = "none"
  BY <1>3, <1>4, <1>6, <1>7
<1>9. CASE /\ turn' = [turn EXCEPT ![k].item = u, ![k].sentence = s]
           /\ UNCHANGED <<live, commits, doc>>
  <2>1. PICK r : r = turn'[k]
    OBVIOUS
  <2>2. /\ r.mode = t.mode /\ r.committed = t.committed /\ r.cleared = t.cleared
        /\ r.delayed = t.delayed /\ r.item = u /\ r.sentence = s /\ r.items = t.items
    BY <1>9, <1>0, <1>k, <2>1 DEF Typed, TypeOK, TurnRecord
  <2>3. SentenceBook(k, r, doc)
    BY <1>1, <1>2, <1>7, <1>8, <1>c, <2>2 DEF SentenceBook
  <2>4. \A j \in Item : Told(j)
    BY <1>9 DEF Told
  <2>5. Booked(k)
    BY <1>1, <1>9, <2>1, <2>2, <2>3, <2>4 DEF Booked, Book, IsQwen
  <2>6. FreshOf(k, turn[k], doc)'
    BY <1>0, <1>1, <1>9 DEF FreshOf
  <2> QED BY <2>5, <2>6
<1>10. CASE /\ e.kind = "final"
            /\ turn' = [turn EXCEPT ![k].item = None, ![k].sentence = s,
                                    ![k].consumed = Boundary(k, e.time)]
            /\ commits' = Append(commits, <<k, u>>)
            /\ doc' = Completed(Delta(Added(doc, <<k, u>>), <<k, u>>, e.text), <<k, u>>, e.text)
            /\ UNCHANGED live
  <2>1. PICK r : r = turn'[k]
    OBVIOUS
  <2>2. /\ r.mode = t.mode /\ r.committed = t.committed /\ r.cleared = t.cleared
        /\ r.delayed = t.delayed /\ r.item = None /\ r.sentence = s /\ r.items = t.items
    BY <1>10, <1>0, <1>k, <2>1 DEF Typed, TypeOK, TurnRecord
  <2>3. PICK x \in Text : x = e.text
    BY EventTypes
  <2>4. /\ \A j \in Item : Told(j) /\ (j # i => doc'[j] = doc[j])
        /\ doc'[i].st = "completed"
    <3>1. commits' = Append(commits, i) /\ doc' = Completed(Delta(Added(doc, i), i, x), i, x)
      BY <1>8, <1>10, <2>3
    <3> HIDE DEF i
    <3> QED BY <1>2, <1>8, <3>1, WholeTold
  <2>5. \A v \in Uid : v # e.id => doc'[<<k, v>>] = doc[<<k, v>>]
    BY <1>2, <2>4
  <2>6. SentenceBook(k, r, doc')
    <3>1. \A v \in Uid : doc'[<<k, v>>].st # "committed"
      BY <1>c, <2>4, <2>5
    <3>2. doc'[<<k, Tail0>>].st = "none"
      BY <1>1, <1>2, <2>5, ConstTypes DEF SentenceBook
    <3>3. None # Tail0
      BY ConstTypes
    <3> QED BY <1>1, <2>2, <3>1, <3>2, <3>3 DEF SentenceBook
  <2>7. Booked(k)
    <3>1. ~turn[k].cleared
      BY <1>0, <1>1 DEF SentenceBook
    <3>2. Book(k, turn'[k], doc')
      BY <1>1, <2>1, <2>2, <2>6 DEF Book, IsQwen
    <3>3. \A j \in Item : j[1] # k => doc'[j] = doc[j]
      BY <1>2, <2>4
    <3> QED BY <1>10, <2>4, <3>1, <3>2, <3>3 DEF Booked
  <2>8. Past(k, e.id)'
    <3>1. e.id <= up[k].lastFinal
      BY <1>p, <1>10 DEF StreamOf, SentEvent
    <3>2. \A f \in Pending(k)' : f.kind \in SentenceKind => e.id < f.id
      BY <1>p, <1>10 DEF StreamOf, Ordered
    <3> QED BY <3>1, <3>2 DEF Past, Silent
  <2>9. ASSUME NEW v \in Ids, doc'[<<k, v>>].st # "none" PROVE Past(k, v)'
    <3>1. CASE v = e.id
      BY <2>8, <3>1
    <3>2. CASE v # e.id
      BY <1>0, <1>1, <2>5, <2>9, <3>2, ConstTypes DEF FreshOf
    <3> QED BY <3>1, <3>2
  <2> QED BY <2>7, <2>9 DEF FreshOf
<1> QED BY <1>7, <1>9, <1>10

LEMMA TurnSentenceBooked ==
  ASSUME Typed, phase' = "running", NEW k \in live, NEW e \in Event,
         ~IsQwen(turn[k].mode), ~(turn[k].mode = "sentVad" /\ ~turn[k].committed),
         TurnSentence(k, e), Book(k, turn[k], doc), ~turn[k].delayed
  PROVE  Booked(k)
<1>k. k \in Turn
  BY DEF Typed, TypeOK
<1>0. PICK t \in TurnRecord : t = turn[k]
  BY <1>k DEF Typed, TypeOK
<1>1. SentenceBook(k, t, doc) /\ ~t.delayed /\ ~IsQwen(t.mode)
  BY <1>0 DEF Book
<1>2. ~Reject
  BY DEF Reject, End
<1>3. CASE Ignore
  BY <1>3, IgnoreBooked
<1>4. CASE /\ turn' = [turn EXCEPT ![k].text = @ \o e.text]
           /\ doc' = IF turn[k].committed THEN Delta(doc, <<k, turn[k].item>>, e.text) ELSE doc
           /\ UNCHANGED live
  <2>0. PICK x \in Text : x = e.text
    BY EventTypes
  <2>1. PICK r : r = turn'[k]
    OBVIOUS
  <2>2. /\ r.mode = t.mode /\ r.committed = t.committed /\ r.cleared = t.cleared
        /\ r.delayed = t.delayed /\ r.item = t.item /\ r.sentence = t.sentence
        /\ r.items = t.items /\ r.text = t.text \o x
    <3>1. turn' = [turn EXCEPT ![k].text = @ \o e.text] /\ turn \in [Turn -> TurnRecord]
      BY <1>4 DEF Typed, TypeOK
    <3>2. turn'[k] = [turn[k] EXCEPT !.text = @ \o e.text]
      BY <1>k, <3>1
    <3>3. r = [t EXCEPT !.text = t.text \o x]
      BY <1>0, <2>0, <2>1, <3>2
    <3> QED BY <3>3 DEF TurnRecord
  <2>3. CASE t.committed
    <3>1. PICK i \in Item : i = <<k, t.item>> /\ i[1] = k
      BY <1>1, <1>k, <2>3 DEF SentenceBook, Item, TurnRecord
    <3>2. doc \in DocType /\ doc' = Delta(doc, i, x)
      BY <1>0, <1>4, <2>0, <2>3, <3>1 DEF Typed, TypeOK, DocType
    <3>3. /\ \A j \in Item : j # i => doc'[j] = doc[j]
          /\ doc'[i].st = doc[i].st /\ doc'[i].shown = doc[i].shown \o x
          /\ doc'[i].ends = doc[i].ends
      BY <3>2, DeltaAt
    <3>4. doc[i].st = "committed" /\ doc[i].shown = t.text /\ t.item # None
      BY <1>1, <2>3, <3>1 DEF SentenceBook
    <3>5. \A j \in Item : Told(j) /\ (j[1] # k => doc'[j] = doc[j])
      BY <3>1, <3>3, <3>4 DEF Told
    <3>6. \A u \in Uid \ {t.item} : doc'[<<k, u>>] = doc[<<k, u>>]
      <4>1. ASSUME NEW u \in Uid \ {t.item} PROVE <<k, u>> \in Item /\ <<k, u>> # i
        BY <1>k, <3>1 DEF Item
      <4> QED BY <3>3, <4>1
    <3>7. SentenceBook(k, r, doc')
      BY <1>1, <2>2, <2>3, <3>1, <3>3, <3>4, <3>6 DEF SentenceBook
    <3>8. ~turn[k].cleared
      BY <1>0, <1>1 DEF SentenceBook
    <3> QED BY <1>1, <1>4, <2>1, <2>2, <3>5, <3>7, <3>8 DEF Booked, Book, IsQwen
  <2>4. CASE ~t.committed
    <3>1. doc' = doc /\ \A j \in Item : Told(j)
      BY <1>0, <1>4, <2>4 DEF Told
    <3>2. SentenceBook(k, r, doc)
      BY <1>1, <2>2, <2>4 DEF SentenceBook
    <3> QED BY <1>1, <1>4, <2>1, <2>2, <3>1, <3>2 DEF Booked, Book, IsQwen
  <2> QED BY <2>3, <2>4
<1> QED BY <1>2, <1>3, <1>4 DEF TurnSentence

\* A turn that leaves has no announced item without an outcome.
LEMMA NothingLeft ==
  ASSUME NEW k \in Turn, NEW t \in TurnRecord, Book(k, t, doc), IsQwen(t.mode),
         \A u \in Ids : t.items[u].st # "committed",
         \A u \in Ids : t.items[u].st = "open" => t.mode = "qwenVad",
         t.mode = "qwenManual" => t.bound \/ ~t.committed
  PROVE  \A u \in Uid : doc[<<k, u>>].st # "committed"
<1>u. Uid = Ids \cup {Tail0}
  BY BridgeAssumption DEF Uid, Tail0, Ids
<1>1. CASE t.mode = "qwenVad"
  <2>1. VadBook(k, t, doc)
    BY <1>1 DEF Book
  <2>2. ASSUME NEW u \in Ids PROVE doc[<<k, u>>].st # "committed"
    <3>1. t.items[u].st \in {"absent", "open", "done"}
      BY ItemTyped
    <3>2. OpenItem(t.items[u], doc[<<k, u>>]) /\ ToldItem(t.items[u], doc[<<k, u>>])
      BY <2>1 DEF VadBook
    <3> QED BY <3>1, <3>2 DEF OpenItem, ToldItem
  <2> QED BY <1>u, <2>1, <2>2 DEF VadBook
<1>2. CASE t.mode = "qwenManual"
  <2>1. ManualBook(k, t, doc)
    BY <1>2 DEF Book
  <2>2. doc[<<k, Tail0>>].st # "committed"
    <3>1. CASE ~t.committed
      BY <2>1, <3>1 DEF ManualBook
    <3>2. CASE t.bound
      <4>1. PICK u \in Ids : t.items[u].st # "absent"
        BY <2>1, <3>2 DEF ManualBook
      <4>2. t.items[u].st = "done"
        BY <1>2, <4>1, ItemTyped
      <4> QED BY <2>1, <4>1, <4>2 DEF ManualBook, ToldItem
    <3> QED BY <1>2, <3>1, <3>2
  <2> QED BY <1>u, <2>1, <2>2 DEF ManualBook
<1> QED BY <1>1, <1>2 DEF IsQwen

LEMMA FinishedBooked ==
  ASSUME Typed, phase' = "running", NEW k \in live, ProcessFinished(k),
         Book(k, turn[k], doc), ~turn[k].delayed
  PROVE  Booked(k)
<1>k. k \in Turn
  BY DEF Typed, TypeOK
<1>0. PICK t \in TurnRecord : t = turn[k]
  BY <1>k DEF Typed, TypeOK
<1>1. ~Reject
  BY DEF Reject, End
<1>2. /\ t.committed /\ (t.mode = "qwenManual" => t.bound)
      /\ IsQwen(t.mode) => \A u \in Ids : t.items[u].st # "committed"
      /\ doc' = IF ~IsQwen(t.mode) /\ t.item # None
                THEN Completed(doc, <<k, t.item>>, t.text) ELSE doc
      /\ live' = live \ {k}
  BY <1>0, <1>1 DEF ProcessFinished, FinishedEarly, PendingCommitted, Forget
<1>3. CASE IsQwen(t.mode)
  <2>1. doc' = doc /\ \A j \in Item : Told(j)
    BY <1>2, <1>3 DEF Told
  <2>2. \A u \in Ids : t.items[u].st = "open" => t.mode = "qwenVad"
    BY <1>0, <1>k DEF Typed, WellFormed
  <2>3. \A u \in Uid : doc[<<k, u>>].st # "committed"
    BY <1>0, <1>2, <1>3, <1>k, <2>2, NothingLeft
  <2> QED BY <1>2, <2>1, <2>3 DEF Booked
<1>4. CASE ~IsQwen(t.mode)
  <2>1. SentenceBook(k, t, doc) /\ ~t.delayed
    BY <1>0, <1>4 DEF Book
  <2>2. t.item # None /\ t.item \in Uid
    BY <1>2, <2>1 DEF SentenceBook, TurnRecord
  <2>3. PICK i \in Item, x \in Text : i = <<k, t.item>> /\ i[1] = k /\ x = t.text
    <3>1. PICK x \in Text : x = t.text
      BY DEF TurnRecord
    <3>2. <<k, t.item>> \in Item /\ <<k, t.item>>[1] = k
      BY <1>k, <2>2 DEF Item
    <3> QED BY <3>1, <3>2
  <2>4. doc \in DocType /\ doc' = Completed(doc, i, x)
    BY <1>2, <1>4, <2>2, <2>3 DEF Typed, TypeOK, DocType
  <2>5. /\ \A j \in Item : j # i => doc'[j] = doc[j]
        /\ doc'[i].st = "completed" /\ doc'[i].shown = doc[i].shown
    BY <2>4, CompletedAt
  <2>6. doc'[i].transcript = x /\ doc'[i].ends = doc[i].ends + 1
    BY <2>4, CompletedAt
  <2>7. doc[i].st = "committed" /\ doc[i].shown = t.text
    BY <1>2, <2>1, <2>3 DEF SentenceBook
  <2>8. \A j \in Item : Told(j) /\ (j[1] # k => doc'[j] = doc[j])
    BY <2>3, <2>5, <2>6, <2>7 DEF Told
  <2>9. ASSUME NEW u \in Uid PROVE doc'[<<k, u>>].st # "committed"
    <3>1. CASE u = t.item
      BY <2>3, <2>5, <3>1
    <3>2. CASE u # t.item
      <4>1. <<k, u>> \in Item /\ <<k, u>> # i
        BY <1>k, <2>3, <3>2 DEF Item
      <4> QED BY <2>1, <2>5, <3>2, <4>1 DEF SentenceBook
    <3> QED BY <3>1, <3>2
  <2>10. ~turn[k].cleared
    BY <1>0, <2>1 DEF SentenceBook
  <2> QED BY <1>2, <2>8, <2>9, <2>10 DEF Booked
<1> QED BY <1>3, <1>4

LEMMA ErrBooked ==
  ASSUME Typed, NoEnds, NEW k \in live, ProcessErr(k), Book(k, turn[k], doc)
  PROVE  Booked(k)
<1>k. k \in Turn
  BY DEF Typed, TypeOK
<1>0. PICK t \in TurnRecord : t = turn[k]
  BY <1>k DEF Typed, TypeOK
<1>1. phase' = "ended" /\ doc' = Failed(doc, Unfinished(k))
  BY DEF ProcessErr, End
<1>2. ASSUME NEW i \in Unfinished(k)
      PROVE  /\ i[1] = k /\ doc[i].st \in {"none", "committed"}
             /\ t.cleared => doc[i].st = "committed"
  <2>1. CASE /\ i = <<k, t.item>> /\ t.item # None
             /\ IsQwen(t.mode) => t.mode = "qwenManual" /\ ~t.bound
    <3>1. CASE IsQwen(t.mode)
      <4>1. ManualBook(k, t, doc) /\ ~t.bound
        BY <1>0, <2>1, <3>1 DEF Book
      <4>2. t.item = Tail0 /\ ~t.cleared
        BY <2>1, <4>1 DEF ManualBook
      <4>3. doc[<<k, Tail0>>].st \in {"none", "committed"}
        BY <4>1 DEF ManualBook
      <4> QED BY <2>1, <4>2, <4>3
    <3>2. CASE ~IsQwen(t.mode)
      <4>1. SentenceBook(k, t, doc)
        BY <1>0, <3>2 DEF Book
      <4> QED BY <2>1, <4>1 DEF SentenceBook
    <3> QED BY <3>1, <3>2
  <2>2. ASSUME NEW u \in Ids, t.items[u].st = "committed", i = ItemOf(k, u)
        PROVE  i[1] = k /\ doc[i].st = "committed"
    <3>1. i = <<k, IF t.mode = "qwenManual" THEN t.item ELSE u>>
      BY <1>0, <2>2 DEF ItemOf
    <3>2. IsQwen(t.mode)
      BY <1>0, <2>2 DEF Book, SentenceBook
    <3>3. CASE t.mode = "qwenVad"
      BY <1>0, <2>2, <3>1, <3>3 DEF Book, VadBook, ToldItem
    <3>4. CASE t.mode = "qwenManual"
      <4>1. ManualBook(k, t, doc)
        BY <1>0, <3>4 DEF Book
      <4>2. t.bound /\ ToldItem(t.items[u], doc[<<k, Tail0>>])
        BY <2>2, <4>1 DEF ManualBook
      <4>3. t.committed
        BY <4>1, <4>2 DEF ManualBook
      <4> QED BY <2>2, <3>1, <3>4, <4>1, <4>2, <4>3 DEF ManualBook, ToldItem
    <3> QED BY <3>2, <3>3, <3>4 DEF IsQwen
  <2> QED BY <1>0, <2>1, <2>2 DEF Unfinished
<1>3. ASSUME NEW i \in Item
      PROVE  /\ i \in Unfinished(k) => /\ doc'[i].st = "failed" /\ doc'[i].shown = doc[i].shown
                                       /\ doc'[i].ends = doc[i].ends + 1
             /\ i \notin Unfinished(k) => doc'[i] = doc[i]
  <2>1. doc[i] \in DocRecord
    BY DEF Typed, TypeOK
  <2>2. doc'[i] = IF i \in Unfinished(k) THEN [doc[i] EXCEPT !.st = "failed", !.ends = @ + 1]
                                         ELSE doc[i]
    BY <1>1 DEF Failed
  <2> QED BY <2>1, <2>2 DEF DocRecord
<1>4. ASSUME NEW i \in Item PROVE Told(i) /\ (i[1] # k => doc'[i] = doc[i])
  <2>1. CASE i \in Unfinished(k)
    <3>1. doc[i].ends = 0 /\ i[1] = k
      BY <1>2, <2>1 DEF NoEnds
    <3>2. doc'[i].ends = 1
      BY <1>3, <2>1, <3>1
    <3> QED BY <1>1, <1>3, <2>1, <3>1, <3>2 DEF Told
  <2>2. CASE i \notin Unfinished(k)
    BY <1>3, <2>2 DEF Told
  <2> QED BY <2>1, <2>2
<1>5. ASSUME turn[k].cleared, NEW u \in Uid, doc[<<k, u>>].st = "none"
      PROVE  doc'[<<k, u>>].st = "none"
  <2>1. <<k, u>> \in Item /\ <<k, u>> \notin Unfinished(k)
    BY <1>0, <1>2, <1>5, <1>k DEF Item
  <2> QED BY <1>3, <1>5, <2>1
<1> QED BY <1>1, <1>4, <1>5 DEF Booked

\* What a live turn does with an event keeps its books.
LEMMA ProcessEnds ==
  ASSUME phase = "running", phase' # "running", NEW k \in live, NEW e, Process(k, e)
  PROVE  ProcessErr(k) \/ (UNCHANGED <<live, turn, doc, commits>> /\ phase' = "ended")
BY DEF Process, ProcessFinished, VadSentence, TurnSentence, QwenItem, QwenStage, Reject, End,
       Ignore, Continue

LEMMA SameTold ==
  ASSUME UNCHANGED doc, phase' = "ended", NEW k
  PROVE  Booked(k)
<1>1. \A i \in Item : Told(i)
  BY DEF Told
<1> QED BY <1>1 DEF Booked

LEMMA ProcessBooked ==
  ASSUME Typed, phase = "running", NoneShown, NoEnds, NEW k \in live, NEW e \in Event,
         Process(k, e), ~turn[k].delayed, Book(k, turn[k], doc), StreamOf(k),
         TextOf(k, turn[k]), FreshOf(k, turn[k], doc), phase' = "running" => Pops(k, e)
  PROVE  /\ Booked(k)
         /\ phase' = "running" /\ k \in live' => TextOf(k, turn[k])' /\ FreshOf(k, turn[k], doc)'
<1>k. k \in Turn
  BY DEF Typed, TypeOK
<1>f. Effect(k)
  BY ProcessEffect DEF Typed
<1>1. CASE phase' # "running"
  BY <1>1, ErrBooked, SameTold, ProcessEnds
<1>2. CASE phase' = "running"
  <2>1. Pops(k, e) /\ Silent(k) /\ turn' \in [Turn -> TurnRecord] /\ up' \in [Turn -> TaskRecord]
    BY <1>2, <1>f, <1>k, ProcessSilent DEF Effect
  <2>2. Traffic(k)
    BY <2>1 DEF Traffic
  <2>3. \A u \in Ids : Past(k, u) => Past(k, u)'
    BY <1>k, <2>1, <2>2, PastKept
  <2>4. k \in live' => /\ turn'[k].mode = turn[k].mode
                       /\ turn'[k].committed = turn[k].committed
    BY <1>f DEF Effect, SameControl
  <2>5. CASE e.kind = "finished" /\ ProcessFinished(k)
    <3>1. Booked(k)
      BY <1>2, <2>5, FinishedBooked
    <3>2. k \notin live'
      BY <1>2, <2>5 DEF ProcessFinished, Reject, End, Forget
    <3> QED BY <3>1, <3>2
  <2>6. CASE e.kind \in SentenceKind /\ ~IsQwen(turn[k].mode)
    <3>0. e.id \in Ids
      BY <2>6, EventTypes
    <3>1. k \in live' => TextOf(k, turn[k])'
      BY <2>4, <2>6 DEF TextOf
    <3>2. CASE turn[k].mode = "sentVad" /\ ~turn[k].committed /\ VadSentence(k, e)
      BY <1>2, <2>1, <2>3, <2>6, <3>0, <3>1, <3>2, VadSentenceBooked
    <3>3. CASE ~(turn[k].mode = "sentVad" /\ ~turn[k].committed) /\ TurnSentence(k, e)
      <4>1. Booked(k)
        BY <1>2, <2>6, <3>3, TurnSentenceBooked
      <4>2. k \in live' => FreshOf(k, turn[k], doc)'
        BY <2>4, <3>3 DEF FreshOf
      <4> QED BY <3>1, <4>1, <4>2
    <3> QED BY <2>6, <3>2, <3>3 DEF Process, SentenceKind
  <2>7. CASE e.kind \in ItemKind /\ IsQwen(turn[k].mode) /\ QwenItem(k, e)
    <3>0. e.id \in Ids
      BY <2>7, EventTypes
    <3>1. Booked(k) /\ TextOf(k, turn[k])'
      BY <1>2, <2>1, <2>7, <3>0, QwenBooked
    <3>2. k \in live' => FreshOf(k, turn[k], doc)'
      BY <2>4, <2>7 DEF FreshOf, IsQwen
    <3> QED BY <3>1, <3>2
  <2>8. ~ProcessErr(k)
    BY <1>2 DEF ProcessErr, End
  <2> QED BY <2>5, <2>6, <2>7, <2>8 DEF Process
<1> QED BY <1>1, <1>2

-----------------------------------------------------------------------------
(* Every step is one of a single turn, or leaves the books alone.          *)

Quiet ==
  /\ UNCHANGED <<live, doc, commits>>
  /\ phase' = "running" =>
       \A j \in live : /\ Alike(turn'[j], turn[j]) /\ turn'[j].items = turn[j].items
                       /\ Arrives(j)

Alone(k) ==
  /\ Booked(k)
  /\ k \in live \/ k > turnOrder \/ doc' = doc
  /\ phase' = "running" =>
       /\ live' \ {k} = live \ {k}
       /\ k \in live' => TextOf(k, turn[k])' /\ FreshOf(k, turn[k], doc)'
       /\ \A j \in live \ {k} : turn'[j] = turn[j] /\ Arrives(j)

StepKind == Quiet \/ \E k \in Turn : Alone(k)

LEMMA UpstreamKind ==
  ASSUME Typed, OrderInv, RunInv, Upstream
  PROVE  StepKind
<1> DEFINE H == Head(inbox)
<1>0. phase = "running" /\ pc = "select" /\ ReplayInv
  BY DEF Upstream, RunInv
<1>1. PICK k, e : k = H.key /\ e = H.event
  OBVIOUS
<1>2. k \in Turn /\ e \in Event
  <2>1. inbox \in Seq(Entry) /\ inbox # <<>>
    BY DEF Upstream, Typed, TypeOK, Entry
  <2>2. H \in Entry
    BY <2>1, HeadTail
  <2> QED BY <1>1, <2>2 DEF Entry
<1> HIDE DEF H
<1>3. \/ k \notin live /\ Ignore
      \/ k \in live /\ Blocked(k) /\ Hold(k, e)
      \/ k \in live /\ ~Blocked(k) /\ Process(k, e)
  BY <1>1 DEF Upstream, H
<1>4. ASSUME phase' = "running"
      PROVE  /\ \A j \in Turn \ {k} : Stays(j) /\ turn'[j] = turn[j]
             /\ k \in live /\ Blocked(k) => Stays(k) \/ \E g, m : Merges(k, g, e, m) /\ Merged(g, e, m)
             /\ k \in live /\ ~Blocked(k) => Pops(k, e)
  BY <1>0, <1>1, <1>4, UpstreamMoves DEF H
<1>5. CASE k \notin live /\ Ignore
  <2>1. UNCHANGED <<live, turn, up, doc, commits>>
    BY <1>5 DEF Ignore
  <2>2. ASSUME phase' = "running", NEW j \in live PROVE Arrives(j)
    BY <1>4, <1>5, <2>1, <2>2 DEF Arrives, Silent, Typed, TypeOK
  <2> QED BY <2>1, <2>2 DEF StepKind, Quiet, Alike
<1>6. CASE k \in live /\ Blocked(k) /\ Hold(k, e)
  <2>1. UNCHANGED <<live, up, doc, commits>>
    BY <1>6 DEF Hold, Reject, client
  <2>2. Alike(turn'[k], turn[k]) /\ turn'[k].items = turn[k].items
    <3>1. turn \in [Turn -> TurnRecord] /\ turn[k] \in TurnRecord
      BY <1>2 DEF Typed, TypeOK
    <3>2. \/ turn' = turn
          \/ \E q, b : turn' = [turn EXCEPT ![k].queued = q, ![k].bytes = b]
      BY <1>6 DEF Hold, Reject
    <3>3. CASE turn' = turn
      BY <3>3 DEF Alike
    <3>4. ASSUME NEW q, NEW b, turn' = [turn EXCEPT ![k].queued = q, ![k].bytes = b]
          PROVE  Alike(turn'[k], turn[k]) /\ turn'[k].items = turn[k].items
      <4>1. turn'[k] = [turn[k] EXCEPT !.queued = q, !.bytes = b]
        BY <1>2, <3>1, <3>4
      <4> QED BY <3>1, <4>1 DEF Alike, TurnRecord
    <3> QED BY <3>2, <3>3, <3>4
  <2>3. ASSUME phase' = "running", NEW j \in live
        PROVE  Alike(turn'[j], turn[j]) /\ turn'[j].items = turn[j].items /\ Arrives(j)
    BY <1>4, <1>6, <2>1, <2>2, <2>3 DEF Arrives, Silent, Typed, TypeOK, Alike
  <2> QED BY <2>1, <2>3 DEF StepKind, Quiet
<1>7. CASE k \in live /\ ~Blocked(k) /\ Process(k, e)
  <2>1. ~turn[k].delayed
    BY <1>0, <1>7, NothingWaits
  <2>2. /\ Booked(k)
        /\ phase' = "running" /\ k \in live' => TextOf(k, turn[k])' /\ FreshOf(k, turn[k], doc)'
    BY <1>0, <1>2, <1>4, <1>7, <2>1, ProcessBooked DEF RunInv, Kept
  <2>3. live' \ {k} = live \ {k} /\ \A j \in Turn : Silent(j)
    BY <1>2, <1>7, ProcessEffect, ProcessSilent DEF Effect, Typed
  <2> QED BY <1>2, <1>4, <1>7, <2>2, <2>3 DEF StepKind, Alone, Arrives, Typed, TypeOK
<1> QED BY <1>3, <1>5, <1>6, <1>7

LEMMA ReplayKind ==
  ASSUME Typed, OrderInv, RunInv, Replay
  PROVE  StepKind
<1>0. PICK k, e : k = cur /\ e = Head(batch)
  OBVIOUS
<1>1. /\ k \in Turn /\ e \in Event
      /\ Process(k, e) /\ Pops(k, e)
      /\ \A j \in Turn \ {k} : Stays(j) /\ turn'[j] = turn[j]
      /\ phase = "running" /\ ~turn[k].delayed
  BY <1>0, ReplayMoves, ConstTypes DEF Replay, RunInv, ReplayInv
<1>2. live' \ {k} = live \ {k} /\ \A j \in Turn : Silent(j)
  BY <1>1, ProcessEffect, ProcessSilent DEF Effect, Typed
<1>3. \A j \in live \ {k} : turn'[j] = turn[j] /\ Arrives(j)
  BY <1>1, <1>2 DEF Arrives, Typed, TypeOK
<1>4. CASE k \in live
  <2>1. /\ Booked(k)
        /\ phase' = "running" /\ k \in live' => TextOf(k, turn[k])' /\ FreshOf(k, turn[k], doc)'
    BY <1>1, <1>4, ProcessBooked DEF RunInv, Kept
  <2> QED BY <1>1, <1>2, <1>3, <1>4, <2>1 DEF StepKind, Alone
<1>5. CASE k \notin live
  <2>1. UNCHANGED <<live, turn, doc, commits>>
    BY <1>1, <1>5 DEF Process, Ignore
  <2> QED BY <1>3, <1>5, <2>1 DEF StepKind, Quiet, Alike
<1> QED BY <1>4, <1>5

-----------------------------------------------------------------------------
(* Commits, at once or delayed.                                            *)

\* The text of a turn is still the chunks processed when nothing is taken from
\* its events and it listens to no other item than before.
LEMMA TextKept ==
  ASSUME Typed, up' \in [Turn -> TaskRecord], NEW k \in Turn, StreamOf(k), Arrives(k),
         NEW t \in TurnRecord, TextOf(k, t), NEW r, r = turn'[k],
         IsQwen(r.mode) => /\ IsQwen(t.mode)
                           /\ \A u \in Ids : Listening(r, u) => Listening(t, u)
                                                 /\ r.items[u].text = t.items[u].text
  PROVE  TextOf(k, turn[k])'
<1>1. ASSUME IsQwen(r.mode), NEW u \in Ids, Listening(r, u)
      PROVE  /\ r.items[u].text = Chunks(0, Len(r.items[u].text))
             /\ Reaches(k, u, Len(r.items[u].text))'
  <2>1. PICK l \in Nat : l = Len(t.items[u].text)
    BY ItemTyped
  <2>2. Reaches(k, u, l) /\ t.items[u].text = Chunks(0, l)
    BY <1>1, <2>1 DEF TextOf
  <2>3. Reaches(k, u, l)'
    BY <2>2, ReachesKept
  <2>4. r.items[u].text = t.items[u].text
    BY <1>1
  <2> QED BY <2>1, <2>2, <2>3, <2>4
<1> QED BY <1>1 DEF TextOf

LEMMA FreshKept ==
  ASSUME Typed, up' \in [Turn -> TaskRecord], NEW k \in Turn, StreamOf(k), Arrives(k),
         NEW t, FreshOf(k, t, doc), NEW r, r = turn'[k],
         r.mode = "sentVad" /\ ~r.committed
           => t.mode = "sentVad" /\ ~t.committed /\ \A u \in Ids : doc'[<<k, u>>] = doc[<<k, u>>]
  PROVE  FreshOf(k, turn[k], doc)'
<1>1. ASSUME r.mode = "sentVad", ~r.committed, NEW u \in Ids, doc'[<<k, u>>].st # "none"
      PROVE  Past(k, u)'
  <2>1. Past(k, u)
    BY <1>1 DEF FreshOf
  <2> QED BY <2>1, PastKept DEF Traffic
<1> QED BY <1>1 DEF FreshOf

\* A commit that waits: the item has its name, and is not announced.
LEMMA WaitBook ==
  ASSUME Typed, NEW k \in Turn, NEW t \in TurnRecord, t = turn[k], Book(k, t, doc), ~t.committed,
         t.mode # "qwenVad",
         NEW r, r.mode = t.mode, r.committed, r.delayed, r.cleared = t.cleared,
         r.bound = t.bound, r.item = CommitName(k), r.sentence = t.sentence, r.text = t.text,
         r.items = t.items
  PROVE  Book(k, r, doc)
<1>1. CASE t.mode = "qwenManual"
  <2>1. ManualBook(k, t, doc)
    BY <1>1 DEF Book
  <2>2. r.item = Tail0
    BY <1>1, <2>1 DEF ManualBook, CommitName
  <2>3. ManualBook(k, r, doc)
    BY <2>1, <2>2 DEF ManualBook
  <2> QED BY <1>1, <2>3 DEF Book, IsQwen
<1>2. CASE ~IsQwen(t.mode)
  <2>1. SentenceBook(k, t, doc)
    BY <1>2 DEF Book
  <2>2. r.item = IF t.item # None THEN t.item ELSE Tail0
    BY DEF CommitName
  <2>3. Tail0 # None /\ Tail0 \in Uid
    BY ConstTypes
  <2>4. doc[<<k, r.item>>].st = "none" /\ r.item # None
    <3>1. CASE t.item # None
      BY <2>1, <2>2, <3>1 DEF SentenceBook
    <3>2. CASE t.item = None
      BY <2>1, <2>2, <2>3, <3>2 DEF SentenceBook
    <3> QED BY <3>1, <3>2
  <2>5. \A u \in Uid \ {r.item} : doc[<<k, u>>].st # "committed"
    <3>1. ASSUME NEW u \in Uid \ {r.item} PROVE u \in Uid \ {t.item}
      BY <2>2, ConstTypes
    <3> QED BY <2>1, <3>1 DEF SentenceBook
  <2>6. SentenceBook(k, r, doc)
    BY <2>1, <2>4, <2>5 DEF SentenceBook
  <2> QED BY <1>2, <2>6 DEF Book, IsQwen
<1>3. t.mode \in {"qwenManual", "sentVad", "sentManual"}
  BY DEF TurnRecord, AllModes
<1> QED BY <1>1, <1>2, <1>3 DEF IsQwen

\* The commit that waited is published.
LEMMA AnnounceBook ==
  ASSUME Typed, NoneShown, NEW k \in Turn, NEW w, Book(k, w, doc), w.delayed, w.committed,
         NEW n \in Uid, w.item = n, w.mode \in AllModes,
         NEW x \in Text, x = w.text, CommitItem(<<k, n>>, x),
         NEW r, r.mode = w.mode, r.committed, ~r.delayed, r.cleared = w.cleared,
         r.bound = w.bound, r.item = n, r.sentence = w.sentence, r.text = w.text,
         r.items = w.items
  PROVE  /\ \A j \in Item : Told(j) /\ (j[1] # k => doc'[j] = doc[j])
         /\ ~w.cleared /\ Book(k, r, doc')
<1>1. PICK i \in Item : i = <<k, n>> /\ i[1] = k
  <2>1. <<k, n>> \in Item /\ <<k, n>>[1] = k
    BY DEF Item
  <2> QED BY <2>1
<1>2. ~(w.mode = "qwenVad")
  BY DEF Book, VadBook
<1>3. doc[i].st = "none" /\ ~w.cleared /\ n # None
  <2>1. CASE w.mode = "qwenManual"
    BY <1>1, <2>1, ConstTypes DEF Book, ManualBook
  <2>2. CASE ~IsQwen(w.mode)
    BY <1>1, <2>2 DEF Book, SentenceBook
  <2> QED BY <1>2, <2>1, <2>2 DEF IsQwen
<1>4. /\ \A j \in Item : Told(j) /\ (j # i => doc'[j] = doc[j])
      /\ doc'[i].st = "committed" /\ doc'[i].shown = doc[i].shown \o x
  BY <1>1, <1>3, CommitTold
<1>5. doc'[i].shown = x
  BY <1>3, <1>4, EmptyFirst DEF NoneShown
<1>6. \A u \in Uid \ {n} : doc'[<<k, u>>] = doc[<<k, u>>]
  <2>1. ASSUME NEW u \in Uid \ {n} PROVE <<k, u>> \in Item /\ <<k, u>> # i
    BY <1>1 DEF Item
  <2> QED BY <1>4, <2>1
<1>7. CASE w.mode = "qwenManual"
  <2>1. ManualBook(k, w, doc) /\ n = Tail0 /\ ~w.bound /\ x = <<>>
    BY <1>7 DEF Book, ManualBook
  <2>2. \A u \in Ids : doc'[<<k, u>>].st = "none" /\ w.items[u].st = "absent"
    <3>1. ASSUME NEW u \in Ids PROVE u \in Uid \ {n}
      BY <2>1, ConstTypes DEF Tail0, Ids
    <3> QED BY <1>6, <2>1, <3>1 DEF ManualBook
  <2>3. ManualBook(k, r, doc')
    BY <1>1, <1>4, <1>5, <2>1, <2>2 DEF ManualBook
  <2> QED BY <1>1, <1>3, <1>4, <1>7, <2>3 DEF Book, IsQwen
<1>8. CASE ~IsQwen(w.mode)
  <2>1. SentenceBook(k, w, doc)
    BY <1>8 DEF Book
  <2>2. SentenceBook(k, r, doc')
    BY <1>1, <1>3, <1>4, <1>5, <1>6, <2>1 DEF SentenceBook
  <2> QED BY <1>1, <1>3, <1>4, <1>8, <2>2 DEF Book, IsQwen
<1> QED BY <1>2, <1>7, <1>8 DEF IsQwen

LEMMA DrainKind ==
  ASSUME Typed, Typed', OrderInv, RunInv, DrainNext
  PROVE  StepKind
<1>1. PICK k \in Ready :
        /\ IF turn[k].delayed
           THEN CommitItem(<<k, turn[k].item>>, IF IsQwen(turn[k].mode) THEN <<>> ELSE turn[k].text)
           ELSE UNCHANGED client
        /\ turn' = [turn EXCEPT ![k] = Released(@)]
  BY DEF DrainNext
<1>2. /\ UNCHANGED <<live, up, phase>> /\ phase = "running"
      /\ \A j \in Turn : Stays(j)
  BY DrainMoves DEF DrainNext, RunInv
<1>3. \A j \in Turn : Arrives(j)
  BY <1>2 DEF Arrives, Silent
<1>4. k \in live /\ k \in Turn /\ \A j \in Turn \ {k} : turn'[j] = turn[j]
  BY <1>1, ReleasedKept DEF Ready, Typed, TypeOK
<1>5. PICK t \in TurnRecord : t = turn[k]
  BY <1>4 DEF Typed, TypeOK
<1>6. PICK r \in TurnRecord : r = turn'[k]
  BY <1>4 DEF Typed, TypeOK
<1>7. /\ r.mode = t.mode /\ r.committed = t.committed /\ r.cleared = t.cleared
      /\ r.bound = t.bound /\ r.item = t.item /\ r.sentence = t.sentence
      /\ r.text = t.text /\ r.items = t.items /\ ~r.delayed
  <2>1. r = Released(t)
    BY <1>1, <1>4, <1>5, <1>6 DEF Typed, TypeOK
  <2> QED BY <2>1 DEF Released, TurnRecord
<1>8. Book(k, t, doc) /\ TextOf(k, t) /\ FreshOf(k, t, doc) /\ StreamOf(k) /\ NoneShown
  BY <1>4, <1>5 DEF RunInv, Kept
<1>9. up' \in [Turn -> TaskRecord]
  BY DEF Typed, TypeOK
<1>10. TextOf(k, turn[k])'
  BY <1>3, <1>4, <1>6, <1>7, <1>8, <1>9, TextKept DEF Listening, Dropped
<1>11. CASE t.delayed
  <2>1. t.committed /\ t.item \in Uid
    BY <1>4, <1>5, <1>11 DEF Typed, WellFormed
  <2>2. PICK n \in Uid, x \in Text : n = t.item /\ x = t.text
    BY <2>1 DEF TurnRecord
  <2>3. t.mode \in AllModes
    BY DEF TurnRecord
  <2>4. IsQwen(t.mode) => x = <<>>
    BY <1>8, <2>2 DEF Book, ManualBook, VadBook, IsQwen
  <2>5. CommitItem(<<k, n>>, x)
    BY <1>1, <1>5, <1>11, <2>2, <2>4
  <2>6. /\ \A j \in Item : Told(j) /\ (j[1] # k => doc'[j] = doc[j])
        /\ ~t.cleared /\ Book(k, r, doc')
    BY <1>4, <1>7, <1>8, <1>11, <2>1, <2>2, <2>3, <2>5, AnnounceBook
  <2>7. Booked(k)
    BY <1>2, <1>4, <1>5, <1>6, <2>6 DEF Booked
  <2>8. FreshOf(k, turn[k], doc)'
    BY <1>6, <1>7, <2>1 DEF FreshOf
  <2> QED BY <1>2, <1>3, <1>4, <1>10, <2>7, <2>8 DEF StepKind, Alone, Typed, TypeOK
<1>12. CASE ~t.delayed
  <2>1. UNCHANGED <<doc, commits>>
    BY <1>1, <1>5, <1>12 DEF client
  <2>2. Alike(turn'[k], turn[k]) /\ turn'[k].items = turn[k].items
    <3>1. r.delayed = t.delayed
      BY <1>7, <1>12 DEF TurnRecord
    <3> QED BY <1>5, <1>6, <1>7, <3>1 DEF Alike
  <2> QED BY <1>2, <1>3, <1>4, <2>1, <2>2 DEF StepKind, Quiet, Alike, Typed, TypeOK
<1> QED BY <1>11, <1>12

LEMMA ClientArrives ==
  ASSUME Typed, RunInv, Serving, Served, NEW j \in Turn, turn'[j].queued = turn[j].queued, Silent(j)
  PROVE  Arrives(j)
BY ClientTrafficMoves DEF Arrives, RunInv

LEMMA CommitKind ==
  ASSUME Typed, Typed', OrderInv, RunInv, Commit
  PROVE  StepKind
<1>1. PICK k : k = active
  OBVIOUS
<1>2. /\ k \in live /\ k \in Turn /\ Serving /\ Served /\ phase = "running" /\ live' = live
      /\ turn' = [turn EXCEPT ![k].committed = TRUE, ![k].item = CommitName(k),
                              ![k].delayed = Delays(k)]
      /\ Delays(k) \/ turn[k].mode = "qwenVad" => UNCHANGED client
      /\ ~(Delays(k) \/ turn[k].mode = "qwenVad") => CommitItem(<<k, CommitName(k)>>, turn[k].text)
      /\ Finish(k)
  BY <1>1, ActiveTurn DEF Commit, Committable, Serving
<1>3. PICK t \in TurnRecord : t = turn[k]
  BY <1>2 DEF Typed, TypeOK
<1>4. PICK r \in TurnRecord : r = turn'[k]
  BY <1>2 DEF Typed, TypeOK
<1>5. PICK n, d : n = CommitName(k) /\ d = Delays(k)
  OBVIOUS
<1>6. /\ r.mode = t.mode /\ r.committed /\ r.cleared = t.cleared
      /\ r.bound = t.bound /\ r.item = n /\ r.sentence = t.sentence
      /\ r.text = t.text /\ r.items = t.items /\ r.delayed = d /\ r.queued = t.queued
  BY <1>2, <1>3, <1>4, <1>5 DEF Typed, TypeOK, TurnRecord
<1>7. ~t.committed /\ ~t.delayed
  <2>1. ~t.committed
    BY <1>1, <1>2, <1>3, ConstTypes DEF OrderInv, OneBuffer
  <2> QED BY <1>2, <1>3, <2>1 DEF Typed, WellFormed
<1>8. Book(k, t, doc) /\ TextOf(k, t) /\ StreamOf(k) /\ NoneShown
  BY <1>2, <1>3 DEF RunInv, Kept
<1>9. \A j \in Turn \ {k} : turn'[j] = turn[j]
  BY <1>2 DEF Typed, TypeOK
<1>10. \A j \in Turn : Silent(j)
  BY <1>2, SMTT(30) DEF Finish, Silent, Typed, TypeOK, TaskRecord
<1>11. \A j \in Turn : Arrives(j)
  <2>1. \A j \in Turn : turn'[j].queued = turn[j].queued
    BY <1>2, <1>3, <1>4, <1>6, <1>9
  <2> QED BY <1>2, <1>10, <2>1, ClientArrives
<1>12. TextOf(k, turn[k])'
  <2>1. Arrives(k) /\ up' \in [Turn -> TaskRecord]
    BY <1>2, <1>11 DEF Typed, TypeOK
  <2>2. \A u \in Ids : Listening(r, u) => Listening(t, u) /\ r.items[u].text = t.items[u].text
    BY <1>6 DEF Listening, Dropped
  <2> QED BY <1>2, <1>4, <1>6, <1>8, <2>1, <2>2, TextKept
<1>13. FreshOf(k, turn[k], doc)'
  BY <1>4, <1>6 DEF FreshOf
<1>14. CASE t.mode = "qwenVad"
  <2>1. UNCHANGED client /\ ~d
    BY <1>2, <1>3, <1>5, <1>14 DEF Delays
  <2>2. VadBook(k, t, doc)
    BY <1>8, <1>14 DEF Book
  <2>3. n = None
    BY <1>3, <1>5, <1>14, <2>2 DEF VadBook, CommitName
  <2>4. VadBook(k, r, doc)
    BY <1>6, <2>1, <2>2, <2>3 DEF VadBook
  <2>5. Book(k, r, doc)
    BY <1>6, <1>14, <2>4 DEF Book, IsQwen
  <2>6. doc' = doc /\ \A j \in Item : Told(j)
    BY <2>1 DEF client, Told
  <2>7. Booked(k)
    BY <1>2, <1>4, <2>5, <2>6 DEF Booked
  <2> QED BY <1>2, <1>9, <1>11, <1>12, <1>13, <2>7 DEF StepKind, Alone, Typed, TypeOK
<1>15. CASE t.mode # "qwenVad"
  <2>1. PICK w : w = [t EXCEPT !.committed = TRUE, !.item = n, !.delayed = TRUE]
    OBVIOUS
  <2>2. /\ w.mode = t.mode /\ w.committed /\ w.cleared = t.cleared /\ w.delayed
        /\ w.bound = t.bound /\ w.item = n /\ w.sentence = t.sentence
        /\ w.text = t.text /\ w.items = t.items
    BY <2>1 DEF TurnRecord
  <2>3. Book(k, w, doc)
    BY <1>2, <1>3, <1>5, <1>7, <1>8, <1>15, <2>2, WaitBook
  <2>4. CASE d
    <3>1. r.delayed
      BY <1>6, <2>4
    <3>2. doc' = doc /\ \A j \in Item : Told(j)
      BY <1>2, <1>5, <2>4 DEF client, Told
    <3>3. Book(k, r, doc)
      BY <1>2, <1>3, <1>5, <1>6, <1>7, <1>8, <1>15, <3>1, WaitBook
    <3>4. Booked(k)
      BY <1>2, <1>4, <3>2, <3>3 DEF Booked
    <3> QED BY <1>2, <1>9, <1>11, <1>12, <1>13, <3>4 DEF StepKind, Alone, Typed, TypeOK
  <2>5. CASE ~d
    <3>1. PICK m \in Uid, x \in Text : m = n /\ x = t.text
      BY <1>2, <1>3, <1>5, <1>15, CommitNameTyped DEF TurnRecord
    <3>2. CommitItem(<<k, m>>, x) /\ t.mode \in AllModes
      BY <1>2, <1>3, <1>5, <1>15, <2>5, <3>1 DEF TurnRecord
    <3>3. ~r.delayed
      BY <1>6, <2>5
    <3>4. /\ \A j \in Item : Told(j) /\ (j[1] # k => doc'[j] = doc[j])
          /\ ~w.cleared /\ Book(k, r, doc')
      BY <1>2, <1>6, <1>8, <2>2, <2>3, <3>1, <3>2, <3>3, AnnounceBook
    <3>5. Booked(k)
      BY <1>2, <1>3, <1>4, <2>2, <3>4 DEF Booked
    <3> QED BY <1>2, <1>9, <1>11, <1>12, <1>13, <3>5 DEF StepKind, Alone, Typed, TypeOK
  <2> QED BY <2>4, <2>5
<1> QED BY <1>14, <1>15

LEMMA ClearKind ==
  ASSUME Typed, Typed', OrderInv, RunInv, Clear
  PROVE  StepKind
<1>1. PICK k : k = active
  OBVIOUS
<1>2. Serving /\ Served /\ phase = "running" /\ UNCHANGED <<doc, commits>>
  BY DEF Clear, Serving, client
<1>3. CASE UNCHANGED <<live, turn, up>>
  <2>1. \A j \in Turn : Arrives(j)
    BY <1>2, <1>3, ClientArrives DEF Silent
  <2> QED BY <1>2, <1>3, <2>1 DEF StepKind, Quiet, Alike, Typed, TypeOK
<1>4. ASSUME k \in live
      PROVE  /\ k \in Turn /\ turn[k] \in TurnRecord /\ ~turn[k].committed /\ ~turn[k].delayed
             /\ Book(k, turn[k], doc) /\ TextOf(k, turn[k]) /\ StreamOf(k)
  <2>1. k \in Turn /\ turn[k] \in TurnRecord
    BY <1>4 DEF Typed, TypeOK
  <2>2. ~turn[k].committed
    BY <1>1, <1>2, <1>4, <2>1, ConstTypes DEF OrderInv, OneBuffer
  <2>3. ~turn[k].delayed
    BY <2>1, <2>2 DEF Typed, WellFormed
  <2> QED BY <1>4, <2>1, <2>2, <2>3 DEF RunInv, Kept
<1>t. \A j \in Item : Told(j) /\ doc'[j] = doc[j]
  BY <1>2 DEF Told
<1>5. CASE /\ k \in live /\ IsQwen(turn[k].mode) /\ PendingCommitted(k)
           /\ turn' = [turn EXCEPT ![k].cleared = TRUE, ![k].committed = TRUE]
           /\ Finish(k) /\ live' = live
  <2>1. PICK t, r \in TurnRecord : t = turn[k] /\ r = turn'[k]
    <3>1. turn[k] \in TurnRecord /\ turn'[k] \in TurnRecord
      BY <1>4, <1>5 DEF Typed, TypeOK
    <3> QED BY <3>1
  <2>2. /\ r.mode = t.mode /\ r.committed /\ r.cleared /\ r.delayed = t.delayed
        /\ r.bound = t.bound /\ r.item = t.item /\ r.sentence = t.sentence
        /\ r.text = t.text /\ r.items = t.items /\ r.queued = t.queued
    BY <1>4, <1>5, <2>1 DEF Typed, TypeOK, TurnRecord
  <2>3. Book(k, t, doc) /\ ~t.committed /\ ~t.delayed /\ IsQwen(t.mode)
    BY <1>4, <1>5, <2>1
  <2>4. t.mode = "qwenVad"
    <3> SUFFICES ASSUME t.mode = "qwenManual" PROVE FALSE
      BY <2>3 DEF IsQwen
    <3>1. ~t.bound /\ \A u \in Ids : t.items[u].st = "absent"
      BY <2>3 DEF Book, ManualBook
    <3> QED BY <1>5, <2>1, <3>1 DEF PendingCommitted
  <2>5. VadBook(k, r, doc)
    <3>1. VadBook(k, t, doc)
      BY <2>3, <2>4 DEF Book
    <3> QED BY <2>2, <3>1 DEF VadBook
  <2>6. Booked(k)
    <3>1. Book(k, r, doc)
      BY <2>2, <2>4, <2>5 DEF Book, IsQwen
    <3>2. k \in Turn /\ \A u \in Uid : doc'[<<k, u>>] = doc[<<k, u>>]
      BY <1>2, <1>4, <1>5
    <3> QED BY <1>2, <1>5, <1>t, <2>1, <3>1, <3>2 DEF Booked
  <2>7. \A j \in Turn \ {k} : turn'[j] = turn[j]
    BY <1>4, <1>5 DEF Typed, TypeOK
  <2>8. \A j \in Turn : Silent(j)
    BY <1>4, <1>5 DEF Finish, Silent, Typed, TypeOK, TaskRecord
  <2>9. \A j \in Turn : Arrives(j)
    <3>1. \A j \in Turn : turn'[j].queued = turn[j].queued
      BY <1>4, <1>5, <2>1, <2>2, <2>7
    <3> QED BY <1>2, <2>8, <3>1, ClientArrives
  <2>10. TextOf(k, turn[k])'
    <3>1. Arrives(k) /\ up' \in [Turn -> TaskRecord]
      BY <1>4, <1>5, <2>9 DEF Typed, TypeOK
    <3>2. \A u \in Ids : Listening(r, u) => Listening(t, u) /\ r.items[u].text = t.items[u].text
      BY <2>2 DEF Listening, Dropped
    <3>3. k \in Turn /\ TextOf(k, t) /\ StreamOf(k) /\ IsQwen(t.mode)
      BY <1>4, <1>5, <2>1, <2>3
    <3> QED BY <2>1, <3>1, <3>2, <3>3, TextKept
  <2>11. FreshOf(k, turn[k], doc)'
    BY <2>1, <2>2 DEF FreshOf
  <2> QED BY <1>4, <1>5, <2>6, <2>7, <2>9, <2>10, <2>11 DEF StepKind, Alone, Typed, TypeOK
<1>6. CASE /\ k \in live /\ ~(IsQwen(turn[k].mode) /\ PendingCommitted(k)) /\ Forget(k)
  <2>1. PICK t \in TurnRecord : t = turn[k]
    BY <1>4, <1>6
  <2>2. Book(k, t, doc) /\ ~t.committed /\ ~t.delayed
    BY <1>4, <1>6, <2>1
  <2>3. \A u \in Uid : doc[<<k, u>>].st # "committed"
    <3>1. CASE IsQwen(t.mode)
      <4>1. \A u \in Ids : t.items[u].st # "committed"
        BY <1>6, <2>1, <3>1 DEF PendingCommitted
      <4>2. \A u \in Ids : t.items[u].st = "open" => t.mode = "qwenVad"
        BY <1>4, <1>6, <2>1 DEF Typed, WellFormed
      <4> QED BY <1>4, <1>6, <2>2, <3>1, <4>1, <4>2, NothingLeft
    <3>2. CASE ~IsQwen(t.mode)
      <4>1. SentenceBook(k, t, doc)
        BY <2>2, <3>2 DEF Book
      <4>2. CASE t.item = None
        BY <4>1, <4>2, ConstTypes DEF SentenceBook
      <4>3. CASE t.item # None
        BY <2>2, <4>1, <4>3 DEF SentenceBook
      <4> QED BY <4>2, <4>3
    <3> QED BY <3>1, <3>2
  <2>4. k \notin live' /\ live' = live \ {k}
    BY <1>6 DEF Forget
  <2>5. Booked(k)
    BY <1>2, <1>4, <1>6, <1>t, <2>3, <2>4 DEF Booked
  <2>6. \A j \in Turn \ {k} : turn'[j] = turn[j] /\ Silent(j)
    BY <1>4, <1>6, ForgetSilent DEF Forget, Typed, TypeOK
  <2>7. \A j \in Turn \ {k} : Arrives(j)
    BY <1>2, <2>6, ClientArrives
  <2> QED BY <1>4, <1>6, <2>4, <2>5, <2>6, <2>7 DEF StepKind, Alone, Typed, TypeOK
<1> QED BY <1>1, <1>3, <1>5, <1>6 DEF Clear

\* Nothing was ever told of a turn that has not started.
LEMMA NotYetTold ==
  ASSUME Typed, OrderInv, RunInv, phase = "running", NEW k \in Turn, k > turnOrder
  PROVE  \A u \in Uid : doc[<<k, u>>].st = "none"
<1> SUFFICES ASSUME NEW u \in Uid, doc[<<k, u>>].st # "none" PROVE FALSE
  OBVIOUS
<1>1. PICK i \in Item : i = <<k, u>> /\ i[1] = k
  <2>1. <<k, u>> \in Item /\ <<k, u>>[1] = k
    BY DEF Item
  <2> QED BY <2>1
<1>2. Announced(i)
  BY <1>1 DEF RunInv
<1>3. PICK m \in 1 .. Len(commits) : commits[m] = i
  BY <1>2 DEF Announced
<1>4. i[1] <= turnOrder
  BY <1>3 DEF OrderInv, CommitsUpTo
<1> QED BY <1>1, <1>4, ConstTypes DEF Typed, TypeOK, Turn

LEMMA NewBook ==
  ASSUME NEW k \in Turn, \A u \in Uid : doc[<<k, u>>].st = "none",
         NEW r, ~r.committed, ~r.cleared, ~r.delayed, ~r.bound,
         r.item = None, r.text = <<>>,
         \A u \in Ids : r.items[u].st = "absent" /\ r.items[u].text = <<>>
  PROVE  Book(k, r, doc)
<1>1. VadBook(k, r, doc)
  BY ConstTypes DEF VadBook, OpenItem, ToldItem
<1>2. ManualBook(k, r, doc)
  BY ConstTypes DEF ManualBook
<1>3. SentenceBook(k, r, doc)
  BY ConstTypes DEF SentenceBook
<1> QED BY <1>1, <1>2, <1>3 DEF Book

LEMMA AppendFirstKind ==
  ASSUME Typed, Typed', OrderInv, RunInv, AppendFirst
  PROVE  StepKind
<1>1. Serving /\ Served /\ phase = "running" /\ UNCHANGED <<doc, commits>>
  BY DEF AppendFirst, Serving, client
<1>2. CASE phase' # "running" /\ UNCHANGED live
  BY <1>1, <1>2 DEF StepKind, Quiet
<1>3. PICK k : k = turnOrder + 1
  OBVIOUS
<1>4. CASE /\ turnOrder < MaxTurns /\ settings # "unset"
           /\ live' = live \cup {k}
           /\ turn' = [turn EXCEPT ![k] = [NewTurn(settings) EXCEPT !.samples = 1]]
           /\ up' = [up EXCEPT ![k].started = TRUE, ![k].open = TRUE, ![k].qwen = IsQwen(settings)]
  <2>1. k \in Turn /\ k > turnOrder /\ settings \in AllModes
    <3>1. turnOrder \in 0 .. MaxTurns /\ settings \in Modes \cup {"unset"}
      BY DEF Typed, TypeOK
    <3>2. settings \in AllModes
      BY <1>4, <3>1, BridgeAssumption
    <3>3. k \in Turn /\ k > turnOrder
      BY <1>3, <1>4, <3>1, ConstTypes DEF Turn
    <3> QED BY <3>2, <3>3
  <2>2. k \notin live
    BY <1>1, <2>1 DEF OrderInv, Typed, TypeOK, Turn
  <2>3. \A u \in Uid : doc[<<k, u>>].st = "none"
    BY <1>1, <2>1, NotYetTold
  <2>0. turn \in [Turn -> TurnRecord] /\ up \in [Turn -> TaskRecord]
    BY DEF Typed, TypeOK
  <2>4. PICK r : r = turn'[k] /\ r = [NewTurn(settings) EXCEPT !.samples = 1]
    BY <1>4, <2>0, <2>1
  <2>5. /\ Book(k, r, doc) /\ ~r.cleared
        /\ \A u \in Ids : r.items[u].st = "absent" /\ r.items[u].text = <<>>
    <3>1. /\ ~r.committed /\ ~r.cleared /\ ~r.delayed /\ ~r.bound
          /\ r.item = None /\ r.text = <<>>
          /\ \A u \in Ids : r.items[u].st = "absent" /\ r.items[u].text = <<>>
      BY <2>4 DEF NewTurn
    <3> QED BY <2>1, <2>3, <3>1, NewBook
  <2>6. \A j \in Item : Told(j) /\ doc'[j] = doc[j]
    BY <1>1 DEF Told
  <2>7. Booked(k)
    <3>1. \A u \in Uid : doc'[<<k, u>>] = doc[<<k, u>>]
      BY <1>1
    <3> QED BY <1>1, <1>4, <2>4, <2>5, <2>6, <3>1 DEF Booked
  <2>8. \A j \in Turn : Silent(j)
    BY <1>4, <2>0, <2>1 DEF Silent, TaskRecord
  <2>9. \A j \in Turn \ {k} : turn'[j] = turn[j]
    BY <1>4, <2>1 DEF Typed, TypeOK
  <2>10. turn[k].queued = <<>> /\ turn'[k].queued = <<>>
    BY <2>1, <2>2, <2>4 DEF RunInv, ReplayInv, NewTurn
  <2>11. \A j \in Turn : Arrives(j)
    <3>1. \A j \in Turn : turn'[j].queued = turn[j].queued
      BY <2>9, <2>10
    <3> QED BY <1>1, <2>8, <3>1, ClientArrives
  <2>12. ASSUME NEW u \in Ids PROVE Reaches(k, u, 0)
    <3>1. up[k].items[u].len = 0
      BY <2>1 DEF RunInv, Untouched
    <3>2. ASSUME NEW e \in Pending(k), HasText(e) PROVE 0 <= From(e)
      <4>1. Shaped(e) /\ e \in Event
        BY <2>1, <3>2, AheadTyped DEF RunInv, StreamOf, SentEvent
      <4>2. Len(e.text) \in Nat /\ Len(e.delta) \in Nat
        BY <3>2, <4>1, TextEvent
      <4> QED BY <4>1, <4>2 DEF Shaped, From
    <3> QED BY <3>1, <3>2 DEF Reaches
  <2>13. \A u \in Ids : Reaches(k, u, 0)'
    <3>1. StreamOf(k) /\ up' \in [Turn -> TaskRecord] /\ 0 \in Nat
      BY <2>1 DEF RunInv, Typed, TypeOK
    <3> QED BY <2>1, <2>11, <2>12, <3>1, ReachesKept
  <2>14. TextOf(k, turn[k])'
    <3>1. <<>> = Chunks(0, 0) /\ Len(<<>>) = 0
      <4>1. Chunks(0, 0) \in Text /\ Len(Chunks(0, 0)) = 0
        BY ChunksLen
      <4> QED BY <4>1 DEF Text
    <3>2. ASSUME NEW u \in Ids
          PROVE  /\ r.items[u].text = Chunks(0, Len(r.items[u].text))
                 /\ Reaches(k, u, Len(r.items[u].text))'
      <4>1. PICK x : x = r.items[u].text
        OBVIOUS
      <4>2. x = <<>> /\ Len(x) = 0 /\ Reaches(k, u, 0)'
        BY <2>5, <2>13, <3>1, <4>1
      <4> QED BY <3>1, <4>1, <4>2
    <3> QED BY <2>4, <3>2 DEF TextOf
  <2>15. FreshOf(k, turn[k], doc)'
    BY <1>1, <2>3, ConstTypes DEF FreshOf
  <2>16. live \subseteq Turn /\ live' \ {k} = live \ {k}
    BY <1>4 DEF Typed, TypeOK
  <2> QED BY <1>1, <2>1, <2>7, <2>9, <2>11, <2>14, <2>15, <2>16 DEF StepKind, Alone
<1> QED BY <1>1, <1>2, <1>3, <1>4 DEF AppendFirst, End

LEMMA QuietClientKind ==
  ASSUME Typed, RunInv, Refused \/ SessionUpdate \/ AppendMore
  PROVE  StepKind
<1>1. Serving /\ Served /\ UNCHANGED <<live, doc, commits, up>>
  BY DEF Refused, SessionUpdate, AppendMore, client
<1>2. \A j \in Turn : /\ Alike(turn'[j], turn[j]) /\ turn'[j].items = turn[j].items
                      /\ turn'[j].queued = turn[j].queued
  <2>1. CASE turn' = turn
    BY <2>1 DEF Alike
  <2>2. CASE AppendMore
    BY <2>2, ZenonT(30) DEF AppendMore, Alike, Typed, TypeOK, TurnRecord
  <2> QED BY <2>1, <2>2 DEF Refused, SessionUpdate
<1>3. \A j \in Turn : Arrives(j)
  BY <1>1, <1>2, ClientArrives DEF Silent
<1> QED BY <1>1, <1>2, <1>3 DEF StepKind, Quiet, Typed, TypeOK

LEMMA OtherKind ==
  ASSUME Typed, RunInv, Disconnect \/ Terminated \/ UNCHANGED vars \/ \E k \in Turn : Task(k)
  PROVE  StepKind
<1>1. CASE Disconnect
  BY <1>1 DEF Disconnect, End, StepKind, Quiet, client
<1>2. CASE Terminated \/ UNCHANGED vars
  <2>1. UNCHANGED <<live, doc, commits, turn, up, cur, batch, inbox>>
    BY <1>2 DEF Terminated, vars
  <2>2. \A j \in Turn : Arrives(j)
    <3>1. ASSUME NEW j \in Turn PROVE Arrives(j)
      <4>1. Ahead(j)' = Ahead(j)
        BY <2>1 DEF Ahead
      <4> QED BY <2>1, <4>1, SameStays DEF Arrives, Silent
    <3> QED BY <3>1
  <2> QED BY <2>1, <2>2 DEF StepKind, Quiet, Alike, Typed, TypeOK
<1>3. ASSUME NEW k \in Turn, Task(k) PROVE StepKind
  <2>1. UNCHANGED <<live, doc, commits, turn>>
    BY <1>3 DEF Task, UpQwen, UpStage, UpText, UpFailed, UpSentence, UpFinished, UpErr, Forward, client
  <2>2. \A j \in Turn : Arrives(j)
    BY <1>3, TaskArrives
  <2> QED BY <2>1, <2>2 DEF StepKind, Quiet, Alike, Typed, TypeOK
<1> QED BY <1>1, <1>2, <1>3

LEMMA StepKinds ==
  ASSUME Typed, OrderInv, RunInv, [Next]_vars
  PROVE  StepKind
<1>1. Typed'
  BY StepTyped
<1> QED BY <1>1, UpstreamKind, ReplayKind, DrainKind, CommitKind, ClearKind, AppendFirstKind,
           QuietClientKind, OtherKind DEF Next, Loop, Client

\* What was announced stays announced.
LEMMA AnnouncedKept ==
  ASSUME Typed, [Next]_vars, NEW i, Announced(i)
  PROVE  Announced(i)'
<1>s. commits \in Seq(Item)
  BY DEF Typed, TypeOK
<1>1. ASSUME NEW j, commits' = Append(commits, j) PROVE Announced(i)'
  <2>1. Len(commits') = Len(commits) + 1 /\ \A n \in 1 .. Len(commits) : commits'[n] = commits[n]
    BY <1>s, <1>1
  <2>2. \A n \in 1 .. Len(commits) : n \in 1 .. Len(commits')
    BY <1>s, <2>1
  <2> QED BY <2>1, <2>2 DEF Announced
<1>2. CASE commits' = commits
  BY <1>2 DEF Announced
<1>3. ASSUME NEW k, NEW e \in Event, Process(k, e) PROVE Announced(i)'
  <2>1. commits' = commits \/ \E j \in Item : commits' = Append(commits, j)
    BY <1>3, ProcessEffect DEF Effect, Typed
  <2> QED BY <1>1, <1>2, <2>1
<1>4. CASE Upstream
  <2>1. \E k \in Turn : (k \in live /\ Effect(k)) \/ commits' = commits
    <3>1. PICK k \in Turn, e \in Event :
              \/ k \notin live /\ Ignore
              \/ k \in live /\ Blocked(k) /\ Hold(k, e)
              \/ k \in live /\ ~Blocked(k) /\ Effect(k)
      BY <1>4, UpstreamParts
    <3> QED BY <3>1 DEF Ignore, Hold, Reject, client
  <2> QED BY <1>1, <1>2, <2>1 DEF Effect
<1>5. CASE Replay
  <2>1. Head(batch) \in Event
    BY <1>5, HeadTail DEF Replay, Typed, TypeOK, WellFormed
  <2> QED BY <1>3, <1>5, <2>1 DEF Replay
<1>6. CASE DrainNext
  BY <1>1, <1>2, <1>6 DEF DrainNext, CommitItem, client
<1>7. CASE Commit
  BY <1>1, <1>2, <1>7 DEF Commit, CommitItem, client
<1>8. CASE Refused \/ SessionUpdate \/ AppendMore \/ AppendFirst \/ Clear
  BY <1>2, <1>8 DEF Refused, SessionUpdate, AppendMore, AppendFirst, Clear, client
<1>9. CASE Disconnect \/ Terminated \/ UNCHANGED vars \/ \E k \in Turn : Task(k)
  <2>1. CASE Disconnect \/ Terminated \/ UNCHANGED vars
    BY <1>2, <2>1 DEF Disconnect, Terminated, vars, client
  <2>2. ASSUME NEW k \in Turn, Task(k) PROVE commits' = commits
    BY <2>2 DEF Task, UpQwen, UpStage, UpText, UpFailed, UpSentence, UpFinished, UpErr, Forward, client
  <2> QED BY <1>2, <1>9, <2>1, <2>2
<1> QED BY <1>4, <1>5, <1>6, <1>7, <1>8, <1>9 DEF Next, Loop, Client

LEMMA UntouchedKept ==
  ASSUME Typed, Typed', OrderInv, RunInv, phase = "running", phase' = "running", [Next]_vars
  PROVE  Untouched'
<1>t. turnOrder \in Int /\ turnOrder' \in Int /\ up \in [Turn -> TaskRecord] /\ Turn \subseteq Nat
  BY ConstTypes DEF Typed, TypeOK
<1>1. ASSUME NEW k \in Turn, k > turnOrder',
             turnOrder' >= turnOrder, up'[k].started = up[k].started, Silent(k)
      PROVE  ~up'[k].started /\ \A u \in Ids : up'[k].items[u].len = 0
  <2>1. k > turnOrder
    BY <1>1, <1>t
  <2> QED BY <1>1, <2>1 DEF RunInv, Untouched, Silent
<1>2. ASSUME turnOrder' >= turnOrder,
             \A k \in Turn : k > turnOrder' => up'[k].started = up[k].started /\ Silent(k)
      PROVE  Untouched'
  BY <1>1, <1>2 DEF Untouched
<1>3. CASE turnOrder' = turnOrder /\ up' = up
  BY <1>2, <1>3, <1>t DEF Silent
<1>4. ASSUME NEW j \in Turn, Task(j) PROVE Untouched'
  <2>1. up[j].started /\ turnOrder' = turnOrder
    BY <1>4 DEF Task, UpQwen, UpStage, UpText, UpFailed, UpSentence, UpFinished, UpErr, Forward
  <2>2. \A k \in Turn \ {j} : up'[k] = up[k]
    BY <1>4, <1>t DEF Task, UpQwen, UpStage, UpText, UpFailed, UpSentence, UpFinished, UpErr
  <2>3. \A k \in Turn : k > turnOrder => k # j
    BY <2>1 DEF RunInv, Untouched
  <2> QED BY <1>2, <1>t, <2>1, <2>2, <2>3 DEF Silent
<1>5. ASSUME NEW j, Forget(j), turnOrder' = turnOrder PROVE Untouched'
  <2>1. \A k \in Turn : up'[k].started = up[k].started /\ Silent(k)
    BY <1>5, <1>t, ForgetSilent DEF Forget, TaskRecord
  <2> QED BY <1>2, <1>5, <1>t, <2>1
<1>6. ASSUME NEW k, NEW e, Process(k, e), turnOrder' = turnOrder PROVE Untouched'
  <2>1. up' = up \/ Forget(k)
    BY <1>6 DEF Process, Ignore, ProcessErr, ProcessFinished, VadSentence, TurnSentence, QwenItem,
                QwenStage, Reject
  <2> QED BY <1>3, <1>5, <1>6, <2>1
<1>7. CASE Upstream
  <2>1. turnOrder' = turnOrder /\ (up' = up \/ \E k, e : Process(k, e))
    BY <1>7 DEF Upstream, Ignore, Hold, Reject
  <2> QED BY <1>3, <1>6, <2>1
<1>8. CASE Replay \/ DrainNext
  BY <1>3, <1>6, <1>8 DEF Replay, DrainNext
<1>9. CASE Refused \/ SessionUpdate \/ AppendMore
  BY <1>3, <1>9 DEF Refused, SessionUpdate, AppendMore
<1>10. ASSUME NEW k \in Turn, Finish(k), turnOrder' = turnOrder PROVE Untouched'
  <2>1. \A j \in Turn : up'[j].started = up[j].started /\ Silent(j)
    BY <1>10, <1>t DEF Finish, Silent, TaskRecord
  <2> QED BY <1>2, <1>10, <1>t, <2>1
<1>11. CASE Commit
  BY <1>10, <1>11, ActiveTurn DEF Commit, Committable
<1>12. CASE Clear
  BY <1>3, <1>5, <1>10, <1>12, ActiveTurn DEF Clear
<1>13. CASE AppendFirst
  <2>1. CASE UNCHANGED <<turnOrder, up>>
    BY <1>3, <2>1
  <2>2. CASE /\ turnOrder' = turnOrder + 1
             /\ up' = [up EXCEPT ![turnOrder + 1].started = TRUE, ![turnOrder + 1].open = TRUE,
                                 ![turnOrder + 1].qwen = IsQwen(settings)]
    <3>1. \A k \in Turn : k > turnOrder' => up'[k] = up[k]
      BY <1>t, <2>2
    <3>2. \A k \in Turn : k > turnOrder' => up'[k].started = up[k].started /\ Silent(k)
      BY <3>1 DEF Silent
    <3>3. turnOrder' >= turnOrder
      BY <1>t, <2>2
    <3> QED BY <1>2, <3>2, <3>3
  <2> QED BY <1>13, <2>1, <2>2 DEF AppendFirst
<1>14. CASE Disconnect \/ Terminated \/ UNCHANGED vars
  BY <1>3, <1>14 DEF Disconnect, Terminated, vars
<1> QED BY <1>4, <1>7, <1>8, <1>9, <1>11, <1>12, <1>13, <1>14 DEF Next, Loop, Client

-----------------------------------------------------------------------------
(* What the client was told.                                               *)

\* A step that went by the books.
LEMMA StepTold ==
  ASSUME StepKind
  PROVE  \A i \in Item : Told(i)
<1>1. CASE Quiet
  BY <1>1 DEF Quiet, Told
<1> QED BY <1>1 DEF StepKind, Alone, Booked

LEMMA Stopped ==
  ASSUME phase # "running", [Next]_vars
  PROVE  UNCHANGED <<phase, cause, live, turn, doc, commits>>
<1>1. CASE Terminated \/ UNCHANGED vars
  BY <1>1 DEF Terminated, vars
<1>2. \A k \in Turn : ~Task(k)
  <2>1. ASSUME NEW k \in Turn, Task(k) PROVE phase = "running"
    BY <2>1 DEF Task, UpQwen, UpStage, UpText, UpFailed, UpSentence, UpFinished, UpErr, Forward
  <2> QED BY <2>1
<1>3. ~Loop /\ ~Disconnect
  BY DEF Loop, Upstream, DrainNext, Replay, Disconnect
<1>4. ~Client
  BY DEF Client, Refused, SessionUpdate, AppendMore, AppendFirst, Commit, Clear, Serving
<1> QED BY <1>1, <1>2, <1>3, <1>4 DEF Next

LEMMA FinalKept ==
  ASSUME Typed, OrderInv, DInv, phase = "running", [Next]_vars
  PROVE  DocFinal'
<1>1. \A i \in Item : Told(i)
  BY StepKinds, StepTold DEF DInv
<1>2. ASSUME NEW i \in Item
      PROVE  /\ doc'[i].ends <= 1
             /\ doc'[i].st = "completed" \/ doc'[i].shown # <<>> => Announced(i)'
             /\ doc'[i].st = "completed" => doc'[i].shown = doc'[i].transcript
  <2>1. /\ doc[i].ends <= 1 /\ Told(i)
        /\ doc[i].st = "completed" \/ doc[i].shown # <<>> => Announced(i)'
        /\ doc[i].st = "completed" => doc[i].shown = doc[i].transcript
    BY <1>1, AnnouncedKept DEF DInv, DocFinal
  <2>2. /\ doc[i].st # "none" => Announced(i)'
        /\ doc[i].st \in {"none", "committed"} => doc[i].ends = 0
    BY AnnouncedKept DEF DInv, RunInv, NoEnds
  <2> QED BY <2>1, <2>2 DEF Told
<1> QED BY <1>2 DEF DocFinal

LEMMA ItemsKept ==
  ASSUME Typed, OrderInv, RunInv, phase = "running", phase' = "running", [Next]_vars
  PROVE  /\ \A i \in Item : doc'[i].st # "none" => Announced(i)'
         /\ NoneShown' /\ NoEnds'
<1>1. \A i \in Item : Told(i)
  BY StepKinds, StepTold
<1>2. ASSUME NEW i \in Item
      PROVE  /\ doc'[i].st # "none" => Announced(i)'
             /\ doc'[i].st = "none" => doc'[i].shown = <<>>
             /\ doc'[i].st \in {"none", "committed"} => doc'[i].ends = 0
  <2>1. /\ Told(i)
        /\ doc[i].st # "none" => Announced(i)'
        /\ doc[i].st = "none" => doc[i].shown = <<>>
        /\ doc[i].st \in {"none", "committed"} => doc[i].ends = 0
    BY <1>1, AnnouncedKept DEF RunInv, NoneShown, NoEnds
  <2> QED BY <2>1 DEF Told
<1> QED BY <1>2 DEF NoneShown, NoEnds

\* The book and the text of a turn that a step does not touch.
LEMMA OtherKept ==
  ASSUME Typed, up' \in [Turn -> TaskRecord], turn' \in [Turn -> TurnRecord],
         NEW k \in Turn, StreamOf(k), Arrives(k), Kept(k),
         Alike(turn'[k], turn[k]), turn'[k].items = turn[k].items,
         \A u \in Uid : doc'[<<k, u>>] = doc[<<k, u>>]
  PROVE  Kept(k)'
<1>1. PICK t, r \in TurnRecord : t = turn[k] /\ r = turn'[k]
  <2>1. turn[k] \in TurnRecord /\ turn'[k] \in TurnRecord
    BY DEF Typed, TypeOK
  <2> QED BY <2>1
<1>2. Book(k, t, doc) /\ TextOf(k, t) /\ FreshOf(k, t, doc)
  BY <1>1 DEF Kept
<1>3. Alike(r, t) /\ r.items = t.items
  BY <1>1
<1>4. Book(k, r, doc')
  <2>1. VadBook(k, t, doc) => VadBook(k, r, doc')
    BY <1>3, ConstTypes DEF VadBook, Alike
  <2>2. ManualBook(k, t, doc) => ManualBook(k, r, doc')
    BY <1>3, ConstTypes DEF ManualBook, Alike
  <2>3. SentenceBook(k, t, doc) => SentenceBook(k, r, doc')
    <3>1. r.item = None \/ r.item \in Uid
      BY DEF TurnRecord
    <3> QED BY <1>3, <3>1, ConstTypes DEF SentenceBook, Alike
  <2> QED BY <1>2, <1>3, <2>1, <2>2, <2>3 DEF Book, Alike
<1>5. TextOf(k, turn[k])'
  <2>1. IsQwen(r.mode) => /\ IsQwen(t.mode)
                          /\ \A u \in Ids : Listening(r, u) => Listening(t, u)
                                                /\ r.items[u].text = t.items[u].text
    BY <1>3 DEF Listening, Dropped, Alike
  <2> QED BY <1>1, <1>2, <2>1, TextKept
<1>6. FreshOf(k, turn[k], doc)'
  <2>1. r.mode = t.mode /\ r.committed = t.committed /\ \A u \in Ids : doc'[<<k, u>>] = doc[<<k, u>>]
    BY <1>3, ConstTypes DEF Alike
  <2> QED BY <1>1, <1>2, <2>1, FreshKept
<1> QED BY <1>1, <1>4, <1>5, <1>6 DEF Kept

LEMMA TurnsKept ==
  ASSUME Typed, Typed', OrderInv, RunInv, phase = "running", phase' = "running", [Next]_vars
  PROVE  /\ \A k \in live' : Kept(k)'
         /\ \A i \in Item : i[1] \notin live' => doc'[i].st # "committed"
<1>t. /\ up' \in [Turn -> TaskRecord] /\ turn' \in [Turn -> TurnRecord]
      /\ live \subseteq Turn /\ live' \subseteq Turn
      /\ \A k \in Turn, u \in Uid : <<k, u>> \in Item /\ <<k, u>>[1] = k
  BY DEF Typed, TypeOK, Item
<1>1. CASE Quiet
  <2>1. UNCHANGED <<live, doc>>
    BY <1>1 DEF Quiet
  <2>2. ASSUME NEW k \in live' PROVE Kept(k)'
    <3>1. k \in live /\ k \in Turn /\ \A u \in Uid : doc'[<<k, u>>] = doc[<<k, u>>]
      BY <1>t, <2>1
    <3>2. StreamOf(k) /\ Kept(k)
      BY <3>1 DEF RunInv
    <3>3. Alike(turn'[k], turn[k]) /\ turn'[k].items = turn[k].items /\ Arrives(k)
      BY <1>1, <3>1 DEF Quiet
    <3> QED BY <1>t, <3>1, <3>2, <3>3, OtherKept
  <2> QED BY <2>1, <2>2 DEF RunInv
<1>2. ASSUME NEW k \in Turn, Alone(k)
      PROVE  /\ \A j \in live' : Kept(j)'
             /\ \A i \in Item : i[1] \notin live' => doc'[i].st # "committed"
  <2>1. /\ Booked(k) /\ live' \ {k} = live \ {k}
        /\ k \in live' => TextOf(k, turn[k])' /\ FreshOf(k, turn[k], doc)'
        /\ \A j \in live \ {k} : turn'[j] = turn[j] /\ Arrives(j)
    BY <1>2 DEF Alone
  <2>2. ASSUME NEW j \in live', j # k PROVE Kept(j)'
    <3>1. j \in live /\ j \in Turn /\ turn'[j] = turn[j] /\ Arrives(j)
      BY <1>t, <2>1, <2>2
    <3>2. \A u \in Uid : doc'[<<j, u>>] = doc[<<j, u>>]
      BY <1>t, <2>1, <2>2, <3>1 DEF Booked
    <3>3. StreamOf(j) /\ Kept(j)
      BY <3>1 DEF RunInv
    <3> QED BY <1>t, <3>1, <3>2, <3>3, OtherKept DEF Alike
  <2>3. k \in live' => Kept(k)'
    BY <2>1 DEF Booked, Kept
  <2>4. ASSUME NEW i \in Item, i[1] \notin live' PROVE doc'[i].st # "committed"
    <3>1. CASE i[1] = k
      <4>1. PICK u \in Uid : i = <<k, u>>
        BY <3>1 DEF Item
      <4> QED BY <2>1, <2>4, <3>1, <4>1 DEF Booked
    <3>2. CASE i[1] # k
      BY <2>1, <2>4, <3>2 DEF Booked, RunInv
    <3> QED BY <3>1, <3>2
  <2> QED BY <2>2, <2>3, <2>4
<1> QED BY <1>1, <1>2, StepKinds DEF StepKind

LEMMA RunKept ==
  ASSUME Typed, OrderInv, RunInv, phase = "running", phase' = "running", [Next]_vars
  PROVE  RunInv'
<1>1. Typed'
  BY StepTyped
<1>2. ReplayInv'
  BY ReplayKept DEF RunInv
<1>3. Untouched'
  BY <1>1, UntouchedKept
<1>4. ASSUME NEW k \in Turn PROVE StreamOf(k)'
  <2>1. Traffic(k)
    BY StepTraffic DEF RunInv
  <2>2. up' \in [Turn -> TaskRecord]
    BY <1>1 DEF Typed, TypeOK
  <2> QED BY <2>1, <2>2, StreamKept DEF RunInv
<1> QED BY <1>1, <1>2, <1>3, <1>4, ItemsKept, TurnsKept DEF RunInv

LEMMA StepDoc ==
  ASSUME Typed, OrderInv, DInv, [Next]_vars
  PROVE  DInv'
<1>1. CASE phase = "running"
  BY <1>1, FinalKept, RunKept DEF DInv
<1>2. CASE phase # "running"
  BY <1>2, Stopped DEF DInv, DocFinal, Announced
<1> QED BY <1>1, <1>2

LEMMA InitDoc == Init => DInv
<1> SUFFICES ASSUME Init PROVE DInv
  OBVIOUS
<1>1. \A i \in Item : /\ doc[i].st = "none" /\ doc[i].shown = <<>> /\ doc[i].ends = 0
  BY DEF Init, NoDoc
<1>2. /\ live = {} /\ cur = 0 /\ batch = <<>> /\ inbox = <<>>
      /\ \A k \in Turn : turn[k].queued = <<>>
      /\ \A k \in Turn : ~up[k].started /\ \A u \in Ids : up[k].items[u].len = 0
  BY DEF Init, NewTurn, NoTask
<1>3. ASSUME NEW k \in Turn PROVE StreamOf(k)
  <2>1. Ahead(k) = <<>>
    BY <1>2 DEF Ahead
  <2>2. \A s : s = <<>> => DOMAIN s = {}
    OBVIOUS
  <2>3. Pending(k) = {} /\ \A e, f : ~Earlier(k, e, f)
    BY <1>2, <2>1, <2>2 DEF Pending, PendingIn, Earlier, EarlierIn
  <2> QED BY <2>3 DEF StreamOf
<1>4. ReplayInv
  BY <1>2 DEF ReplayInv
<1>5. RunInv
  BY <1>1, <1>2, <1>3, <1>4 DEF RunInv, NoneShown, NoEnds, Untouched
<1>6. DocFinal
  BY <1>1 DEF DocFinal
<1> QED BY <1>5, <1>6 DEF DInv

LEMMA DocInvariance == Spec => []DInv
<1>1. Init => DInv
  BY InitDoc
<1>2. IInv /\ DInv /\ [Next]_vars => DInv'
  BY StepDoc DEF IInv, Typed
<1> QED BY <1>1, <1>2, Invariance, PTL DEF Spec

\* A turn whose commit waits never comes to report an error itself.
LEMMA ErrReports ==
  ASSUME Typed, NEW k \in live, ProcessErr(k), ~turn[k].delayed, Book(k, turn[k], doc),
         NEW i \in Item, doc'[i].st = "failed"
  PROVE  doc[i].st # "none" \/ OpenSentence(i)'
<1>k. k \in Turn
  BY DEF Typed, TypeOK
<1>0. PICK t \in TurnRecord : t = turn[k]
  BY <1>k DEF Typed, TypeOK
<1>1. doc' = Failed(doc, Unfinished(k)) /\ live' = live /\ turn' = turn
  BY DEF ProcessErr
<1>2. CASE i \notin Unfinished(k)
  <2>1. doc[i] \in DocRecord
    BY DEF Typed, TypeOK
  <2>2. doc'[i] = IF i \in Unfinished(k) THEN [doc[i] EXCEPT !.st = "failed", !.ends = @ + 1]
                                         ELSE doc[i]
    BY <1>1 DEF Failed
  <2>3. doc'[i] = doc[i]
    BY <1>2, <2>2, Zenon
  <2> QED BY <2>3
<1>3. CASE /\ i = <<k, t.item>> /\ t.item # None
           /\ IsQwen(t.mode) => t.mode = "qwenManual" /\ ~t.bound
  <2>1. CASE IsQwen(t.mode)
    <3>1. ManualBook(k, t, doc) /\ ~t.bound
      BY <1>0, <1>3, <2>1 DEF Book
    <3>2. t.committed /\ t.item = Tail0
      BY <1>3, <3>1 DEF ManualBook
    <3> QED BY <1>0, <1>3, <3>1, <3>2 DEF ManualBook
  <2>2. CASE ~IsQwen(t.mode)
    <3>1. SentenceBook(k, t, doc)
      BY <1>0, <2>2 DEF Book
    <3>2. CASE t.committed
      BY <1>0, <1>3, <3>1, <3>2 DEF SentenceBook
    <3>3. CASE ~t.committed
      <4>1. t.mode = "sentVad"
        BY <1>3, <3>1, <3>3 DEF SentenceBook
      <4>2. i[1] = k /\ i[2] = t.item
        BY <1>3
      <4>3. OpenSentence(i)
        BY <1>0, <3>3, <4>1, <4>2 DEF OpenSentence
      <4> QED BY <1>1, <4>3 DEF OpenSentence
    <3> QED BY <3>2, <3>3
  <2> QED BY <2>1, <2>2
<1>4. ASSUME NEW u \in Ids, t.items[u].st = "committed", i = ItemOf(k, u)
      PROVE  doc[i].st # "none"
  <2>1. i = <<k, IF t.mode = "qwenManual" THEN t.item ELSE u>>
    BY <1>0, <1>4 DEF ItemOf
  <2>2. IsQwen(t.mode)
    BY <1>0, <1>4 DEF Book, SentenceBook
  <2>3. CASE t.mode = "qwenVad"
    BY <1>0, <1>4, <2>1, <2>3 DEF Book, VadBook, ToldItem
  <2>4. CASE t.mode = "qwenManual"
    <3>1. ManualBook(k, t, doc)
      BY <1>0, <2>4 DEF Book
    <3>2. t.bound /\ ToldItem(t.items[u], doc[<<k, Tail0>>])
      BY <1>4, <3>1 DEF ManualBook
    <3>3. t.committed
      BY <3>1, <3>2 DEF ManualBook
    <3> QED BY <1>4, <2>1, <2>4, <3>1, <3>2, <3>3 DEF ManualBook, ToldItem
  <2> QED BY <2>2, <2>3, <2>4 DEF IsQwen
<1> QED BY <1>0, <1>2, <1>3, <1>4 DEF Unfinished

\* The step that ends the session reports nothing else.
LEMMA LastReports ==
  ASSUME Typed, OrderInv, RunInv, [Next]_vars, phase = "running", phase' # "running",
         NEW i \in Item, doc'[i].st = "failed"
  PROVE  doc[i].st # "none" \/ (phase' = "ended" /\ cause' = "upstream" /\ OpenSentence(i)')
<1> DEFINE Goal == doc[i].st # "none" \/ (phase' = "ended" /\ cause' = "upstream" /\ OpenSentence(i)')
<1>0. ReplayInv
  BY DEF RunInv
<1>1. ASSUME NEW k \in live, NEW e, Process(k, e), ~turn[k].delayed PROVE Goal
  <2>1. CASE ProcessErr(k)
    <3>1. k \in Turn /\ Book(k, turn[k], doc)
      BY DEF RunInv, Kept, Typed, TypeOK
    <3>2. phase' = "ended" /\ cause' = "upstream"
      BY <2>1 DEF ProcessErr, End
    <3> QED BY <1>1, <2>1, <3>1, <3>2, ErrReports
  <2>2. CASE doc' = doc
    BY <2>2
  <2> QED BY <1>1, <2>1, <2>2, ProcessEnds
<1>2. CASE Upstream
  <2>1. PICK k, e : /\ inbox # <<>> /\ pc = "select" /\ k = Head(inbox).key
                    /\ \/ k \notin live /\ Ignore
                       \/ k \in live /\ Blocked(k) /\ Hold(k, e)
                       \/ k \in live /\ ~Blocked(k) /\ Process(k, e)
    BY <1>2 DEF Upstream
  <2>2. CASE k \in live /\ ~Blocked(k) /\ Process(k, e)
    <3>1. ~turn[k].delayed
      BY <2>1, <2>2, NothingWaits
    <3> QED BY <1>1, <2>2, <3>1
  <2>3. CASE Ignore \/ Hold(k, e)
    BY <2>3 DEF Ignore, Hold, Reject, client
  <2> QED BY <2>1, <2>2, <2>3
<1>3. CASE Replay
  <2>1. PICK k, e : k = cur /\ e = Head(batch)
    OBVIOUS
  <2>2. k \in Turn /\ Process(k, e)
    BY <1>0, <1>3, <2>1, ReplayMoves
  <2>3. ~turn[k].delayed
    BY <1>0, <2>1, <2>2, ConstTypes DEF ReplayInv
  <2>4. CASE k \notin live
    BY <2>2, <2>4 DEF Process, Ignore
  <2> QED BY <1>1, <2>2, <2>3, <2>4
<1>4. CASE Commit
  <2>1. PICK j, x : doc' = doc \/ CommitItem(j, x)
    BY <1>4 DEF Commit, client
  <2>2. CASE doc' = doc
    BY <2>2
  <2>3. CASE CommitItem(j, x)
    <3>1. doc[i] \in DocRecord /\ doc \in DocType
      BY DEF Typed, TypeOK, DocType
    <3>2. PICK d : d = Added(doc, j)
      OBVIOUS
    <3>3. doc' = [d EXCEPT ![j].shown = @ \o x] /\ d = [doc EXCEPT ![j].st = "committed"]
      BY <2>3, <3>2 DEF CommitItem, Delta, Added
    <3>4. d[i].st = "committed" \/ d[i].st = doc[i].st
      BY <3>1, <3>3 DEF DocType, DocRecord
    <3>5. DOMAIN d = Item /\ DOMAIN d[i] = DOMAIN doc[i]
      BY <3>1, <3>3 DEF DocType, DocRecord
    <3>6. doc'[i].st = d[i].st
      BY <3>1, <3>3, <3>5 DEF DocRecord
    <3> QED BY <3>4, <3>6
  <2> QED BY <2>1, <2>2, <2>3
<1>5. ASSUME NEW k \in Turn, Task(k) PROVE Goal
  <2>1. \A e : Forward(k, e) => doc' = doc
    BY DEF Forward, client
  <2>2. UpQwen(k) => doc' = doc
    BY <2>1, Zenon DEF UpQwen, UpStage, UpText, UpFailed
  <2>3. UpSentence(k) => doc' = doc
    BY <2>1, Zenon DEF UpSentence
  <2>4. UpFinished(k) \/ UpErr(k) => doc' = doc
    BY <2>1, Zenon DEF UpFinished, UpErr
  <2> QED BY <1>5, <2>2, <2>3, <2>4 DEF Task
<1>6. CASE DrainNext \/ Refused \/ SessionUpdate \/ AppendMore \/ AppendFirst \/ Clear
             \/ Disconnect \/ Terminated \/ UNCHANGED vars
  BY <1>6 DEF DrainNext, Refused, SessionUpdate, AppendMore, AppendFirst, Clear, Disconnect,
              Terminated, client, vars
<1> QED BY <1>2, <1>3, <1>4, <1>5, <1>6 DEF Next, Loop, Client

LEMMA StepReports ==
  ASSUME Typed, OrderInv, DInv, FailedRight, [Next]_vars
  PROVE  FailedRight'
<1>1. CASE phase # "running"
  BY <1>1, Stopped DEF FailedRight, Announced, OpenSentence
<1>2. CASE phase' = "running"
  <2>1. RunInv'
    BY <1>2, StepDoc DEF DInv
  <2> QED BY <2>1 DEF RunInv, FailedRight
<1>3. CASE phase = "running" /\ phase' # "running"
  <2>1. RunInv /\ \A i \in Item : doc[i].st # "none" => Announced(i)'
    BY <1>3, AnnouncedKept DEF DInv, RunInv
  <2> QED BY <1>3, <2>1, LastReports DEF FailedRight
<1> QED BY <1>1, <1>2, <1>3

\* The client gets at most one outcome of an item, and neither text nor a
\* transcript of an item that was not announced.  The only item that fails
\* unannounced is the open sentence of a VAD turn when the session ends with
\* an upstream error (commitItem, delayedCommit, processUpstream, upstreamQwen).
THEOREM OutcomesOnce == Spec => []OneOutcome
<1>1. Init => FailedRight
  BY DEF Init, NoDoc, FailedRight
<1>2. IInv /\ DInv /\ FailedRight /\ [Next]_vars => FailedRight'
  BY StepReports DEF IInv, Typed
<1>3. DInv /\ FailedRight => OneOutcome
  BY DEF DInv, DocFinal, FailedRight, OneOutcome
<1> QED BY <1>1, <1>2, <1>3, Invariance, DocInvariance, PTL DEF Spec

\* Whatever was queued, merged in the queue or told before the commit, the
\* deltas of an item are its transcript when it is completed (upstreamQwen,
\* drainOrderedEvents, the merge in queueEvent).
THEOREM DeltasComplete == Spec => []DeltasAddUp
<1>1. DInv => DeltasAddUp
  BY DEF DInv, DocFinal, DeltasAddUp
<1> QED BY <1>1, DocInvariance, PTL

\* A turn that finishes or is cleared while the session goes on leaves no
\* announced item without its outcome (processUpstream, clear).
THEOREM NoneOrphaned == Spec => []NoOrphanItem
<1>1. DInv => NoOrphanItem
  BY DEF DInv, RunInv, NoOrphanItem
<1> QED BY <1>1, DocInvariance, PTL

\* No step announces an item of a cleared turn, and none tells the client
\* anything of a turn that is gone, whatever its task still sends (clear,
\* upstreamQwen, the lookup of the turn in upstream).
THEOREM ClearedStaysSilent == Spec => ClearedIsSilent
<1>1. IInv /\ DInv /\ [Next]_vars
        => [/\ \A k \in Turn : turn[k].cleared => \A u \in Uid :
                 doc[<<k, u>>].st = "none" => doc'[<<k, u>>].st = "none"
            /\ \A i \in Item : i[1] <= turnOrder /\ i[1] \notin live => doc'[i] = doc[i]]_vars
  <2> SUFFICES ASSUME IInv, DInv, [Next]_vars
               PROVE  /\ \A k \in Turn : turn[k].cleared => \A u \in Uid :
                           doc[<<k, u>>].st = "none" => doc'[<<k, u>>].st = "none"
                      /\ \A i \in Item : i[1] <= turnOrder /\ i[1] \notin live => doc'[i] = doc[i]
    OBVIOUS
  <2>0. Typed /\ OrderInv /\ turnOrder \in Int /\ Turn \subseteq Nat
    BY ConstTypes DEF IInv, Typed, TypeOK
  <2>1. CASE doc' = doc
    BY <2>1
  <2>2. ASSUME phase = "running", NEW j \in Turn, Alone(j), doc' # doc
        PROVE  /\ \A k \in Turn : turn[k].cleared => \A u \in Uid :
                    doc[<<k, u>>].st = "none" => doc'[<<k, u>>].st = "none"
               /\ \A i \in Item : i[1] <= turnOrder /\ i[1] \notin live => doc'[i] = doc[i]
    <3>1. /\ \A i \in Item : i[1] # j => doc'[i] = doc[i]
          /\ turn[j].cleared => \A u \in Uid : doc[<<j, u>>].st = "none" => doc'[<<j, u>>].st = "none"
          /\ j \in live \/ j > turnOrder
      BY <2>2 DEF Alone, Booked
    <3>2. \A k \in Turn, u \in Uid : <<k, u>> \in Item /\ <<k, u>>[1] = k
      BY DEF Item
    <3>3. ~(j > turnOrder /\ j <= turnOrder)
      BY <2>0
    <3> QED BY <3>1, <3>2, <3>3
  <2>3. phase = "running" => doc' = doc \/ \E j \in Turn : Alone(j)
    BY <2>0, StepKinds DEF DInv, StepKind, Quiet
  <2> QED BY <2>1, <2>2, <2>3, Stopped
<1> QED BY <1>1, Invariance, DocInvariance, PTL DEF ClearedIsSilent, Spec

-----------------------------------------------------------------------------
(* Sums over a sequence.  The provers have no induction over a predicate;  *)
(* that a set of numbers that is not empty has a least one takes its place. *)

LEMMA Least ==
  ASSUME NEW T \in SUBSET Nat, T # {}
  PROVE  \E n \in T : \A m \in T : n <= m
<1> DEFINE R == {ss \in Nat \X Nat : ss[1] < ss[2]}
<1>1. IsWellFoundedOn(R, Nat)
  BY NatLessThanWellFounded DEF OpToRel
<1>2. \A m, n \in Nat : m < n => <<m, n>> \in R
  OBVIOUS
<1> HIDE DEF R
<1>3. PICK n \in T : \A m \in T : <<m, n>> \notin R
  BY <1>1, WFMin
<1>4. ASSUME NEW m \in T PROVE n <= m
  <2>1. m \in Nat /\ n \in Nat
    OBVIOUS
  <2>2. ~(m < n)
    BY <1>2, <1>3, <2>1
  <2> QED BY <2>1, <2>2
<1> QED BY <1>4

LEMMA Inductive ==
  ASSUME NEW T \in SUBSET Nat, 0 \in T, \A n \in T : n + 1 \in T
  PROVE  T = Nat
<1> SUFFICES ASSUME Nat \ T # {} PROVE FALSE
  OBVIOUS
<1>1. PICK n \in Nat \ T : \A m \in Nat \ T : n <= m
  BY Least
<1>2. n # 0 /\ n - 1 \in Nat /\ n - 1 \in T
  BY <1>1
<1>3. (n - 1) + 1 = n
  OBVIOUS
<1> QED BY <1>1, <1>2, <1>3

LEMMA MaxOf ==
  ASSUME NEW n \in Nat, NEW s \in SUBSET (1 .. n), s # {}
  PROVE  Max(s) \in s /\ \A x \in s : x <= Max(s)
<1> DEFINE T == {n - x : x \in s}
<1>1. T \in SUBSET Nat /\ T # {}
  <2>1. \A x \in s : x \in Nat /\ x <= n
    OBVIOUS
  <2>2. \A x \in s : n - x \in Nat
    BY <2>1
  <2>3. PICK x : x \in s
    OBVIOUS
  <2>4. n - x \in T
    BY <2>3
  <2> QED BY <2>2, <2>4
<1>2. PICK m \in T : \A y \in T : m <= y
  BY <1>1, Least
<1>3. PICK x \in s : m = n - x
  BY <1>2
<1>4. \A y \in s : x >= y
  <2> TAKE y \in s
  <2>1. n - y \in T
    OBVIOUS
  <2>2. m <= n - y
    BY <1>2, <2>1
  <2> QED BY <1>3, <2>2
<1>5. \E z \in s : \A y \in s : z >= y
  BY <1>4
<1>6. Max(s) \in s /\ \A y \in s : Max(s) >= y
  BY <1>5 DEF Max
<1>7. \A y \in s : y \in Int
  OBVIOUS
<1> QED BY <1>6, <1>7

\* h holds the sum of f over every set of numbers up to n, as FoldLeft takes
\* it apart.
Sums(h, f, n) ==
  \A s \in SUBSET (1 .. n) : h[s] = IF s = {} THEN 0 ELSE h[s \ {Max(s)}] + f[Max(s)]

LEMMA MaxOut ==
  ASSUME NEW n \in Nat, NEW s \in SUBSET (1 .. n + 1), s # {}
  PROVE  s \ {Max(s)} \in SUBSET (1 .. n)
<1>0. n + 1 \in Nat
  OBVIOUS
<1>1. Max(s) \in s /\ \A x \in s : x <= Max(s)
  BY <1>0, MaxOf
<1>2. ASSUME NEW x \in s, x # Max(s) PROVE x \in 1 .. n
  <2>1. x \in 1 .. n + 1 /\ Max(s) \in 1 .. n + 1 /\ x <= Max(s)
    BY <1>1
  <2> QED BY <1>2, <2>1
<1> QED BY <1>2

LEMMA SumsExist ==
  ASSUME NEW f, NEW n \in Nat
  PROVE  \E h : Sums(h, f, n)
<1> DEFINE T == {m \in Nat : \E h : Sums(h, f, m)}
<1>1. 0 \in T
  <2> DEFINE g == [s \in SUBSET (1 .. 0) |-> 0]
  <2>1. Sums(g, f, 0)
    BY DEF Sums
  <2> QED BY <2>1
<1>2. ASSUME NEW m \in T PROVE m + 1 \in T
  <2>1. PICK h : Sums(h, f, m)
    OBVIOUS
  <2> DEFINE g == [s \in SUBSET (1 .. m + 1) |->
                     IF s = {} THEN 0 ELSE h[s \ {Max(s)}] + f[Max(s)]]
  <2>2. ASSUME NEW s \in SUBSET (1 .. m) PROVE g[s] = h[s]
    <3>1. s \in SUBSET (1 .. m + 1)
      OBVIOUS
    <3>2. g[s] = IF s = {} THEN 0 ELSE h[s \ {Max(s)}] + f[Max(s)]
      BY <3>1
    <3> HIDE DEF g
    <3> QED BY <2>1, <3>2 DEF Sums
  <2>3. ASSUME NEW s \in SUBSET (1 .. m + 1), s # {}
        PROVE  g[s] = g[s \ {Max(s)}] + f[Max(s)]
    <3>1. s \ {Max(s)} \in SUBSET (1 .. m)
      BY <2>3, MaxOut
    <3>2. g[s] = h[s \ {Max(s)}] + f[Max(s)]
      BY <2>3
    <3> HIDE DEF g
    <3> QED BY <2>2, <3>1, <3>2
  <2>4. g[{}] = 0
    OBVIOUS
  <2> HIDE DEF g
  <2>5. Sums(g, f, m + 1)
    BY <2>3, <2>4 DEF Sums
  <2> QED BY <2>5
<1>3. T = Nat
  <2>1. T \in SUBSET Nat
    OBVIOUS
  <2> HIDE DEF T
  <2> QED BY <1>1, <1>2, <2>1, Inductive
<1>4. n \in T
  BY <1>3
<1> QED BY <1>4

LEMMA SizeTyped == \A e \in Event : Size(e) \in Int
BY EventTypes DEF Size, Text

SizeOf(q) == FoldLeft(LAMBDA n, e : n + Size(e), 0, q)

\* The sizes of the first events of q, added up one by one.
Running(h, q) ==
  /\ h[0] = 0
  /\ \A n \in 1 .. Len(q) : h[n] = h[n - 1] + Size(q[n])

LEMMA SizeRuns ==
  ASSUME NEW q \in Seq(Event)
  PROVE  \E h : Running(h, q) /\ SizeOf(q) = h[Len(q)]
<1> DEFINE f == [n \in DOMAIN q |-> Size(q[n])]
           Is(h) == h = [s \in SUBSET DOMAIN q |-> IF s = {} THEN 0 ELSE h[s \ {Max(s)}] + Size(q[Max(s)])]
<1>0. Len(q) \in Nat /\ DOMAIN q = 1 .. Len(q)
  OBVIOUS
<1>1. PICK g : Sums(g, f, Len(q))
  BY <1>0, SumsExist
<1>2. ASSUME NEW s \in SUBSET DOMAIN q, s # {} PROVE Max(s) \in DOMAIN q /\ f[Max(s)] = Size(q[Max(s)])
  BY <1>0, <1>2, MaxOf
<1> DEFINE r == [s \in SUBSET DOMAIN q |-> g[s]]
<1>3. Is(r)
  <2>1. \A s \in SUBSET DOMAIN q : g[s] = IF s = {} THEN 0 ELSE g[s \ {Max(s)}] + Size(q[Max(s)])
    <3> HIDE DEF f
    <3> QED BY <1>0, <1>1, <1>2 DEF Sums
  <2>2. \A s \in SUBSET DOMAIN q : r[s \ {Max(s)}] = g[s \ {Max(s)}]
    OBVIOUS
  <2> QED BY <2>1, <2>2
<1> DEFINE h == CHOOSE h : Is(h)
<1>4. Is(h)
  <2> HIDE DEF Is
  <2> QED BY <1>3
<1>5. SizeOf(q) = h[DOMAIN q]
  BY DEF SizeOf, FoldLeft, MapThenFoldSet
<1> HIDE DEF h
<1>6. \A s \in SUBSET DOMAIN q : h[s] = IF s = {} THEN 0 ELSE h[s \ {Max(s)}] + Size(q[Max(s)])
  BY <1>4
<1> DEFINE k == [n \in 0 .. Len(q) |-> h[1 .. n]]
<1>7. k[0] = 0
  <2>1. 1 .. 0 = {} /\ 0 \in 0 .. Len(q)
    BY <1>0
  <2>2. h[{}] = 0
    BY <1>6
  <2> QED BY <2>1, <2>2
<1>8. ASSUME NEW n \in 1 .. Len(q) PROVE k[n] = k[n - 1] + Size(q[n])
  <2>0. n \in Nat /\ n <= Len(q) /\ n \in 1 .. n
    BY <1>0
  <2>1. /\ 1 .. n \in SUBSET DOMAIN q /\ 1 .. n # {}
    <3>1. \A x \in 1 .. n : x \in 1 .. Len(q)
      BY <1>0, <2>0
    <3> QED BY <1>0, <2>0, <3>1
  <2>2. Max(1 .. n) = n
    <3>1. Max(1 .. n) \in 1 .. n /\ \A x \in 1 .. n : x <= Max(1 .. n)
      <4>1. 1 .. n \in SUBSET (1 .. n) /\ 1 .. n # {}
        BY <2>1
      <4> QED BY <2>0, <4>1, MaxOf
    <3> QED BY <2>0, <3>1
  <2>3. (1 .. n) \ {n} = 1 .. n - 1
    OBVIOUS
  <2>4. n \in 0 .. Len(q) /\ n - 1 \in 0 .. Len(q)
    BY <1>0, <2>0
  <2>5. h[1 .. n] = h[1 .. n - 1] + Size(q[n])
    BY <1>6, <2>1, <2>2, <2>3
  <2> QED BY <2>4, <2>5
<1>9. SizeOf(q) = k[Len(q)]
  BY <1>0, <1>5
<1> HIDE DEF k
<1> QED BY <1>7, <1>8, <1>9 DEF Running

LEMMA RunsAlike ==
  ASSUME NEW q \in Seq(Event), NEW r \in Seq(Event), NEW h, NEW g, Running(h, q), Running(g, r),
         NEW m \in Nat, m <= Len(q), m <= Len(r), \A n \in 1 .. m : q[n] = r[n]
  PROVE  h[m] = g[m] /\ h[m] \in Int
<1> DEFINE T == {n \in Nat : n <= m => h[n] = g[n] /\ h[n] \in Int}
<1>1. 0 \in T
  BY DEF Running
<1>2. ASSUME NEW n \in T PROVE n + 1 \in T
  <2> SUFFICES ASSUME n + 1 <= m PROVE h[n + 1] = g[n + 1] /\ h[n + 1] \in Int
    OBVIOUS
  <2>1. n + 1 \in 1 .. m /\ n + 1 \in 1 .. Len(q) /\ n + 1 \in 1 .. Len(r) /\ (n + 1) - 1 = n
    OBVIOUS
  <2>2. h[n] = g[n] /\ h[n] \in Int
    OBVIOUS
  <2>3. h[n + 1] = h[n] + Size(q[n + 1]) /\ g[n + 1] = g[n] + Size(r[n + 1])
    BY <2>1 DEF Running
  <2>4. Size(q[n + 1]) = Size(r[n + 1]) /\ Size(q[n + 1]) \in Int
    BY <2>1, SizeTyped
  <2> QED BY <2>2, <2>3, <2>4
<1>3. T = Nat
  <2>1. T \in SUBSET Nat
    OBVIOUS
  <2> HIDE DEF T
  <2> QED BY <1>1, <1>2, <2>1, Inductive
<1>4. m \in T
  BY <1>3
<1> QED BY <1>4

LEMMA SizeAppend ==
  ASSUME NEW q \in Seq(Event), NEW e \in Event
  PROVE  SizeOf(Append(q, e)) = SizeOf(q) + Size(e) /\ SizeOf(q) \in Int
<1> DEFINE r == Append(q, e)
           m == Len(q)
<1>0. /\ r \in Seq(Event) /\ m \in Nat /\ Len(r) = m + 1 /\ r[m + 1] = e
      /\ \A n \in 1 .. m : r[n] = q[n]
  OBVIOUS
<1>1. PICK h : Running(h, q) /\ SizeOf(q) = h[m]
  BY SizeRuns
<1> HIDE DEF r
<1>2. PICK g : Running(g, r) /\ SizeOf(r) = g[Len(r)]
  BY <1>0, SizeRuns
<1>3. h[m] = g[m] /\ h[m] \in Int
  <2>1. m <= Len(q) /\ m <= Len(r) /\ \A n \in 1 .. m : q[n] = r[n]
    BY <1>0
  <2> HIDE DEF m
  <2> QED BY <1>0, <1>1, <1>2, <2>1, RunsAlike
<1>4. g[m + 1] = g[m] + Size(r[m + 1])
  <2>1. m + 1 \in 1 .. Len(r) /\ (m + 1) - 1 = m
    BY <1>0
  <2> QED BY <1>2, <2>1 DEF Running
<1>5. SizeOf(r) = SizeOf(q) + Size(e)
  BY <1>0, <1>1, <1>2, <1>3, <1>4
<1> QED BY <1>1, <1>3, <1>5 DEF r

LEMMA SizeOfNone == SizeOf(<<>>) = 0
<1>1. <<>> \in Seq(Event) /\ Len(<<>>) = 0
  OBVIOUS
<1>2. PICK h : Running(h, <<>>) /\ SizeOf(<<>>) = h[0]
  BY <1>1, SizeRuns
<1> QED BY <1>2 DEF Running

-----------------------------------------------------------------------------
(* The bytes of a queue.                                                   *)

QueueInv == \A k \in Turn : turn[k].bytes = SizeOf(turn[k].queued)

LEMMA CountedBy == TypeOK /\ QueueInv => QueueAccounted
BY DEF TypeOK, QueueInv, QueueAccounted, SizeOf

\* A merged update takes the place of the one it was merged with.
LEMMA EnqueueSize ==
  ASSUME NEW q \in Seq(Event), NEW e \in Event
  PROVE  LET w == Enqueue(q, e)
         IN  SizeOf(Append(w.queue, w.event)) = SizeOf(q) - w.freed + Size(w.event)
<1> DEFINE n == Len(q)
           merge == n > 0 /\ e.kind = "delta" /\ q[n].kind = "delta" /\ q[n].id = e.id
           w == Enqueue(q, e)
<1>0. w.queue \in Seq(Event) /\ w.event \in Event /\ w.freed \in Int
  BY EnqueueTyped
<1>1. SizeOf(Append(w.queue, w.event)) = SizeOf(w.queue) + Size(w.event) /\ SizeOf(w.queue) \in Int
  <2> HIDE DEF w
  <2> QED BY <1>0, SizeAppend
<1>2. Size(w.event) \in Int
  <2> HIDE DEF w
  <2> QED BY <1>0, SizeTyped
<1>3. SizeOf(w.queue) = SizeOf(q) - w.freed
  <2>1. CASE ~merge
    <3>1. w.queue = q /\ w.freed = 0
      BY <2>1 DEF Enqueue
    <3>2. SizeOf(q) \in Int
      BY <1>1, <3>1
    <3> QED BY <3>1, <3>2
  <2>2. CASE merge
    <3> DEFINE p == SubSeq(q, 1, n - 1)
    <3>1. p \in Seq(Event) /\ q[n] \in Event /\ q = Append(p, q[n])
      BY <2>2
    <3>2. w.queue = p /\ w.freed = Size(q[n])
      BY <2>2 DEF Enqueue
    <3>3. Size(q[n]) \in Int
      BY <3>1, SizeTyped
    <3> HIDE DEF p, w
    <3>4. SizeOf(Append(p, q[n])) = SizeOf(p) + Size(q[n]) /\ SizeOf(p) \in Int
      BY <3>1, SizeAppend
    <3>5. SizeOf(q) = SizeOf(p) + Size(q[n])
      BY <3>1, <3>4
    <3> DEFINE a == SizeOf(p)
               b == Size(q[n])
    <3>6. a \in Int /\ b \in Int /\ SizeOf(q) = a + b /\ SizeOf(w.queue) = a /\ w.freed = b
      BY <3>2, <3>3, <3>4, <3>5
    <3> HIDE DEF a, b
    <3> QED BY <3>6
  <2> QED BY <2>1, <2>2
<1> HIDE DEF w
<1>4. SizeOf(Append(w.queue, w.event)) = SizeOf(q) - w.freed + Size(w.event)
  BY <1>0, <1>1, <1>2, <1>3
<1> QED BY <1>4 DEF w

LEMMA CountOne ==
  ASSUME Typed, QueueInv, NEW k \in Turn, \A j \in Turn \ {k} : turn'[j] = turn[j],
         \/ turn'[k].bytes = SizeOf(turn'[k].queued)
         \/ turn'[k].bytes = turn[k].bytes /\ turn'[k].queued = turn[k].queued
  PROVE  QueueInv'
BY DEF QueueInv

LEMMA CountNew ==
  ASSUME NEW m
  PROVE  NewTurn(m).bytes = SizeOf(NewTurn(m).queued)
BY SizeOfNone DEF NewTurn

LEMMA CountForget ==
  ASSUME Typed, QueueInv, NEW k \in Turn, Forget(k)
  PROVE  QueueInv'
<1>1. turn'[k] = NewTurn("sentManual") /\ \A j \in Turn \ {k} : turn'[j] = turn[j]
  BY DEF Typed, TypeOK, Forget
<1> QED BY <1>1, CountOne, CountNew

LEMMA CountProcess ==
  ASSUME Typed, QueueInv, NEW k \in Turn, NEW e \in Event, Process(k, e)
  PROVE  QueueInv'
<1>1. Effect(k)
  BY ProcessEffect DEF Typed
<1>2. CASE k \in live'
  BY <1>1, <1>2, CountOne DEF Effect, SameControl
<1>3. CASE k \notin live' /\ turn' = turn
  BY <1>3 DEF QueueInv
<1>4. CASE Forget(k)
  BY <1>4, CountForget
<1> QED BY <1>2, <1>3, <1>4, ProcessForgets

LEMMA CountHold ==
  ASSUME Typed, QueueInv, NEW k \in Turn, NEW e \in Event, Hold(k, e)
  PROVE  QueueInv'
<1> DEFINE w == Enqueue(turn[k].queued, e)
           b == turn[k].bytes - w.freed + Size(w.event)
           q == Append(w.queue, w.event)
<1>1. CASE Reject
  BY <1>1 DEF Reject, QueueInv
<1>2. CASE turn' = [turn EXCEPT ![k].queued = q, ![k].bytes = b]
  <2>1. turn \in [Turn -> TurnRecord] /\ turn[k] \in TurnRecord /\ turn[k].queued \in Seq(Event)
    BY DEF Typed, TypeOK, TurnRecord
  <2>2. SizeOf(q) = b
    BY <2>1, EnqueueSize DEF QueueInv
  <2> HIDE DEF q, b
  <2>3. turn'[k].queued = q /\ turn'[k].bytes = b /\ \A j \in Turn \ {k} : turn'[j] = turn[j]
    BY <1>2, <2>1 DEF TurnRecord
  <2> QED BY <2>2, <2>3, CountOne
<1> QED BY <1>1, <1>2 DEF Hold

LEMMA CountLoop ==
  ASSUME Typed, QueueInv, Loop
  PROVE  QueueInv'
<1>1. CASE Upstream
  <2> DEFINE k == Head(inbox).key
             e == Head(inbox).event
  <2>1. inbox \in Seq([key : Turn, event : Event]) /\ inbox # <<>>
    BY <1>1 DEF Upstream, Typed, TypeOK
  <2>2. Head(inbox) \in [key : Turn, event : Event]
    BY <2>1, HeadTail
  <2>3. k \in Turn /\ e \in Event
    BY <2>2
  <2>4. Ignore \/ Hold(k, e) \/ Process(k, e)
    BY <1>1 DEF Upstream
  <2> HIDE DEF k, e
  <2>5. CASE Ignore
    BY <2>5 DEF Ignore, QueueInv
  <2> QED BY <2>3, <2>4, <2>5, CountHold, CountProcess
<1>2. CASE Replay
  <2>1. Head(batch) \in Event
    BY <1>2 DEF Replay, Typed, TypeOK, WellFormed
  <2>2. CASE cur \in Turn
    BY <1>2, <2>1, <2>2, CountProcess DEF Replay
  <2>3. CASE cur \notin Turn
    BY <1>2, <2>3 DEF Replay, Process, Ignore, QueueInv, Typed, TypeOK
  <2> QED BY <2>2, <2>3
<1>3. CASE DrainNext
  <2>1. PICK k \in Ready : turn' = [turn EXCEPT ![k] = Released(@)]
    BY <1>3 DEF DrainNext
  <2>2. k \in Turn /\ turn[k] \in TurnRecord /\ turn \in [Turn -> TurnRecord]
    BY DEF Ready, Typed, TypeOK
  <2>3. turn'[k].queued = <<>> /\ turn'[k].bytes = 0 /\ \A j \in Turn \ {k} : turn'[j] = turn[j]
    BY <2>1, <2>2 DEF Released, TurnRecord
  <2> QED BY <2>2, <2>3, CountOne, SizeOfNone
<1> QED BY <1>1, <1>2, <1>3 DEF Loop

LEMMA CountClient ==
  ASSUME Typed, OrderInv, QueueInv, Client
  PROVE  QueueInv'
<1>0. /\ turn \in [Turn -> TurnRecord] /\ \A k \in Turn : turn[k] \in TurnRecord
      /\ live \subseteq Turn
  BY DEF Typed, TypeOK
<1>1. CASE UNCHANGED turn
  BY <1>1 DEF QueueInv
<1>2. CASE AppendMore
  <2>1. active \in Turn
    BY <1>0, <1>2 DEF AppendMore
  <2>2. /\ turn'[active].queued = turn[active].queued /\ turn'[active].bytes = turn[active].bytes
        /\ \A j \in Turn \ {active} : turn'[j] = turn[j]
    BY <1>0, <1>2, <2>1 DEF AppendMore, TurnRecord
  <2> QED BY <2>1, <2>2, CountOne
<1>3. CASE AppendFirst
  <2> DEFINE k == turnOrder + 1
             r == [NewTurn(settings) EXCEPT !.samples = 1]
  <2>1. k \in Turn
    BY <1>3, BridgeAssumption, SMTT(30) DEF AppendFirst, Typed, TypeOK, Turn
  <2>2. r.bytes = SizeOf(r.queued)
    BY CountNew DEF NewTurn
  <2>3. UNCHANGED turn \/ turn' = [turn EXCEPT ![k] = r]
    BY <1>3 DEF AppendFirst
  <2>4. CASE turn' = [turn EXCEPT ![k] = r]
    <3> HIDE DEF k, r
    <3>1. turn'[k] = r /\ \A j \in Turn \ {k} : turn'[j] = turn[j]
      BY <1>0, <2>1, <2>4
    <3> QED BY <2>1, <2>2, <3>1, CountOne
  <2> QED BY <1>1, <2>3, <2>4
<1>4. CASE Commit
  <2>1. active \in Turn
    BY <1>0, <1>4 DEF Commit, Committable
  <2>2. /\ turn'[active].queued = turn[active].queued /\ turn'[active].bytes = turn[active].bytes
        /\ \A j \in Turn \ {active} : turn'[j] = turn[j]
    BY <1>0, <1>4, <2>1 DEF Commit, TurnRecord
  <2> QED BY <2>1, <2>2, CountOne
<1>5. CASE Clear
  <2>1. CASE active \in live /\ turn' = [turn EXCEPT ![active].cleared = TRUE, ![active].committed = TRUE]
    <3>1. active \in Turn
      BY <1>0, <2>1
    <3>2. /\ turn'[active].queued = turn[active].queued /\ turn'[active].bytes = turn[active].bytes
          /\ \A j \in Turn \ {active} : turn'[j] = turn[j]
      BY <1>0, <2>1, <3>1 DEF TurnRecord
    <3> QED BY <3>1, <3>2, CountOne
  <2>2. CASE active \in live /\ Forget(active)
    BY <1>0, <2>2, CountForget
  <2> QED BY <1>1, <1>5, <2>1, <2>2 DEF Clear
<1> QED BY <1>1, <1>2, <1>3, <1>4, <1>5 DEF Client, Refused, SessionUpdate

LEMMA CountOther ==
  ASSUME Disconnect \/ Terminated \/ (\E k \in Turn : Task(k)) \/ UNCHANGED vars
  PROVE  UNCHANGED turn
<1>1. ASSUME NEW k, Task(k) PROVE UNCHANGED turn
  BY <1>1 DEF Task, UpQwen, UpStage, UpText, UpFailed, UpSentence, UpFinished, UpErr, Forward
<1> QED BY <1>1 DEF Disconnect, Terminated, vars

LEMMA CountInit == Init => QueueInv
<1> SUFFICES ASSUME Init PROVE QueueInv
  OBVIOUS
<1>1. \A k \in Turn : turn[k] = NewTurn("sentManual")
  BY DEF Init
<1> QED BY <1>1, CountNew DEF QueueInv

LEMMA CountStep == IInv /\ QueueInv /\ [Next]_vars => QueueInv'
<1> SUFFICES ASSUME IInv, QueueInv, [Next]_vars PROVE QueueInv'
  OBVIOUS
<1>1. Typed /\ OrderInv
  BY DEF IInv, Typed
<1>2. UNCHANGED turn => QueueInv'
  BY DEF QueueInv
<1> QED BY <1>1, <1>2, CountLoop, CountClient, CountOther DEF Next

\* The bytes counted against the limit of a waiting turn (upstream()) are
\* those of the events in its queue, for queues of any length: an update that
\* was merged with the one before it gives back what that one had taken.
THEOREM QueueCounted == Spec => []QueueAccounted
<1>1. IInv /\ QueueInv => QueueAccounted
  BY CountedBy DEF IInv
<1> QED BY <1>1, Invariance, CountInit, CountStep, PTL DEF Spec

-----------------------------------------------------------------------------
(* What FlattenSeq joins together.                                         *)

\* The concatenations of the first parts of s, one after the other.
Joining(h, s) ==
  /\ h[0] = <<>>
  /\ \A n \in 1 .. Len(s) : h[n] = h[n - 1] \o s[n]

\* What FlattenSeq computes on the way.
Joined(h, s, m) == \A n \in 1 .. m : h[n] = IF n = 1 THEN s[n] ELSE h[n - 1] \o s[n]

LEMMA JoinedExist ==
  ASSUME NEW s, NEW m \in Nat
  PROVE  \E h : Joined(h, s, m)
<1> DEFINE T == {n \in Nat : \E h : Joined(h, s, n)}
<1>1. 0 \in T
  BY DEF Joined
<1>2. ASSUME NEW n \in T PROVE n + 1 \in T
  <2>1. PICK h : Joined(h, s, n)
    OBVIOUS
  <2>2. n \in Nat
    OBVIOUS
  <2> DEFINE g == [l \in 1 .. n + 1 |-> IF l = 1 THEN s[l] ELSE h[l - 1] \o s[l]]
  <2>3. ASSUME NEW l \in 1 .. n PROVE g[l] = h[l]
    <3>1. l \in 1 .. n + 1
      BY <2>2
    <3> QED BY <2>1, <3>1 DEF Joined
  <2>4. ASSUME NEW l \in 1 .. n + 1 PROVE g[l] = IF l = 1 THEN s[l] ELSE g[l - 1] \o s[l]
    <3>1. g[l] = IF l = 1 THEN s[l] ELSE h[l - 1] \o s[l]
      OBVIOUS
    <3>2. l = 1 \/ l - 1 \in 1 .. n
      BY <2>2
    <3> HIDE DEF g
    <3> QED BY <2>3, <3>1, <3>2
  <2> HIDE DEF g
  <2>5. Joined(g, s, n + 1)
    BY <2>4 DEF Joined
  <2> QED BY <2>2, <2>5
<1>3. T = Nat
  <2>1. T \in SUBSET Nat
    OBVIOUS
  <2> HIDE DEF T
  <2> QED BY <1>1, <1>2, <2>1, Inductive
<1>4. m \in T
  BY <1>3
<1> QED BY <1>4

LEMMA FlatJoins ==
  ASSUME NEW S, NEW s \in Seq(Seq(S))
  PROVE  \E h : Joining(h, s) /\ FlattenSeq(s) = h[Len(s)]
                /\ \A n \in 0 .. Len(s) : h[n] \in Seq(S)
<1> DEFINE Is(h) == h = [n \in 1 .. Len(s) |-> IF n = 1 THEN s[n] ELSE h[n - 1] \o s[n]]
           h == CHOOSE h : Is(h)
           k == [n \in 0 .. Len(s) |-> IF n = 0 THEN <<>> ELSE h[n]]
<1>0. Len(s) \in Nat /\ \A n \in 1 .. Len(s) : s[n] \in Seq(S)
  OBVIOUS
<1>1. PICK g : Joined(g, s, Len(s))
  BY <1>0, JoinedExist
<1> DEFINE r == [n \in 1 .. Len(s) |-> g[n]]
<1>2. Is(r)
  <2>1. \A n \in 1 .. Len(s) : r[n] = IF n = 1 THEN s[n] ELSE r[n - 1] \o s[n]
    <3> TAKE n \in 1 .. Len(s)
    <3>1. g[n] = IF n = 1 THEN s[n] ELSE g[n - 1] \o s[n]
      BY <1>1 DEF Joined
    <3>2. n = 1 \/ (n - 1 \in 1 .. Len(s) /\ r[n - 1] = g[n - 1])
      BY <1>0
    <3> QED BY <3>1, <3>2
  <2> QED BY <2>1
<1>3. Is(h)
  <2> HIDE DEF Is
  <2> QED BY <1>2
<1>4. Len(s) # 0 => FlattenSeq(s) = h[Len(s)]
  BY DEF FlattenSeq
<1>5. Len(s) = 0 => FlattenSeq(s) = <<>>
  BY DEF FlattenSeq
<1> HIDE DEF h
<1>6. \A n \in 1 .. Len(s) : h[n] = IF n = 1 THEN s[n] ELSE h[n - 1] \o s[n]
  BY <1>3
<1>7. k[0] = <<>> /\ \A n \in 1 .. Len(s) : k[n] = h[n]
  BY <1>0
<1> HIDE DEF k
<1> DEFINE T == {n \in Nat : n <= Len(s) => k[n] \in Seq(S)}
<1>8. \A n \in 1 .. Len(s) : k[n] = k[n - 1] \o s[n]
  <2> TAKE n \in 1 .. Len(s)
  <2>1. CASE n = 1
    <3>1. k[n] = s[n] /\ k[n - 1] = <<>> /\ s[n] \in Seq(S)
      BY <1>0, <1>6, <1>7, <2>1
    <3> QED BY <3>1
  <2>2. CASE n # 1
    <3>1. n - 1 \in 1 .. Len(s)
      BY <1>0, <2>2
    <3> QED BY <1>6, <1>7, <2>2, <3>1
  <2> QED BY <2>1, <2>2
<1>9. T = Nat
  <2>1. 0 \in T
    <3>1. <<>> \in Seq(S)
      OBVIOUS
    <3> QED BY <1>7, <3>1
  <2>2. ASSUME NEW n \in T PROVE n + 1 \in T
    <3> SUFFICES ASSUME n + 1 <= Len(s) PROVE k[n + 1] \in Seq(S)
      OBVIOUS
    <3>1. n \in Nat /\ n <= Len(s) /\ n + 1 \in 1 .. Len(s) /\ (n + 1) - 1 = n
      BY <1>0
    <3>2. k[n] \in Seq(S) /\ s[n + 1] \in Seq(S)
      BY <1>0, <3>1
    <3>3. k[n + 1] = k[n] \o s[n + 1]
      BY <1>8, <3>1
    <3> QED BY <3>2, <3>3
  <2>3. T \in SUBSET Nat
    OBVIOUS
  <2> HIDE DEF T
  <2> QED BY <2>1, <2>2, <2>3, Inductive
<1>10. \A n \in 0 .. Len(s) : k[n] \in Seq(S)
  BY <1>0, <1>9
<1>11. FlattenSeq(s) = k[Len(s)]
  BY <1>0, <1>4, <1>5, <1>7
<1> QED BY <1>7, <1>8, <1>10, <1>11 DEF Joining

\* The same up to part m, and nothing after it.
Leading(c, d, m) == m <= Len(c) /\ m <= Len(d) /\ \A n \in 1 .. m : c[n] = d[n]
Over(c, m) == m <= Len(c) /\ \A n \in m + 1 .. Len(c) : c[n] = <<>>

LEMMA JoinedAlike ==
  ASSUME NEW c, NEW d, NEW h, NEW g, NEW m \in Nat, Joining(h, c), Joining(g, d),
         Leading(c, d, m), Len(c) \in Nat, Len(d) \in Nat
  PROVE  h[m] = g[m]
<1> DEFINE T == {n \in Nat : n <= m => h[n] = g[n]}
<1>1. 0 \in T
  BY DEF Joining
<1>2. ASSUME NEW n \in T PROVE n + 1 \in T
  <2> SUFFICES ASSUME n + 1 <= m PROVE h[n + 1] = g[n + 1]
    OBVIOUS
  <2>1. /\ n \in Nat /\ h[n] = g[n] /\ (n + 1) - 1 = n /\ n + 1 \in 1 .. m
        /\ n + 1 \in 1 .. Len(c) /\ n + 1 \in 1 .. Len(d) /\ c[n + 1] = d[n + 1]
    BY DEF Leading
  <2>2. h[n + 1] = h[n] \o c[n + 1] /\ g[n + 1] = g[n] \o d[n + 1]
    BY <2>1 DEF Joining
  <2> QED BY <2>1, <2>2
<1>3. T = Nat
  <2>1. T \in SUBSET Nat
    OBVIOUS
  <2> HIDE DEF T
  <2> QED BY <1>1, <1>2, <2>1, Inductive
<1> QED BY <1>3

LEMMA JoinedSilent ==
  ASSUME NEW c, NEW h, NEW m \in Nat, Joining(h, c), Over(c, m), Len(c) \in Nat,
         h[m] \in Text
  PROVE  h[Len(c)] = h[m]
<1> DEFINE T == {n \in Nat : m + n <= Len(c) => h[m + n] = h[m]}
<1>1. 0 \in T
  OBVIOUS
<1>2. ASSUME NEW n \in T PROVE n + 1 \in T
  <2> SUFFICES ASSUME m + (n + 1) <= Len(c) PROVE h[m + (n + 1)] = h[m]
    OBVIOUS
  <2>1. /\ n \in Nat /\ h[m + n] = h[m] /\ (m + (n + 1)) - 1 = m + n
        /\ m + (n + 1) \in 1 .. Len(c) /\ c[m + (n + 1)] = <<>>
    BY DEF Over
  <2>2. h[m + (n + 1)] = h[m + n] \o c[m + (n + 1)]
    BY <2>1 DEF Joining
  <2>3. h[m] \o <<>> = h[m]
    BY ConcatEmptySeq DEF Text
  <2> QED BY <2>1, <2>2, <2>3
<1>3. T = Nat
  <2>1. T \in SUBSET Nat
    OBVIOUS
  <2> HIDE DEF T
  <2> QED BY <1>1, <1>2, <2>1, Inductive
<1>4. \A n \in Nat : m + n <= Len(c) => h[m + n] = h[m]
  BY <1>3
<1>5. \E n \in Nat : m + n = Len(c)
  <2>1. Len(c) - m \in Nat /\ m + (Len(c) - m) = Len(c)
    BY DEF Over
  <2> QED BY <2>1
<1>6. PICK n \in Nat : m + n = Len(c)
  BY <1>5
<1>7. m + n <= Len(c)
  BY <1>6
<1> QED BY <1>4, <1>6, <1>7

LEMMA FlatTyped ==
  ASSUME NEW c \in Seq(Text)
  PROVE  FlattenSeq(c) \in Text
<1>1. Len(c) \in 0 .. Len(c)
  OBVIOUS
<1> QED BY <1>1, FlatJoins DEF Text

LEMMA FlatSilent ==
  ASSUME NEW c \in Seq(Text), \A n \in 1 .. Len(c) : c[n] = <<>>
  PROVE  FlattenSeq(c) = <<>>
<1>0. Len(c) \in Nat
  OBVIOUS
<1>1. PICK h : Joining(h, c) /\ FlattenSeq(c) = h[Len(c)]
  BY FlatJoins DEF Text
<1>2. h[0] = <<>> /\ <<>> \in Text
  BY <1>1 DEF Joining, Text
<1>3. 0 \in Nat /\ Over(c, 0)
  BY <1>0 DEF Over
<1> QED BY <1>0, <1>1, <1>2, <1>3, JoinedSilent

LEMMA FlatAppend ==
  ASSUME NEW c \in Seq(Text), NEW d \in Seq(Text), NEW x, Len(d) = Len(c) + 1,
         \A n \in 1 .. Len(c) : d[n] = c[n], d[Len(d)] = x
  PROVE  FlattenSeq(d) = FlattenSeq(c) \o x
<1>0. Len(c) \in Nat /\ Len(d) \in 1 .. Len(d) /\ Len(d) \in Nat /\ Len(d) - 1 = Len(c) /\ Len(c) <= Len(d)
  OBVIOUS
<1>1. PICK h : Joining(h, c) /\ FlattenSeq(c) = h[Len(c)]
  BY FlatJoins DEF Text
<1>2. PICK g : Joining(g, d) /\ FlattenSeq(d) = g[Len(d)]
  BY FlatJoins DEF Text
<1>3. h[Len(c)] = g[Len(c)]
  <2>1. Leading(c, d, Len(c))
    BY <1>0 DEF Leading
  <2> QED BY <1>0, <1>1, <1>2, <2>1, JoinedAlike
<1>4. g[Len(d)] = g[Len(c)] \o x
  BY <1>0, <1>2 DEF Joining
<1> QED BY <1>1, <1>2, <1>3, <1>4

LEMMA FlatSet ==
  ASSUME NEW c \in Seq(Text), NEW d \in Seq(Text), NEW p \in 1 .. Len(c), NEW x \in Text,
         Len(d) = Len(c), c[p] = <<>>, d[p] = x,
         \A n \in 1 .. Len(c) : n # p => d[n] = c[n],
         \A n \in p + 1 .. Len(c) : c[n] = <<>>
  PROVE  FlattenSeq(d) = FlattenSeq(c) \o x
<1>0. /\ Len(c) \in Nat /\ Len(d) \in Nat /\ p \in Nat /\ p - 1 \in Nat /\ p - 1 <= Len(c) /\ p <= Len(c)
      /\ p - 1 \in 0 .. Len(c) /\ p \in 0 .. Len(c)
  OBVIOUS
<1>1. PICK h : Joining(h, c) /\ FlattenSeq(c) = h[Len(c)] /\ \A n \in 0 .. Len(c) : h[n] \in Seq(Nat)
  BY FlatJoins DEF Text
<1>2. PICK g : Joining(g, d) /\ FlattenSeq(d) = g[Len(d)] /\ \A n \in 0 .. Len(d) : g[n] \in Seq(Nat)
  BY FlatJoins DEF Text
<1>3. h[p - 1] = g[p - 1]
  <2>1. Leading(c, d, p - 1)
    BY <1>0 DEF Leading
  <2> QED BY <1>0, <1>1, <1>2, <2>1, JoinedAlike
<1>4. h[p] = h[p - 1] \o <<>> /\ g[p] = g[p - 1] \o x
  BY <1>0, <1>1, <1>2 DEF Joining
<1>5. h[p - 1] \o <<>> = h[p - 1]
  BY <1>0, <1>1, ConcatEmptySeq
<1>6. h[p] \in Text /\ g[p] \in Text
  BY <1>0, <1>1, <1>2 DEF Text
<1>7. h[Len(c)] = h[p]
  <2>1. Over(c, p)
    BY <1>0 DEF Over
  <2> QED BY <1>0, <1>1, <1>6, <2>1, JoinedSilent
<1>8. g[Len(d)] = g[p]
  <2>1. Over(d, p)
    BY <1>0 DEF Over
  <2> QED BY <1>0, <1>2, <1>6, <2>1, JoinedSilent
<1> QED BY <1>1, <1>2, <1>3, <1>4, <1>5, <1>7, <1>8

LEMMA CatAssociative ==
  ASSUME NEW a, NEW b, NEW c, a \in Text, b \in Text, c \in Text
  PROVE  Cat(Cat(a, b), c) = Cat(a, Cat(b, c))
BY ConcatAssociative DEF Text, Cat

LEMMA FlatFirst ==
  ASSUME NEW c \in Seq(Text), NEW d \in Seq(Text), NEW x \in Text, Len(c) = Len(d) + 1,
         c[1] = x, \A n \in 1 .. Len(d) : d[n] = c[n + 1]
  PROVE  FlattenSeq(c) = x \o FlattenSeq(d)
<1>0. /\ Len(c) \in Nat /\ Len(d) \in Nat /\ 1 \in 1 .. Len(c)
      /\ \A n \in 1 .. Len(d) : d[n] \in Text
  OBVIOUS
<1>1. PICK h : Joining(h, c) /\ FlattenSeq(c) = h[Len(c)]
  BY FlatJoins DEF Text
<1>2. PICK g : Joining(g, d) /\ FlattenSeq(d) = g[Len(d)] /\ \A n \in 0 .. Len(d) : g[n] \in Seq(Nat)
  BY FlatJoins DEF Text
<1> DEFINE T == {n \in Nat : n <= Len(d) => h[n + 1] = x \o g[n]}
<1>3. 0 \in T
  <2>1. h[1] = <<>> \o x /\ g[0] = <<>>
    <3>1. 1 - 1 = 0
      OBVIOUS
    <3> QED BY <1>0, <1>1, <1>2, <3>1 DEF Joining
  <2>2. <<>> \o x = x /\ x \o <<>> = x
    BY ConcatEmptySeq DEF Text
  <2>3. h[1] = x \o g[0]
    BY <2>1, <2>2, Zenon
  <2>4. 0 + 1 = 1
    OBVIOUS
  <2> QED BY <2>3, <2>4
<1>4. ASSUME NEW n \in T PROVE n + 1 \in T
  <2> SUFFICES ASSUME n + 1 <= Len(d) PROVE h[(n + 1) + 1] = x \o g[n + 1]
    OBVIOUS
  <2>1. /\ n \in Nat /\ n + 1 \in 1 .. Len(d) /\ (n + 1) + 1 \in 1 .. Len(c)
        /\ (n + 1) - 1 = n /\ ((n + 1) + 1) - 1 = n + 1 /\ h[n + 1] = x \o g[n] /\ n \in 0 .. Len(d)
    BY <1>0
  <2>2. h[(n + 1) + 1] = h[n + 1] \o c[(n + 1) + 1]
    BY <1>1, <2>1 DEF Joining
  <2>3. g[n + 1] = g[n] \o d[n + 1]
    BY <1>2, <2>1 DEF Joining
  <2>4. c[(n + 1) + 1] = d[n + 1] /\ d[n + 1] \in Text /\ g[n] \in Text
    BY <1>0, <1>2, <2>1 DEF Text
  <2>5. (x \o g[n]) \o d[n + 1] = x \o (g[n] \o d[n + 1])
    <3>1. Cat(Cat(x, g[n]), d[n + 1]) = Cat(x, Cat(g[n], d[n + 1]))
      BY <2>4, CatAssociative
    <3> QED BY <3>1, Zenon DEF Cat
  <2> QED BY <2>1, <2>2, <2>3, <2>4, <2>5
<1>5. T = Nat
  <2>1. T \in SUBSET Nat
    OBVIOUS
  <2> HIDE DEF T
  <2> QED BY <1>3, <1>4, <2>1, Inductive
<1>6. h[Len(d) + 1] = x \o g[Len(d)]
  BY <1>0, <1>5
<1> QED BY <1>0, <1>1, <1>2, <1>6

-----------------------------------------------------------------------------
(* The words on the way to a turn.                                         *)

LEMMA CatEmpty ==
  ASSUME NEW x, x \in Text
  PROVE  Cat(x, <<>>) = x /\ Cat(<<>>, x) = x
BY ConcatEmptySeq DEF Cat, Text

LEMMA CatTyped ==
  ASSUME NEW x, NEW y, x \in Text, y \in Text
  PROVE  Cat(x, y) \in Text
BY TextConcat DEF Cat

LEMMA SpeechTyped ==
  /\ \A e \in Event : Speech(e) \in Text
  /\ \A k, x : x \in Entry => SpeechTo(k, x) \in Text
<1>1. ASSUME NEW e \in Event PROVE Speech(e) \in Text
  BY EventTypes, EmptyFirst DEF Speech
<1>2. ASSUME NEW k, NEW x, x \in Entry PROVE SpeechTo(k, x) \in Text
  <2>1. x.event \in Event /\ <<>> \in Text
    BY <1>2 DEF Entry, Text
  <2> QED BY <1>1, <2>1 DEF SpeechTo
<1> QED BY <1>1, <1>2

LEMMA SpeechSums ==
  ASSUME NEW q \in Seq(Event)
  PROVE  [n \in 1 .. Len(q) |-> Speech(q[n])] \in Seq(Text) /\ SpeechIn(q) \in Text
<1>1. \A n \in 1 .. Len(q) : Speech(q[n]) \in Text
  BY SpeechTyped
<1>2. [n \in 1 .. Len(q) |-> Speech(q[n])] \in Seq(Text)
  BY <1>1
<1> QED BY <1>2, FlatTyped DEF SpeechIn

LEMMA ServiceSums ==
  ASSUME NEW b \in Seq(Entry), NEW k
  PROVE  [n \in 1 .. Len(b) |-> SpeechTo(k, b[n])] \in Seq(Text) /\ SpeechOf(k, b) \in Text
<1>1. \A n \in 1 .. Len(b) : SpeechTo(k, b[n]) \in Text
  BY SpeechTyped
<1>2. [n \in 1 .. Len(b) |-> SpeechTo(k, b[n])] \in Seq(Text)
  BY <1>1
<1> QED BY <1>2, FlatTyped DEF SpeechOf

LEMMA SpeechAppend ==
  ASSUME NEW q \in Seq(Event), NEW e \in Event
  PROVE  SpeechIn(Append(q, e)) = Cat(SpeechIn(q), Speech(e))
<1> DEFINE r == Append(q, e)
           c == [n \in 1 .. Len(q) |-> Speech(q[n])]
           d == [n \in 1 .. Len(r) |-> Speech(r[n])]
<1>1. r \in Seq(Event) /\ Len(r) = Len(q) + 1 /\ Len(q) \in Nat
      /\ r[Len(r)] = e /\ \A n \in 1 .. Len(q) : r[n] = q[n]
  OBVIOUS
<1> HIDE DEF r
<1>2. c \in Seq(Text) /\ d \in Seq(Text)
  BY <1>1, SpeechSums
<1>3. Len(c) = Len(q) /\ Len(d) = Len(r)
  BY <1>1
<1>4. \A n \in 1 .. Len(c) : d[n] = c[n]
  BY <1>1, <1>3
<1>5. d[Len(d)] = Speech(e)
  BY <1>1, <1>3
<1> HIDE DEF c, d
<1>6. FlattenSeq(d) = FlattenSeq(c) \o Speech(e)
  BY <1>1, <1>2, <1>3, <1>4, <1>5, FlatAppend
<1> QED BY <1>6, Zenon DEF SpeechIn, Cat, c, d, r

LEMMA SpeechArrives ==
  ASSUME NEW b \in Seq(Entry), NEW x \in Entry, NEW k
  PROVE  SpeechOf(k, Append(b, x)) = Cat(SpeechOf(k, b), SpeechTo(k, x))
<1> DEFINE r == Append(b, x)
           c == [n \in 1 .. Len(b) |-> SpeechTo(k, b[n])]
           d == [n \in 1 .. Len(r) |-> SpeechTo(k, r[n])]
<1>1. r \in Seq(Entry) /\ Len(r) = Len(b) + 1 /\ Len(b) \in Nat
      /\ r[Len(r)] = x /\ \A n \in 1 .. Len(b) : r[n] = b[n]
  OBVIOUS
<1> HIDE DEF r
<1>2. c \in Seq(Text) /\ d \in Seq(Text)
  BY <1>1, ServiceSums
<1>3. Len(c) = Len(b) /\ Len(d) = Len(r)
  BY <1>1
<1>4. \A n \in 1 .. Len(c) : d[n] = c[n]
  BY <1>1, <1>3
<1>5. d[Len(d)] = SpeechTo(k, x)
  BY <1>1, <1>3
<1> HIDE DEF c, d
<1>6. FlattenSeq(d) = FlattenSeq(c) \o SpeechTo(k, x)
  BY <1>1, <1>2, <1>3, <1>4, <1>5, FlatAppend
<1> QED BY <1>6, Zenon DEF SpeechOf, Cat, c, d, r

LEMMA SpeechTaken ==
  ASSUME NEW q \in Seq(Event), q # <<>>
  PROVE  SpeechIn(q) = Cat(Speech(Head(q)), SpeechIn(Tail(q)))
<1> DEFINE r == Tail(q)
           x == Speech(Head(q))
           c == [n \in 1 .. Len(q) |-> Speech(q[n])]
           d == [n \in 1 .. Len(r) |-> Speech(r[n])]
<1>1. /\ r \in Seq(Event) /\ Len(q) = Len(r) + 1 /\ Len(r) \in Nat /\ Head(q) = q[1] /\ q[1] \in Event
      /\ \A n \in 1 .. Len(r) : r[n] = q[n + 1] /\ n + 1 \in 1 .. Len(q)
  <2>1. r \in Seq(Event) /\ Len(r) = Len(q) - 1
    BY HeadTail
  <2> QED BY <2>1, TailAt
<1>2. x \in Text
  BY <1>1, SpeechTyped
<1> HIDE DEF r
<1>3. c \in Seq(Text) /\ d \in Seq(Text)
  BY <1>1, SpeechSums
<1>4. Len(c) = Len(q) /\ Len(d) = Len(r)
  BY <1>1
<1>5. \A n \in 1 .. Len(d) : d[n] = c[n + 1]
  BY <1>1, <1>4
<1>6. c[1] = x
  BY <1>1
<1> HIDE DEF c, d, x
<1>7. FlattenSeq(c) = x \o FlattenSeq(d)
  <2>1. Len(c) = Len(d) + 1
    BY <1>1, <1>4
  <2> QED BY <1>2, <1>3, <1>5, <1>6, <2>1, FlatFirst
<1> QED BY <1>7, Zenon DEF SpeechIn, Cat, c, d, r, x

LEMMA SpeechServed ==
  ASSUME NEW b \in Seq(Entry), b # <<>>, NEW k
  PROVE  SpeechOf(k, b) = Cat(SpeechTo(k, Head(b)), SpeechOf(k, Tail(b)))
<1> DEFINE r == Tail(b)
           x == SpeechTo(k, Head(b))
           c == [n \in 1 .. Len(b) |-> SpeechTo(k, b[n])]
           d == [n \in 1 .. Len(r) |-> SpeechTo(k, r[n])]
<1>1. /\ r \in Seq(Entry) /\ Len(b) = Len(r) + 1 /\ Len(r) \in Nat /\ Head(b) = b[1] /\ b[1] \in Entry
      /\ \A n \in 1 .. Len(r) : r[n] = b[n + 1] /\ n + 1 \in 1 .. Len(b)
  <2>1. r \in Seq(Entry) /\ Len(r) = Len(b) - 1
    BY HeadTail
  <2> QED BY <2>1, TailAt
<1>2. x \in Text
  BY <1>1, SpeechTyped
<1> HIDE DEF r
<1>3. c \in Seq(Text) /\ d \in Seq(Text)
  BY <1>1, ServiceSums
<1>4. Len(c) = Len(b) /\ Len(d) = Len(r)
  BY <1>1
<1>5. \A n \in 1 .. Len(d) : d[n] = c[n + 1]
  BY <1>1, <1>4
<1>6. c[1] = x
  BY <1>1
<1> HIDE DEF c, d, x
<1>7. FlattenSeq(c) = x \o FlattenSeq(d)
  <2>1. Len(c) = Len(d) + 1
    BY <1>1, <1>4
  <2> QED BY <1>2, <1>3, <1>5, <1>6, <2>1, FlatFirst
<1> QED BY <1>7, Zenon DEF SpeechOf, Cat, c, d, r, x

\* A turn without pending events has no words coming.
LEMMA NothingComing ==
  ASSUME NEW k, NEW a, NEW b, a \in Seq(Event), b \in Seq(Entry), PendingIn(k, a, b) = {}
  PROVE  SpeechIn(a) = <<>> /\ SpeechOf(k, b) = <<>>
<1> DEFINE c == [n \in 1 .. Len(a) |-> Speech(a[n])]
           d == [n \in 1 .. Len(b) |-> SpeechTo(k, b[n])]
<1>1. DOMAIN a = 1 .. Len(a) /\ DOMAIN b = 1 .. Len(b) /\ Len(a) \in Nat /\ Len(b) \in Nat
  OBVIOUS
<1>2. \A n \in 1 .. Len(a) : FALSE
  BY <1>1 DEF PendingIn
<1>3. \A n \in 1 .. Len(b) : b[n].key # k
  BY <1>1 DEF PendingIn
<1>4. c \in Seq(Text) /\ d \in Seq(Text)
  BY SpeechSums, ServiceSums
<1>5. Len(c) = Len(a) /\ Len(d) = Len(b)
  BY <1>1
<1>6. \A n \in 1 .. Len(c) : c[n] = <<>>
  BY <1>2, <1>5
<1>7. \A n \in 1 .. Len(d) : d[n] = <<>>
  BY <1>3, <1>5 DEF SpeechTo
<1> HIDE DEF c, d
<1>8. FlattenSeq(c) = <<>> /\ FlattenSeq(d) = <<>>
  BY <1>4, <1>6, <1>7, FlatSilent
<1> QED BY <1>8, Zenon DEF SpeechIn, SpeechOf, c, d

LEMMA ComingTyped ==
  ASSUME Typed, NEW k \in Turn
  PROVE  /\ Ahead(k) \in Seq(Event) /\ inbox \in Seq(Entry)
         /\ SpeechIn(Ahead(k)) \in Text /\ SpeechOf(k, inbox) \in Text /\ Coming(k) \in Text
<1>1. Ahead(k) \in Seq(Event) /\ inbox \in Seq(Entry)
  BY AheadTyped DEF Typed, TypeOK, Entry
<1>2. SpeechIn(Ahead(k)) \in Text
  BY <1>1, SpeechSums
<1>3. SpeechOf(k, inbox) \in Text
  BY <1>1, ServiceSums
<1> QED BY <1>1, <1>2, <1>3, CatTyped DEF Coming

LEMMA NoSpeech == SpeechIn(<<>>) = <<>>
<1> DEFINE q == <<>>
           b == <<>>
<1>1. q \in Seq(Event) /\ b \in Seq(Entry) /\ DOMAIN q = {}
  OBVIOUS
<1>2. PendingIn(0, q, b) = {}
  BY <1>1 DEF PendingIn
<1> HIDE DEF q, b
<1>3. SpeechIn(q) = <<>>
  BY <1>1, <1>2, NothingComing
<1> QED BY <1>3 DEF q

LEMMA SameComing ==
  ASSUME NEW k, Ahead(k)' = Ahead(k), inbox' = inbox
  PROVE  Coming(k)' = Coming(k)
BY DEF Coming

\* A merged update has no words, nor had the one that it replaces.
LEMMA EnqueueSpeech ==
  ASSUME NEW q \in Seq(Event), NEW e \in Event
  PROVE  LET w == Enqueue(q, e)
         IN  SpeechIn(Append(w.queue, w.event)) = Cat(SpeechIn(q), Speech(e))
<1> DEFINE n == Len(q)
           merge == n > 0 /\ e.kind = "delta" /\ q[n].kind = "delta" /\ q[n].id = e.id
           w == Enqueue(q, e)
<1>0. w.queue \in Seq(Event) /\ w.event \in Event
  BY EnqueueTyped
<1>1. CASE ~merge
  <2>1. w.queue = q /\ w.event = e
    BY <1>1 DEF Enqueue
  <2> QED BY <2>1, SpeechAppend
<1>2. CASE merge
  <2> DEFINE p == SubSeq(q, 1, n - 1)
  <2>1. p \in Seq(Event) /\ q[n] \in Event /\ q = Append(p, q[n])
    BY <1>2
  <2>2. w.queue = p /\ w.event = [e EXCEPT !.delta = q[n].delta \o @]
    BY <1>2 DEF Enqueue
  <2>3. w.event.kind = e.kind
    BY <2>2 DEF Event
  <2>4. Speech(w.event) = <<>> /\ Speech(e) = <<>> /\ Speech(q[n]) = <<>>
    BY <1>2, <2>3 DEF Speech
  <2> HIDE DEF w, p
  <2>5. SpeechIn(Append(w.queue, w.event)) = Cat(SpeechIn(w.queue), Speech(w.event))
    BY <1>0, SpeechAppend
  <2>6. SpeechIn(Append(p, q[n])) = Cat(SpeechIn(p), Speech(q[n]))
    BY <2>1, SpeechAppend
  <2>7. SpeechIn(Append(w.queue, w.event)) = SpeechIn(q)
    BY <2>1, <2>2, <2>4, <2>5, <2>6
  <2>8. Cat(SpeechIn(q), <<>>) = SpeechIn(q)
    BY SpeechSums, CatEmpty
  <2> QED BY <2>4, <2>7, <2>8 DEF w
<1> QED BY <1>1, <1>2

LEMMA UpstreamComes ==
  ASSUME Typed, Typed', OrderInv, ReplayInv, Upstream, phase' = "running",
         NEW k, k = Head(inbox).key, NEW e, e = Head(inbox).event
  PROVE  /\ \A j \in Turn \ {k} : Coming(j)' = Coming(j)
         /\ k \in live /\ Blocked(k) => Coming(k)' = Coming(k)
         /\ k \in live /\ ~Blocked(k) => Coming(k) = Cat(Speech(e), Coming(k)')
<1>0. /\ inbox \in Seq(Entry) /\ inbox # <<>> /\ inbox' = Tail(inbox)
      /\ batch' = batch /\ cur' = cur
  BY DEF Upstream, Typed, TypeOK, Entry
<1>1. k \in Turn /\ e \in Event /\ \A j \in Turn \ {k} : turn'[j] = turn[j]
  BY UpstreamMoves
<1>2. batch = <<>> /\ cur = 0 /\ cur' = 0 /\ 0 \notin Turn /\ \A j \in Turn : Ahead(j) = turn[j].queued
  BY <1>0, NoBatch, ConstTypes DEF Upstream
<1>3. \A j \in Turn : Ahead(j)' = turn'[j].queued
  BY <1>2 DEF Ahead
<1>4. SpeechTo(k, Head(inbox)) = Speech(e)
  BY DEF SpeechTo
<1>5. \A j : SpeechOf(j, inbox) = Cat(SpeechTo(j, Head(inbox)), SpeechOf(j, inbox'))
  BY <1>0, SpeechServed
<1>6. ASSUME NEW j \in Turn \ {k} PROVE Coming(j)' = Coming(j)
  <2>1. Ahead(j)' = Ahead(j)
    BY <1>1, <1>2, <1>3
  <2>2. SpeechTo(j, Head(inbox)) = <<>>
    BY DEF SpeechTo
  <2>3. SpeechOf(j, inbox') \in Text
    BY ServiceSums DEF Typed, TypeOK, Entry
  <2>4. SpeechOf(j, inbox) = SpeechOf(j, inbox')
    BY <1>5, <2>2, <2>3, CatEmpty
  <2> QED BY <2>1, <2>4 DEF Coming
<1>7. ASSUME k \in live, Blocked(k) PROVE Coming(k)' = Coming(k)
  <2>1. Hold(k, e)
    BY <1>7 DEF Upstream
  <2> DEFINE w == Enqueue(turn[k].queued, e)
  <2>2. turn[k].queued \in Seq(Event)
    BY <1>1 DEF Typed, TypeOK, TurnRecord
  <2>3. turn'[k].queued = Append(w.queue, w.event)
    <3>1. ~Reject
      BY DEF Reject, End
    <3>2. \E b : turn' = [turn EXCEPT ![k].queued = Append(w.queue, w.event), ![k].bytes = b]
      BY <2>1, <3>1 DEF Hold
    <3>3. turn[k] \in TurnRecord /\ turn \in [Turn -> TurnRecord]
      BY <1>1 DEF Typed, TypeOK
    <3> HIDE DEF w
    <3> QED BY <1>1, <3>2, <3>3, SMTT(30) DEF TurnRecord
  <2>4. SpeechIn(Append(w.queue, w.event)) = Cat(SpeechIn(turn[k].queued), Speech(e))
    BY <1>1, <2>2, EnqueueSpeech
  <2> HIDE DEF w
  <2>5. Ahead(k) = turn[k].queued /\ Ahead(k)' = Append(w.queue, w.event)
    BY <1>1, <1>2, <1>3, <2>3
  <2>6. SpeechIn(Ahead(k)') = Cat(SpeechIn(Ahead(k)), Speech(e))
    BY <2>4, <2>5
  <2> DEFINE a == SpeechIn(Ahead(k))
             x == Speech(e)
             b == SpeechOf(k, inbox')
  <2>7. a \in Text /\ x \in Text /\ b \in Text
    <3>1. a \in Text
      BY <1>1, ComingTyped
    <3>2. x \in Text
      BY <1>1, SpeechTyped
    <3>3. b \in Text
      BY ServiceSums DEF Typed, TypeOK, Entry
    <3> QED BY <3>1, <3>2, <3>3
  <2>8. Coming(k) = Cat(a, Cat(x, b))
    BY <1>4, <1>5 DEF Coming
  <2>9. Coming(k)' = Cat(Cat(a, x), b)
    BY <2>6 DEF Coming
  <2> HIDE DEF a, x, b
  <2> QED BY <2>7, <2>8, <2>9, CatAssociative
<1>8. ASSUME k \in live, ~Blocked(k) PROVE Coming(k) = Cat(Speech(e), Coming(k)')
  <2>1. Process(k, e)
    BY <1>8 DEF Upstream
  <2>2. turn[k].queued = <<>> /\ turn'[k].queued = <<>>
    BY <1>1, <1>8, <2>1, NothingWaits, ProcessQueue DEF Upstream
  <2>3. Ahead(k) = <<>> /\ Ahead(k)' = <<>>
    BY <1>1, <1>2, <1>3, <2>2
  <2>4. SpeechIn(<<>>) = <<>>
    BY NoSpeech
  <2>5. SpeechOf(k, inbox) \in Text /\ SpeechOf(k, inbox') \in Text
    BY ServiceSums DEF Typed, TypeOK, Entry
  <2>6. Coming(k) = SpeechOf(k, inbox) /\ Coming(k)' = SpeechOf(k, inbox')
    BY <2>3, <2>4, <2>5, CatEmpty DEF Coming
  <2> QED BY <1>4, <1>5, <2>6
<1> QED BY <1>6, <1>7, <1>8

LEMMA ReplayComes ==
  ASSUME Typed, Typed', ReplayInv, Replay, NEW k, k = cur, NEW e, e = Head(batch)
  PROVE  /\ Coming(k) = Cat(Speech(e), Coming(k)')
         /\ \A j \in Turn \ {k} : Coming(j)' = Coming(j)
<1>1. /\ k \in Turn /\ batch \in Seq(Event) /\ batch # <<>> /\ turn[k].queued = <<>>
      /\ Process(k, e) /\ batch' = Tail(batch) /\ inbox' = inbox
      /\ cur' = IF batch' = <<>> THEN 0 ELSE k
  BY ConstTypes DEF Replay, Typed, TypeOK, WellFormed, ReplayInv, Turn
<1>2. e \in Event
  BY <1>1, HeadTail
<1>3. Effect(k) /\ turn'[k].queued = <<>>
  BY <1>1, <1>2, ProcessEffect, ProcessQueue DEF Typed
<1>4. Ahead(k) = batch
  BY DEF Ahead
<1>5. Ahead(k)' = Tail(batch)
  BY <1>1, <1>3, ConstTypes DEF Ahead
<1>6. SpeechIn(Ahead(k)) = Cat(Speech(e), SpeechIn(Ahead(k)'))
  BY <1>1, <1>4, <1>5, SpeechTaken
<1> DEFINE x == Speech(e)
           a == SpeechIn(Ahead(k)')
           b == SpeechOf(k, inbox)
<1>7. x \in Text /\ a \in Text /\ b \in Text
  <2>1. b \in Text
    BY <1>1, ComingTyped
  <2>2. x \in Text
    BY <1>2, SpeechTyped
  <2>3. Tail(batch) \in Seq(Event)
    BY <1>1, HeadTail
  <2>4. a \in Text
    BY <1>5, <2>3, SpeechSums
  <2> QED BY <2>1, <2>2, <2>4
<1>8. Coming(k) = Cat(Cat(x, a), b) /\ Coming(k)' = Cat(a, b)
  BY <1>1, <1>6 DEF Coming
<1>9. Coming(k) = Cat(x, Coming(k)')
  <2> HIDE DEF x, a, b
  <2> QED BY <1>7, <1>8, CatAssociative
<1>10. ASSUME NEW j \in Turn \ {k} PROVE Coming(j)' = Coming(j)
  <2>1. turn'[j] = turn[j]
    BY <1>3 DEF Effect
  <2>2. Ahead(j)' = Ahead(j)
    BY <1>1, <2>1, ConstTypes DEF Ahead
  <2> QED BY <1>1, <2>2, SameComing
<1> QED BY <1>9, <1>10

LEMMA DrainComes ==
  ASSUME Typed, ReplayInv, DrainNext
  PROVE  \A j \in Turn : Coming(j)' = Coming(j)
<1>1. PICK k \in Ready : /\ batch' = turn[k].queued
                         /\ cur' = IF batch' = <<>> THEN 0 ELSE k
                         /\ turn' = [turn EXCEPT ![k] = Released(@)]
  BY DEF DrainNext
<1>2. k \in Turn /\ 0 \notin Turn
  BY ConstTypes DEF Ready, Typed, TypeOK
<1>3. \A j \in Turn : Ahead(j) = turn[j].queued
  BY NoBatch DEF DrainNext
<1>4. turn'[k].queued = <<>> /\ \A j \in Turn \ {k} : turn'[j] = turn[j]
  BY <1>1, <1>2, ReleasedKept
<1>5. ASSUME NEW j \in Turn PROVE Ahead(j)' = Ahead(j)
  BY <1>1, <1>2, <1>3, <1>4 DEF Ahead
<1>6. inbox' = inbox
  BY DEF DrainNext
<1> QED BY <1>5, <1>6, SameComing

LEMMA ForwardComes ==
  ASSUME Typed, NEW k \in Turn, NEW e \in Event, Forward(k, e)
  PROVE  /\ Coming(k)' = Cat(Coming(k), Speech(e))
         /\ \A j \in Turn \ {k} : Coming(j)' = Coming(j)
<1> DEFINE x == [key |-> k, event |-> e]
<1>1. inbox \in Seq(Entry) /\ inbox' = Append(inbox, x) /\ x \in Entry
  BY DEF Forward, Typed, TypeOK, Entry
<1>2. \A j \in Turn : Ahead(j)' = Ahead(j)
  BY DEF Forward, loop, Ahead
<1>3. \A j : SpeechTo(j, x) = IF k = j THEN Speech(e) ELSE <<>>
  BY DEF SpeechTo
<1> HIDE DEF x
<1>4. \A j : SpeechOf(j, inbox') = Cat(SpeechOf(j, inbox), SpeechTo(j, x))
  BY <1>1, SpeechArrives
<1>5. ASSUME NEW j \in Turn \ {k} PROVE Coming(j)' = Coming(j)
  <2>1. SpeechOf(j, inbox') = SpeechOf(j, inbox)
    BY <1>1, <1>3, <1>4, ServiceSums, CatEmpty
  <2> QED BY <1>2, <2>1 DEF Coming
<1>6. Coming(k)' = Cat(Coming(k), Speech(e))
  <2> DEFINE a == SpeechIn(Ahead(k))
             b == SpeechOf(k, inbox)
             y == Speech(e)
  <2>1. a \in Text /\ b \in Text /\ y \in Text
    BY ComingTyped, SpeechTyped
  <2>2. Coming(k) = Cat(a, b) /\ Coming(k)' = Cat(a, Cat(b, y))
    BY <1>2, <1>3, <1>4 DEF Coming
  <2> HIDE DEF a, b, y
  <2>3. Coming(k)' = Cat(Coming(k), y)
    BY <2>1, <2>2, CatAssociative
  <2> QED BY <2>3 DEF y
<1> QED BY <1>5, <1>6

LEMMA ClientComes ==
  ASSUME Typed, ReplayInv, Serving, Served, NEW j \in Turn, turn'[j].queued = turn[j].queued
  PROVE  Coming(j)' = Coming(j)
<1>1. Ahead(j) = turn[j].queued /\ Ahead(j)' = turn'[j].queued /\ inbox' = inbox
  BY NoBatch, ConstTypes DEF Serving, Served, Ahead
<1> QED BY <1>1, SameComing

-----------------------------------------------------------------------------
(* The words that a turn has published.                                    *)

\* What an announced item adds to the words of turn k.
Line(k, i, d)  == IF i[1] = k THEN d[i].transcript ELSE <<>>
Lines(k, c, d) == [n \in 1 .. Len(c) |-> Line(k, c[n], d)]

LEMMA LinesTyped ==
  ASSUME NEW c \in Seq(Item), NEW d \in DocType, NEW k
  PROVE  /\ Lines(k, c, d) \in Seq(Text) /\ Len(Lines(k, c, d)) = Len(c) /\ Len(c) \in Nat
         /\ \A n \in 1 .. Len(c) : Lines(k, c, d)[n] = Line(k, c[n], d) /\ c[n] \in Item
<1>1. Len(c) \in Nat /\ \A n \in 1 .. Len(c) : c[n] \in Item
  OBVIOUS
<1>2. \A n \in 1 .. Len(c) : Line(k, c[n], d) \in Text
  BY <1>1, EmptyFirst DEF DocType, DocRecord, Line
<1>3. Lines(k, c, d) \in Seq(Text) /\ Len(Lines(k, c, d)) = Len(c)
  BY <1>1, <1>2 DEF Lines
<1> QED BY <1>1, <1>3 DEF Lines

LEMMA TranscriptTyped ==
  ASSUME Typed, Typed', NEW k
  PROVE  /\ commits \in Seq(Item) /\ commits' \in Seq(Item) /\ doc \in DocType /\ doc' \in DocType
         /\ TranscriptOf(k) = FlattenSeq(Lines(k, commits, doc)) /\ TranscriptOf(k) \in Text
         /\ TranscriptOf(k)' = FlattenSeq(Lines(k, commits', doc'))
<1>1. commits \in Seq(Item) /\ commits' \in Seq(Item) /\ doc \in DocType /\ doc' \in DocType
  BY DEF Typed, TypeOK, DocType
<1>2. DOMAIN commits = 1 .. Len(commits) /\ DOMAIN commits' = 1 .. Len(commits')
  BY <1>1
<1>3. TranscriptOf(k) = FlattenSeq(Lines(k, commits, doc))
  BY <1>2 DEF TranscriptOf, Lines, Line
<1>4. TranscriptOf(k)' = FlattenSeq(Lines(k, commits', doc'))
  BY <1>2 DEF TranscriptOf, Lines, Line
<1>5. TranscriptOf(k) \in Text
  BY <1>1, <1>3, LinesTyped, FlatTyped
<1> QED BY <1>1, <1>3, <1>4, <1>5

\* Nothing is announced, or one item.
Announces(i) == i \in Item /\ commits' = Append(commits, i)

LEMMA AnnouncesAt ==
  ASSUME Typed, NEW i, Announces(i)
  PROVE  /\ Len(commits') = Len(commits) + 1 /\ Len(commits) \in Nat
         /\ commits'[Len(commits) + 1] = i
         /\ \A n \in 1 .. Len(commits) : commits'[n] = commits[n] /\ commits[n] \in Item
BY DEF Announces, Typed, TypeOK

\* The words of a turn are the same if its transcripts are, and if an item of
\* it that is announced has none.
LEMMA WordsKept ==
  ASSUME Typed, Typed', NEW k,
         \A i \in Item : i[1] = k => doc'[i].transcript = doc[i].transcript,
         \/ commits' = commits
         \/ \E i : Announces(i) /\ (i[1] = k => doc[i].transcript = <<>>)
  PROVE  TranscriptOf(k)' = TranscriptOf(k)
<1> DEFINE c == Lines(k, commits, doc)
           d == Lines(k, commits', doc')
<1>0. commits \in Seq(Item) /\ commits' \in Seq(Item) /\ doc \in DocType /\ doc' \in DocType
  BY TranscriptTyped
<1>1. /\ c \in Seq(Text) /\ Len(c) = Len(commits) /\ Len(commits) \in Nat
      /\ \A n \in 1 .. Len(commits) : c[n] = Line(k, commits[n], doc) /\ commits[n] \in Item
      /\ TranscriptOf(k) = FlattenSeq(c) /\ TranscriptOf(k) \in Text
  BY <1>0, LinesTyped, TranscriptTyped
<1>2. /\ d \in Seq(Text) /\ Len(d) = Len(commits')
      /\ \A n \in 1 .. Len(commits') : d[n] = Line(k, commits'[n], doc')
      /\ TranscriptOf(k)' = FlattenSeq(d)
  BY <1>0, LinesTyped, TranscriptTyped
<1>3. ASSUME NEW n \in 1 .. Len(commits), n \in 1 .. Len(commits'), commits'[n] = commits[n]
      PROVE  d[n] = c[n]
  <2>1. Line(k, commits[n], doc') = Line(k, commits[n], doc)
    BY <1>1, <1>3 DEF Line
  <2> QED BY <1>1, <1>2, <1>3, <2>1
<1> HIDE DEF c, d
<1>4. CASE commits' = commits
  <2>1. \A n \in 1 .. Len(c) : d[n] = c[n]
    BY <1>1, <1>3, <1>4
  <2>2. d = c
    BY <1>1, <1>2, <1>4, <2>1
  <2> QED BY <1>1, <1>2, <2>2
<1>5. ASSUME NEW i, Announces(i), i[1] = k => doc[i].transcript = <<>>
      PROVE  TranscriptOf(k)' = TranscriptOf(k)
  <2>1. /\ Len(commits') = Len(commits) + 1 /\ commits'[Len(commits) + 1] = i /\ i \in Item
        /\ \A n \in 1 .. Len(commits) : commits'[n] = commits[n]
    BY <1>5, AnnouncesAt DEF Announces
  <2>2. Len(d) = Len(c) + 1 /\ Len(d) \in 1 .. Len(commits')
    BY <1>1, <1>2, <2>1
  <2>3. \A n \in 1 .. Len(c) : d[n] = c[n]
    BY <1>1, <1>3, <2>1
  <2>4. d[Len(d)] = <<>>
    <3>1. Line(k, i, doc') = <<>>
      BY <1>1, <1>5, <2>1, <2>2 DEF Line
    <3>2. commits'[Len(d)] = i
      BY <1>1, <2>1, <2>2
    <3> QED BY <1>2, <2>2, <3>1, <3>2
  <2>5. FlattenSeq(d) = FlattenSeq(c) \o <<>>
    BY <1>1, <1>2, <2>2, <2>3, <2>4, FlatAppend
  <2>6. TranscriptOf(k)' = Cat(TranscriptOf(k), <<>>)
    BY <1>1, <1>2, <2>5, Zenon DEF Cat
  <2> QED BY <1>1, <2>6, CatEmpty
<1> QED BY <1>4, <1>5

LEMMA WordsAdded ==
  ASSUME Typed, Typed', NEW k, NEW i, Announces(i), i[1] = k, ~Announced(i),
         \A j \in Item : j # i => doc'[j] = doc[j]
  PROVE  TranscriptOf(k)' = Cat(TranscriptOf(k), doc'[i].transcript)
<1> DEFINE c == Lines(k, commits, doc)
           d == Lines(k, commits', doc')
<1>0. commits \in Seq(Item) /\ commits' \in Seq(Item) /\ doc \in DocType /\ doc' \in DocType
  BY TranscriptTyped
<1>1. /\ c \in Seq(Text) /\ Len(c) = Len(commits) /\ Len(commits) \in Nat
      /\ \A n \in 1 .. Len(commits) : c[n] = Line(k, commits[n], doc) /\ commits[n] \in Item
      /\ TranscriptOf(k) = FlattenSeq(c) /\ TranscriptOf(k) \in Text
  BY <1>0, LinesTyped, TranscriptTyped
<1>2. /\ d \in Seq(Text) /\ Len(d) = Len(commits')
      /\ \A n \in 1 .. Len(commits') : d[n] = Line(k, commits'[n], doc')
      /\ TranscriptOf(k)' = FlattenSeq(d)
  BY <1>0, LinesTyped, TranscriptTyped
<1> HIDE DEF c, d
<1>3. /\ Len(commits') = Len(commits) + 1 /\ commits'[Len(commits) + 1] = i /\ i \in Item
      /\ \A n \in 1 .. Len(commits) : commits'[n] = commits[n]
  BY AnnouncesAt DEF Announces
<1>4. ASSUME NEW n \in 1 .. Len(c) PROVE d[n] = c[n]
  <2>1. n \in 1 .. Len(commits) /\ n \in 1 .. Len(commits')
    BY <1>1, <1>3
  <2>2. commits[n] # i
    BY <2>1 DEF Announced
  <2>3. Line(k, commits[n], doc') = Line(k, commits[n], doc)
    BY <1>1, <1>3, <2>1, <2>2 DEF Line
  <2>4. commits'[n] = commits[n]
    BY <1>3, <2>1
  <2> QED BY <1>1, <1>2, <2>1, <2>3, <2>4
<1>5. Len(d) = Len(c) + 1 /\ Len(d) \in 1 .. Len(commits')
  BY <1>1, <1>2, <1>3
<1>6. d[Len(d)] = doc'[i].transcript
  <2>1. Line(k, i, doc') = doc'[i].transcript
    BY <1>1, <1>3, <1>5 DEF Line
  <2>2. commits'[Len(d)] = i
    BY <1>1, <1>3, <1>5
  <2> QED BY <1>2, <1>5, <2>1, <2>2
<1> DEFINE x == doc'[i].transcript
<1>7. FlattenSeq(d) = FlattenSeq(c) \o x
  <2> HIDE DEF x
  <2>1. d[Len(d)] = x
    BY <1>6 DEF x
  <2> QED BY <1>1, <1>2, <1>4, <1>5, <2>1, FlatAppend
<1> QED BY <1>1, <1>2, <1>7, Zenon DEF Cat

LEMMA WordsSet ==
  ASSUME Typed, Typed', NEW k, NEW u, NEW i, i = <<k, u>>, LastOwn(k, u), commits' = commits,
         doc[i].transcript = <<>>, \A j \in Item : j # i => doc'[j] = doc[j]
  PROVE  TranscriptOf(k)' = Cat(TranscriptOf(k), doc'[i].transcript)
<1> DEFINE c == Lines(k, commits, doc)
           d == Lines(k, commits', doc')
<1>0. commits \in Seq(Item) /\ commits' \in Seq(Item) /\ doc \in DocType /\ doc' \in DocType
  BY TranscriptTyped
<1>1. /\ c \in Seq(Text) /\ Len(c) = Len(commits) /\ Len(commits) \in Nat
      /\ \A n \in 1 .. Len(commits) : c[n] = Line(k, commits[n], doc) /\ commits[n] \in Item
      /\ TranscriptOf(k) = FlattenSeq(c) /\ TranscriptOf(k) \in Text
  BY <1>0, LinesTyped, TranscriptTyped
<1>2. /\ d \in Seq(Text) /\ Len(d) = Len(commits)
      /\ \A n \in 1 .. Len(commits) : d[n] = Line(k, commits[n], doc')
      /\ TranscriptOf(k)' = FlattenSeq(d)
  BY <1>0, LinesTyped, TranscriptTyped
<1> HIDE DEF c, d
<1>3. PICK p \in 1 .. Len(commits) :
        /\ commits[p] = i
        /\ \A n \in 1 .. Len(commits) : (n # p => commits[n] # i) /\ (n > p => commits[n][1] # k)
  BY DEF LastOwn
<1>4. i[1] = k /\ i \in Item
  BY <1>1, <1>3
<1> DEFINE x == doc'[i].transcript
<1>5. c[p] = <<>> /\ d[p] = x
  <2>1. Line(k, i, doc) = <<>> /\ Line(k, i, doc') = x
    BY <1>3, <1>4 DEF Line
  <2> QED BY <1>1, <1>2, <1>3, <2>1
<1>6. ASSUME NEW n \in 1 .. Len(c), n # p PROVE d[n] = c[n]
  <2>1. n \in 1 .. Len(commits) /\ commits[n] # i
    BY <1>1, <1>3, <1>6
  <2>2. Line(k, commits[n], doc') = Line(k, commits[n], doc)
    BY <1>1, <2>1 DEF Line
  <2> QED BY <1>1, <1>2, <2>1, <2>2
<1>7. ASSUME NEW n \in p + 1 .. Len(c) PROVE c[n] = <<>>
  <2>1. n \in 1 .. Len(commits) /\ n > p
    BY <1>1
  <2>2. commits[n][1] # k
    BY <1>3, <2>1
  <2>3. Line(k, commits[n], doc) = <<>>
    BY <2>2 DEF Line
  <2> QED BY <1>1, <2>1, <2>3
<1>8. x \in Text
  BY <1>4 DEF Typed, TypeOK, DocRecord
<1>9. p \in 1 .. Len(c) /\ Len(d) = Len(c)
  BY <1>1, <1>2
<1> HIDE DEF x
<1>10. FlattenSeq(d) = FlattenSeq(c) \o x
  BY <1>1, <1>2, <1>5, <1>6, <1>7, <1>8, <1>9, FlatSet
<1> QED BY <1>1, <1>2, <1>10, Zenon DEF Cat, x

LEMMA LastOwnKept ==
  ASSUME Typed, NEW k, NEW u, LastOwn(k, u),
         commits' = commits \/ \E i : Announces(i) /\ i[1] # k
  PROVE  LastOwn(k, u)'
<1>1. CASE commits' = commits
  BY <1>1 DEF LastOwn
<1>2. ASSUME NEW i, Announces(i), i[1] # k PROVE LastOwn(k, u)'
  <2>1. /\ Len(commits') = Len(commits) + 1 /\ Len(commits) \in Nat
        /\ commits'[Len(commits) + 1] = i
        /\ \A n \in 1 .. Len(commits) : commits'[n] = commits[n]
    BY <1>2, AnnouncesAt
  <2>2. PICK p \in 1 .. Len(commits) :
          /\ commits[p] = <<k, u>>
          /\ \A n \in 1 .. Len(commits) : (n # p => commits[n] # <<k, u>>) /\ (n > p => commits[n][1] # k)
    BY DEF LastOwn
  <2>3. p \in 1 .. Len(commits') /\ commits'[p] = <<k, u>>
    BY <2>1, <2>2
  <2>4. i # <<k, u>>
    BY <1>2
  <2>5. ASSUME NEW n \in 1 .. Len(commits')
        PROVE  (n # p => commits'[n] # <<k, u>>) /\ (n > p => commits'[n][1] # k)
    <3>1. n \in 1 .. Len(commits) \/ n = Len(commits) + 1
      BY <2>1
    <3> QED BY <1>2, <2>1, <2>2, <2>4, <3>1
  <2> QED BY <2>3, <2>5 DEF LastOwn
<1> QED BY <1>1, <1>2

LEMMA LastOwnNew ==
  ASSUME Typed, NEW k, NEW u, NEW i, i = <<k, u>>, Announces(i), ~Announced(i)
  PROVE  LastOwn(k, u)'
<1>1. /\ Len(commits') = Len(commits) + 1 /\ Len(commits) \in Nat
      /\ commits'[Len(commits) + 1] = i
      /\ \A n \in 1 .. Len(commits) : commits'[n] = commits[n]
  BY AnnouncesAt
<1>2. PICK p : p = Len(commits) + 1
  OBVIOUS
<1>3. p \in 1 .. Len(commits') /\ commits'[p] = i
  BY <1>1, <1>2
<1>4. ASSUME NEW n \in 1 .. Len(commits')
      PROVE  (n # p => commits'[n] # i) /\ ~(n > p)
  <2>1. n \in 1 .. Len(commits) \/ n = p
    BY <1>1, <1>2
  <2> QED BY <1>1, <1>2, <2>1 DEF Announced
<1> QED BY <1>3, <1>4 DEF LastOwn

-----------------------------------------------------------------------------
(* Transcripts are given with an outcome, and an announced item is told.   *)

SameWords(d, b) == \A i \in Item : b[i].transcript = d[i].transcript
DoneWords(d, b) == \A i \in Item : b[i].transcript = d[i].transcript \/ b[i].st = "completed"

Wording ==
  /\ commits' = commits \/ \E i : Announces(i) /\ doc'[i].st # "none"
  /\ DoneWords(doc, doc')

LEMMA DocWords ==
  ASSUME NEW d, d \in DocType, NEW i, NEW x, NEW S
  PROVE  /\ SameWords(d, Added(d, i)) /\ SameWords(d, Delta(d, i, x)) /\ SameWords(d, Failed(d, S))
         /\ DoneWords(d, Completed(d, i, x))
         /\ i \in Item => /\ Added(d, i)[i].st = "committed" /\ Delta(d, i, x)[i].st = d[i].st
                          /\ Completed(d, i, x)[i].st = "completed"
                          /\ \A j \in Item : j # i => Completed(d, i, x)[j] = d[j]
<1>0. \A j \in Item : d[j] \in DocRecord
  BY DEF DocType
<1>1. SameWords(d, Added(d, i)) /\ (i \in Item => Added(d, i)[i].st = "committed")
  BY DEF Added, SameWords, DocType, DocRecord
<1>2. SameWords(d, Delta(d, i, x)) /\ (i \in Item => Delta(d, i, x)[i].st = d[i].st)
  <2>1. ASSUME NEW j \in Item
        PROVE  Delta(d, i, x)[j].transcript = d[j].transcript /\ Delta(d, i, x)[j].st = d[j].st
    <3> DEFINE r == [d[i] EXCEPT !.shown = @ \o x]
    <3>1. Delta(d, i, x) = [d EXCEPT ![i] = r]
      BY DEF Delta
    <3>2. i \in Item => r.transcript = d[i].transcript /\ r.st = d[i].st
      BY <1>0 DEF DocRecord
    <3> HIDE DEF r
    <3>3. [d EXCEPT ![i] = r][j] = IF j = i THEN r ELSE d[j]
      BY DEF DocType
    <3> QED BY <3>1, <3>2, <3>3
  <2> QED BY <2>1 DEF SameWords
<1>3. SameWords(d, Failed(d, S))
  <2>1. ASSUME NEW j \in Item PROVE Failed(d, S)[j].transcript = d[j].transcript
    BY <1>0, <2>1 DEF Failed, DocRecord
  <2> QED BY <2>1 DEF SameWords
<1>4. /\ DoneWords(d, Completed(d, i, x))
      /\ i \in Item => /\ Completed(d, i, x)[i].st = "completed"
                       /\ \A j \in Item : j # i => Completed(d, i, x)[j] = d[j]
  <2> DEFINE r == [d[i] EXCEPT !.st = "completed", !.transcript = x, !.ends = @ + 1]
  <2>1. i \in Item => Completed(d, i, x) = [d EXCEPT ![i] = r] /\ r.st = "completed"
    BY <1>0 DEF Completed, DocType, DocRecord
  <2> HIDE DEF r
  <2>2. \A j \in Item : [d EXCEPT ![i] = r][j] = IF j = i THEN r ELSE d[j]
    BY DEF DocType
  <2>3. i \notin Item => \A j \in Item : Completed(d, i, x)[j] = d[j]
    BY DEF Completed, DocType
  <2> QED BY <2>1, <2>2, <2>3 DEF DoneWords
<1> QED BY <1>1, <1>2, <1>3, <1>4

LEMMA SameDone ==
  ASSUME NEW d, NEW a, NEW b, SameWords(d, a), SameWords(a, b) \/ DoneWords(a, b)
  PROVE  /\ SameWords(a, b) => SameWords(d, b)
         /\ DoneWords(d, b)
BY DEF SameWords, DoneWords

LEMMA CommitWords ==
  ASSUME Typed, Typed', NEW i, NEW x, x \in Text, CommitItem(i, x)
  PROVE  Announces(i) /\ doc'[i].st = "committed" /\ SameWords(doc, doc')
<1>1. Announces(i)
  <2>1. commits \in Seq(Item) /\ commits' \in Seq(Item) /\ commits' = Append(commits, i)
    BY DEF Typed, TypeOK, CommitItem
  <2>2. Len(commits) + 1 \in 1 .. Len(commits') /\ commits'[Len(commits) + 1] = i
    BY <2>1
  <2> QED BY <2>1, <2>2 DEF Announces
<1>2. PICK a : a = Added(doc, i)
  OBVIOUS
<1>3. doc \in DocType /\ a \in DocType
  BY <1>2, DocTypes DEF Typed, TypeOK, DocType
<1>4. SameWords(doc, a) /\ a[i].st = "committed"
  BY <1>1, <1>2, <1>3, DocWords DEF Announces
<1>5. SameWords(a, Delta(a, i, x)) /\ Delta(a, i, x)[i].st = a[i].st
  BY <1>1, <1>3, DocWords DEF Announces
<1>6. doc' = Delta(a, i, x)
  BY <1>2 DEF CommitItem
<1> QED BY <1>1, <1>4, <1>5, <1>6, SameDone

LEMMA WholeWords ==
  ASSUME Typed, Typed', NEW i, NEW x, x \in Text, commits' = Append(commits, i),
         doc' = Completed(Delta(Added(doc, i), i, x), i, x)
  PROVE  Announces(i) /\ doc'[i].st = "completed" /\ DoneWords(doc, doc')
<1>1. Announces(i)
  <2>1. commits \in Seq(Item) /\ commits' \in Seq(Item)
    BY DEF Typed, TypeOK
  <2>2. Len(commits) + 1 \in 1 .. Len(commits') /\ commits'[Len(commits) + 1] = i
    BY <2>1
  <2> QED BY <2>1, <2>2 DEF Announces
<1>2. PICK a : a = Added(doc, i)
  OBVIOUS
<1>3. doc \in DocType /\ a \in DocType
  BY <1>2, DocTypes DEF Typed, TypeOK, DocType
<1>4. PICK b : b = Delta(a, i, x)
  OBVIOUS
<1>5. b \in DocType
  BY <1>3, <1>4, DocTypes
<1>6. SameWords(doc, a) /\ SameWords(a, b)
  BY <1>2, <1>3, <1>4, DocWords
<1>7. DoneWords(b, Completed(b, i, x)) /\ Completed(b, i, x)[i].st = "completed"
  <2>1. i \in Item
    BY <1>1 DEF Announces
  <2>2. Completed(b, i, x)[i].st = "completed"
    BY <1>5, <2>1, CompletedAt
  <2>3. DoneWords(b, Completed(b, i, x))
    BY <1>5, DocWords
  <2> QED BY <2>2, <2>3
<1>8. doc' = Completed(b, i, x)
  BY <1>2, <1>4
<1>9. SameWords(doc, b)
  BY <1>6, SameDone
<1> QED BY <1>1, <1>7, <1>8, <1>9, SameDone

LEMMA SameWording ==
  ASSUME commits' = commits, SameWords(doc, doc') \/ DoneWords(doc, doc')
  PROVE  Wording
BY DEF Wording, SameWords, DoneWords

LEMMA CommitWording ==
  ASSUME Typed, Typed', NEW i, NEW x, x \in Text, CommitItem(i, x)
  PROVE  Wording
<1>1. Announces(i) /\ doc'[i].st = "committed" /\ SameWords(doc, doc')
  BY CommitWords
<1> QED BY <1>1 DEF Wording, SameWords, DoneWords

LEMMA StageWording ==
  ASSUME Typed, Typed', phase' = "running", NEW k \in Turn, NEW e \in Event, e.id \in Ids,
         NEW t \in TurnRecord, QwenStage(k, e, t)
  PROVE  Wording
<1>1. PICK i : i = <<k, IF t.mode = "qwenManual" THEN t.item ELSE e.id>>
  OBVIOUS
<1>2. Staged(k, e, t, i)
  BY <1>1, StageParts
<1>3. PICK a, b : a = t.items[e.id] /\ b = turn'[k].items[e.id]
  OBVIOUS
<1>4. a.text \in Text /\ e.delta \in Text /\ e.text \in Text
  BY <1>3, EventTypes DEF TurnRecord
<1>5. doc \in DocType
  BY DEF Typed, TypeOK, DocType
<1>6. SameWords(doc, doc)
  BY DEF SameWords
<1>7. SameWords(doc, Failed(doc, {i})) /\ SameWords(doc, Delta(doc, i, e.delta))
  BY <1>5, DocWords
<1>8. DoneWords(doc, Completed(Delta(doc, i, e.delta), i, e.text))
  <2>1. PICK d : d = Delta(doc, i, e.delta)
    OBVIOUS
  <2>2. d \in DocType
    BY <1>4, <1>5, <2>1, DocTypes
  <2>3. DoneWords(d, Completed(d, i, e.text))
    BY <2>2, DocWords
  <2> QED BY <1>7, <2>1, <2>3, SameDone
<1>9. CASE CommitItem(i, a.text)
  BY <1>4, <1>9, CommitWording
<1>10. CASE UNCHANGED client
  BY <1>6, <1>10, SameWording DEF client
<1>11. CASE commits' = commits /\ (doc' = doc \/ doc' = Delta(doc, i, e.delta) \/ doc' = Failed(doc, {i}))
  BY <1>6, <1>7, <1>11, SameWording
<1>12. CASE commits' = commits /\ doc' = Completed(Delta(doc, i, e.delta), i, e.text)
  BY <1>8, <1>12, SameWording
<1> QED BY <1>2, <1>3, <1>9, <1>10, <1>11, <1>12, ZenonT(30) DEF Staged

LEMMA ProcessWording ==
  ASSUME Typed, Typed', phase' = "running", NEW k \in live, NEW e \in Event, Process(k, e)
  PROVE  Wording
<1>1. k \in Turn /\ turn[k] \in TurnRecord /\ doc \in DocType
  BY DEF Typed, TypeOK, DocType
<1>2. SameWords(doc, doc)
  BY DEF SameWords
<1>3. ~Reject /\ ~ProcessErr(k)
  BY DEF Reject, ProcessErr, End
<1>4. CASE Ignore
  BY <1>2, <1>4, SameWording DEF Ignore
<1>5. CASE ProcessFinished(k)
  <2>1. commits' = commits /\ (doc' = doc \/ doc' = Completed(doc, <<k, turn[k].item>>, turn[k].text))
    BY <1>3, <1>5 DEF ProcessFinished
  <2>2. DoneWords(doc, Completed(doc, <<k, turn[k].item>>, turn[k].text))
    BY <1>1, DocWords
  <2> QED BY <1>2, <2>1, <2>2, SameWording
<1>6. CASE VadSentence(k, e)
  <2>1. \/ UNCHANGED <<commits, doc>>
        \/ \E i : /\ commits' = Append(commits, i)
                  /\ doc' = Completed(Delta(Added(doc, i), i, e.text), i, e.text)
    BY <1>3, <1>6 DEF VadSentence
  <2>2. ASSUME NEW i, commits' = Append(commits, i),
               doc' = Completed(Delta(Added(doc, i), i, e.text), i, e.text)
        PROVE  Wording
    <3>1. e.text \in Text
      BY EventTypes
    <3>2. Announces(i) /\ doc'[i].st = "completed" /\ DoneWords(doc, doc')
      BY <2>2, <3>1, WholeWords
    <3> QED BY <3>2 DEF Wording
  <2> QED BY <1>2, <2>1, <2>2, SameWording
<1>7. CASE TurnSentence(k, e)
  <2>1. commits' = commits /\ (doc' = doc \/ doc' = Delta(doc, <<k, turn[k].item>>, e.text))
    BY <1>3, <1>7 DEF TurnSentence, Ignore
  <2>2. SameWords(doc, Delta(doc, <<k, turn[k].item>>, e.text))
    BY <1>1, DocWords
  <2> QED BY <1>2, <2>1, <2>2, SameWording
<1>8. CASE e.kind \in ItemKind /\ QwenItem(k, e)
  <2>1. e.id \in Ids
    BY <1>8, EventTypes
  <2>2. Opened(turn[k], e) \in TurnRecord
    BY <1>1, <2>1, OpenedParts
  <2>3. Ignore \/ QwenStage(k, e, Opened(turn[k], e)) \/ QwenStage(k, e, turn[k])
    BY <1>3, <1>8 DEF QwenItem, Opened
  <2> QED BY <1>1, <1>4, <2>1, <2>2, <2>3, StageWording
<1> QED BY <1>3, <1>4, <1>5, <1>6, <1>7, <1>8 DEF Process

LEMMA StepWording ==
  ASSUME Typed, Typed', phase = "running", phase' = "running", [Next]_vars
  PROVE  Wording
<1>0. SameWords(doc, doc) /\ live \subseteq Turn
  BY DEF SameWords, Typed, TypeOK
<1>1. CASE UNCHANGED <<commits, doc>>
  BY <1>0, <1>1, SameWording
<1>2. ASSUME NEW k, NEW e, k \in Turn \/ k \notin live, e \in Event, Process(k, e) PROVE Wording
  <2>1. CASE k \in live
    BY <1>2, <2>1, ProcessWording
  <2>2. CASE k \notin live
    BY <1>1, <1>2, <2>2 DEF Process, Ignore
  <2> QED BY <2>1, <2>2
<1>3. CASE Upstream
  <2>1. Head(inbox) \in Entry
    BY <1>3, HeadTail DEF Upstream, Typed, TypeOK, Entry
  <2>2. PICK k, e : k = Head(inbox).key /\ e = Head(inbox).event
    OBVIOUS
  <2>3. k \in Turn /\ e \in Event
    BY <2>1, <2>2 DEF Entry
  <2>4. Ignore \/ Hold(k, e) \/ Process(k, e)
    BY <1>3, <2>2 DEF Upstream
  <2>5. CASE Ignore \/ Hold(k, e)
    BY <1>1, <2>5 DEF Ignore, Hold, Reject, client
  <2> QED BY <1>2, <2>3, <2>4, <2>5
<1>4. CASE Replay
  <2>1. Head(batch) \in Event /\ Process(cur, Head(batch))
    BY <1>4, HeadTail DEF Replay, Typed, TypeOK, WellFormed
  <2>2. cur \in Turn \/ cur \notin live
    BY <1>0
  <2> QED BY <1>2, <2>1, <2>2
<1>5. CASE DrainNext
  <2>1. PICK k \in Ready : \/ UNCHANGED client
                           \/ CommitItem(<<k, turn[k].item>>, IF IsQwen(turn[k].mode) THEN <<>> ELSE turn[k].text)
    BY <1>5 DEF DrainNext
  <2>2. (IF IsQwen(turn[k].mode) THEN <<>> ELSE turn[k].text) \in Text
    BY EmptyFirst DEF Ready, Typed, TypeOK, TurnRecord, Text
  <2> QED BY <1>1, <2>1, <2>2, CommitWording DEF client
<1>6. CASE Commit
  <2>1. UNCHANGED client \/ CommitItem(<<active, CommitName(active)>>, turn[active].text)
    BY <1>6 DEF Commit
  <2>2. turn[active].text \in Text
    BY <1>6 DEF Commit, Committable, Typed, TypeOK, TurnRecord
  <2> QED BY <1>1, <2>1, <2>2, CommitWording DEF client
<1>7. CASE Refused \/ SessionUpdate \/ AppendMore \/ AppendFirst \/ Clear
  BY <1>1, <1>7 DEF Refused, SessionUpdate, AppendMore, AppendFirst, Clear, client
<1>8. ASSUME NEW k, Task(k) PROVE Wording
  BY <1>1, <1>8 DEF Task, UpQwen, UpStage, UpText, UpFailed, UpSentence, UpFinished, UpErr, Forward, client
<1>9. CASE Disconnect \/ Terminated \/ UNCHANGED vars
  BY <1>1, <1>9 DEF Disconnect, Terminated, vars, client
<1> QED BY <1>3, <1>4, <1>5, <1>6, <1>7, <1>8, <1>9 DEF Next, Loop, Client

LEMMA HeldKept ==
  ASSUME Typed, Typed', OrderInv, RunInv, Held, phase = "running", phase' = "running", [Next]_vars
  PROVE  Held'
<1>1. Wording /\ \A i \in Item : Told(i)
  BY StepWording, StepKinds, StepTold
<1>2. ASSUME NEW i \in Item, Announced(i)' PROVE doc'[i].st # "none"
  <2>1. CASE Announced(i)
    BY <1>1, <2>1 DEF Held, Told
  <2>2. CASE ~Announced(i)
    <3>1. commits' # commits
      BY <1>2, <2>2 DEF Announced
    <3>2. PICK j : Announces(j) /\ doc'[j].st # "none"
      BY <1>1, <3>1 DEF Wording
    <3>3. /\ Len(commits') = Len(commits) + 1 /\ Len(commits) \in Nat
          /\ commits'[Len(commits) + 1] = j
          /\ \A n \in 1 .. Len(commits) : commits'[n] = commits[n]
      BY <3>2, AnnouncesAt
    <3>4. PICK n \in 1 .. Len(commits') : commits'[n] = i
      BY <1>2 DEF Announced
    <3>5. n \in 1 .. Len(commits) \/ n = Len(commits) + 1
      BY <3>3
    <3>6. n \notin 1 .. Len(commits)
      BY <2>2, <3>3, <3>4 DEF Announced
    <3> QED BY <3>2, <3>3, <3>4, <3>5, <3>6
  <2> QED BY <2>1, <2>2
<1>3. ASSUME NEW i \in Item, doc'[i].st \in {"none", "committed"} PROVE doc'[i].transcript = <<>>
  <2>1. doc[i].st \in {"none", "committed"}
    BY <1>1, <1>3 DEF Told
  <2>2. doc'[i].transcript = doc[i].transcript
    BY <1>1, <1>3 DEF Wording, DoneWords
  <2> QED BY <2>1, <2>2 DEF Held
<1> QED BY <1>2, <1>3 DEF Held

-----------------------------------------------------------------------------
(* What a turn has heard.                                                  *)

\* The step does not touch what the task of turn j has sent.
SameTask(j) ==
  /\ up'[j].started = up[j].started /\ up'[j].heard = up[j].heard
  /\ up'[j].over = up[j].over /\ up'[j].qwen = up[j].qwen

SameTurn(j) ==
  /\ turn'[j].mode = turn[j].mode /\ turn'[j].committed = turn[j].committed
  /\ turn'[j].delayed = turn[j].delayed /\ turn'[j].item = turn[j].item
  /\ turn'[j].text = turn[j].text

\* Nor what the client was told of it.
SameLines(j) ==
  /\ TranscriptOf(j)' = TranscriptOf(j)
  /\ \A u : LastOwn(j, u) => LastOwn(j, u)'

LEMMA EndsKept ==
  ASSUME NEW k, Ends(k), SameTask(k),
         Shrinks(k) \/ Stays(k) \/ \E g, x, m : Merges(k, g, x, m) /\ Merged(g, x, m)
  PROVE  Ends(k)'
<1>1. CASE Shrinks(k) \/ Stays(k)
  <2>1. Shrinks(k)
    BY <1>1, StaysShrinks
  <2>2. /\ Pending(k)' \subseteq Pending(k)
        /\ \A e, f : Earlier(k, e, f)' => Earlier(k, e, f)
    BY <2>1 DEF Shrinks, ShrinksTo, Pending, Earlier
  <2> QED BY <2>2 DEF Ends, SameTask
<1>2. ASSUME NEW g, NEW x, NEW m, Merges(k, g, x, m), Merged(g, x, m)
      PROVE  Ends(k)'
  <2>1. /\ g \in Pending(k)
        /\ Pending(k)' \subseteq Pending(k) \cup {m}
        /\ \A e, f : Earlier(k, e, f)' => Earlier(k, e, f) \/ (\E h : Earlier(k, e, h)) \/ e = m
    BY <1>2 DEF Merges, MergesTo, Pending, Earlier
  <2>2. PICK d : d = g.delta \o x.delta
    OBVIOUS
  <2>3. m = [x EXCEPT !.delta = d]
    BY <1>2, <2>2 DEF Merged
  <2>4. m.kind \notin EndKind
    <3>1. x.kind = "delta"
      BY <1>2 DEF Merged
    <3>2. m.kind = x.kind
      BY <2>3
    <3> QED BY <3>1, <3>2 DEF EndKind
  <2> QED BY <2>1, <2>4 DEF Ends, SameTask
<1> QED BY <1>1, <1>2

LEMMA EndsSent ==
  ASSUME NEW k, NEW e, Ends(k), Grows(k, e), up[k].started, ~up[k].over, up'[k].started,
         e.kind \in EndKind => up'[k].over
  PROVE  Ends(k)'
<1>1. /\ Pending(k)' = Pending(k) \cup {e}
      /\ \A f, g : Earlier(k, f, g)' => Earlier(k, f, g) \/ f \in Pending(k)
  BY DEF Grows, GrowsTo, Pending, Earlier
<1>2. \A f \in Pending(k) : f.kind \notin EndKind
  BY DEF Ends
<1> QED BY <1>1, <1>2 DEF Ends

\* A step that only tells the client of turn k.
TellsOf(k) ==
  /\ commits' = commits \/ \E i : Announces(i) /\ i[1] = k
  /\ \A i \in Item : i[1] # k => doc'[i] = doc[i]

LEMMA OthersLines ==
  ASSUME Typed, Typed', NEW k, TellsOf(k), NEW j, j # k
  PROVE  SameLines(j)
<1>1. TranscriptOf(j)' = TranscriptOf(j)
  <2>1. \A i \in Item : i[1] = j => doc'[i].transcript = doc[i].transcript
    BY DEF TellsOf
  <2>2. commits' = commits \/ \E i : Announces(i) /\ (i[1] = j => doc[i].transcript = <<>>)
    BY DEF TellsOf
  <2> QED BY <2>1, <2>2, WordsKept
<1>2. ASSUME NEW u, LastOwn(j, u) PROVE LastOwn(j, u)'
  <2>1. commits' = commits \/ \E i : Announces(i) /\ i[1] # j
    BY DEF TellsOf
  <2> QED BY <1>2, <2>1, LastOwnKept
<1> QED BY <1>1, <1>2 DEF SameLines

LEMMA QuietLines ==
  ASSUME UNCHANGED <<commits, doc>>, NEW j
  PROVE  SameLines(j)
BY DEF SameLines, TranscriptOf, LastOwn

LEMMA HeardKept ==
  ASSUME NEW j, Heard(j), live' \cap {j} = live \cap {j}, SameTask(j),
         up'[j].open = up[j].open, up'[j].finishing = up[j].finishing,
         SameLines(j), j \in live => SameTurn(j) /\ Coming(j)' = Coming(j)
  PROVE  Heard(j)'
<1>1. CASE j \notin live
  <2>1. j \notin live'
    BY <1>1
  <2> QED BY <1>1, <2>1 DEF Heard, Gone, SameTask, SameLines
<1>2. CASE j \in live
  <2>1. j \in live' /\ Alive(j) /\ SameTurn(j)
    BY <1>2 DEF Heard
  <2>2. Spoken(j) => Spoken(j)'
    <3>1. Said(j)' = Said(j)
      BY <2>1 DEF Said, SameTurn, SameLines
    <3> QED BY <1>2, <2>1, <3>1 DEF Spoken, SameTurn, SameLines, SameTask
  <2>3. Alive(j)'
    BY <2>1, <2>2 DEF Alive, SameTask, SameTurn
  <2> QED BY <2>1, <2>3 DEF Heard
<1> QED BY <1>1, <1>2

-----------------------------------------------------------------------------
(* What an event does to the words of its turn.                            *)

\* The event was the next one of turn k.
Taken(k, e) == Pops(k, e) /\ Coming(k) = Cat(Speech(e), Coming(k)')

LEMMA SaidTyped ==
  ASSUME Typed, Typed', NEW k \in Turn
  PROVE  /\ TranscriptOf(k) \in Text /\ turn[k].text \in Text /\ Said(k) \in Text
         /\ TranscriptOf(k)' \in Text /\ turn'[k].text \in Text
         /\ Coming(k) \in Text /\ Coming(k)' \in Text
<1>1. TranscriptOf(k) \in Text
  BY TranscriptTyped
<1>2. turn[k].text \in Text /\ turn'[k].text \in Text
  BY DEF Typed, TypeOK, TurnRecord
<1>3. Said(k) \in Text
  BY <1>1, <1>2, CatTyped DEF Said
<1>4. TranscriptOf(k)' \in Text
  <2> DEFINE c == Lines(k, commits', doc')
  <2>1. c \in Seq(Text)
    BY TranscriptTyped, LinesTyped
  <2>2. TranscriptOf(k)' = FlattenSeq(c)
    BY TranscriptTyped
  <2> HIDE DEF c
  <2> QED BY <2>1, <2>2, FlatTyped
<1>5. Coming(k) \in Text
  BY ComingTyped
<1>6. Coming(k)' \in Text
  <2>1. Ahead(k)' \in Seq(Event) /\ inbox' \in Seq(Entry)
    BY DEF Ahead, Typed, TypeOK, TurnRecord, Entry
  <2>2. SpeechIn(Ahead(k)') \in Text /\ SpeechOf(k, inbox') \in Text
    BY <2>1, SpeechSums, ServiceSums
  <2> QED BY <2>2, CatTyped DEF Coming
<1> QED BY <1>1, <1>2, <1>3, <1>4, <1>5, <1>6

LEMMA SaysMore ==
  ASSUME NEW s, NEW x, NEW c, NEW h, s \in Text, x \in Text, c \in Text, Cat(s, Cat(x, c)) = h
  PROVE  Cat(Cat(s, x), c) = h
BY CatAssociative

LEMMA ProcessGoes ==
  ASSUME phase' = "running", NEW k \in live, NEW e, Process(k, e)
  PROVE  \/ UNCHANGED <<live, up>>
         \/ Forget(k) /\ e.kind = "finished" /\ ProcessFinished(k)
BY DEF Process, Ignore, ProcessErr, ProcessFinished, VadSentence, TurnSentence, QwenItem,
       QwenStage, Reject, End

LEMMA VadHears ==
  ASSUME Typed, Typed', phase' = "running", Held,
         NEW k \in live, NEW e \in Event, e.kind \in SentenceKind,
         turn[k].mode = "sentVad", ~turn[k].committed, VadSentence(k, e),
         Book(k, turn[k], doc), Booked(k), Spoken(k), Taken(k, e)
  PROVE  Spoken(k)'
<1>k. k \in Turn
  BY DEF Typed, TypeOK
<1>0. PICK t \in TurnRecord : t = turn[k]
  BY <1>k DEF Typed, TypeOK
<1>1. t.text = <<>> /\ Cat(Said(k), Coming(k)) = up[k].heard
  BY <1>0 DEF Spoken
<1>2. ~Reject
  BY DEF Reject, End
<1>3. /\ turn'[k].mode = t.mode /\ turn'[k].committed = t.committed
      /\ turn'[k].text = t.text /\ up' = up
  <2>1. turn \in [Turn -> TurnRecord]
    BY DEF Typed, TypeOK
  <2>2. PICK u, s : /\ u = IF turn[k].item = None THEN e.id ELSE turn[k].item
                    /\ s = IF turn[k].item = None THEN e.id ELSE turn[k].sentence
    OBVIOUS
  <2>3. PICK c : c = Boundary(k, e.time)
    OBVIOUS
  <2>4. \/ turn' = [turn EXCEPT ![k].item = u, ![k].sentence = s]
        \/ turn' = [turn EXCEPT ![k].item = None, ![k].sentence = s, ![k].consumed = c]
    BY <1>2, <2>2, <2>3, Zenon DEF VadSentence
  <2>5. up' = up
    BY <1>2, Zenon DEF VadSentence
  <2>6. CASE turn' = [turn EXCEPT ![k].item = u, ![k].sentence = s]
    BY <1>k, <1>0, <2>1, <2>5, <2>6 DEF TurnRecord
  <2>7. CASE turn' = [turn EXCEPT ![k].item = None, ![k].sentence = s, ![k].consumed = c]
    BY <1>k, <1>0, <2>1, <2>5, <2>7 DEF TurnRecord
  <2> QED BY <2>4, <2>6, <2>7
<1>4. /\ TranscriptOf(k) \in Text /\ Said(k) \in Text
      /\ TranscriptOf(k)' \in Text /\ Coming(k)' \in Text /\ Speech(e) \in Text
  BY <1>k, SaidTyped, SpeechTyped
<1>5. Said(k) = TranscriptOf(k) /\ Said(k)' = TranscriptOf(k)'
  BY <1>0, <1>1, <1>3, <1>4, CatEmpty DEF Said
<1>6. TranscriptOf(k)' = Cat(TranscriptOf(k), Speech(e))
  <2>1. CASE e.kind = "partial"
    <3>1. UNCHANGED <<commits, doc>> /\ Speech(e) = <<>>
      BY <1>2, <2>1 DEF VadSentence, Speech
    <3>2. TranscriptOf(k)' = TranscriptOf(k)
      BY <3>1 DEF TranscriptOf
    <3> QED BY <1>4, <3>1, <3>2, CatEmpty
  <2>2. CASE e.kind = "final"
    <3>1. PICK u : u = IF t.item = None THEN e.id ELSE t.item
      OBVIOUS
    <3>2. PICK i, x : i = <<k, u>> /\ x = e.text
      OBVIOUS
    <3>3. /\ commits' = Append(commits, i)
          /\ doc' = Completed(Delta(Added(doc, i), i, x), i, x)
      BY <1>0, <1>2, <2>2, <3>1, <3>2 DEF VadSentence
    <3>4. x \in Text /\ Speech(e) = x
      BY <2>2, <3>2, EventTypes DEF Speech
    <3>5. Announces(i)
      BY <3>3, <3>4, WholeWords
    <3>0. doc \in DocType
      BY DEF Typed, TypeOK, DocType
    <3>6. PICK a \in DocType : a = Added(doc, i)
      <4>1. x \in Text
        BY <3>4
      <4>2. Added(doc, i) \in DocType
        BY <3>0, <4>1, DocTypes
      <4> QED BY <4>2
    <3>7. PICK d \in DocType : d = Delta(a, i, x)
      <4>1. x \in Text
        BY <3>4
      <4>2. Delta(a, i, x) \in DocType
        BY <4>1, DocTypes
      <4> QED BY <4>2
    <3>8. i \in Item /\ i[1] = k /\ u \in Uid
      BY <3>2, <3>5 DEF Announces, Item
    <3>9. /\ \A j \in Item : j # i => a[j] = doc[j]
          /\ a[i].ends = doc[i].ends
      BY <3>0, <3>6, <3>8, AddedAt
    <3>10. /\ \A j \in Item : j # i => d[j] = a[j]
           /\ d[i].ends = a[i].ends
      BY <3>4, <3>7, <3>8, DeltaAt
    <3>11. /\ \A j \in Item : j # i => Completed(d, i, x)[j] = d[j]
           /\ Completed(d, i, x)[i].st = "completed"
           /\ Completed(d, i, x)[i].transcript = x /\ Completed(d, i, x)[i].ends = d[i].ends + 1
      <4>1. d \in DocType /\ i \in Item /\ x \in Text
        BY <3>4, <3>8
      <4> QED BY <4>1, CompletedAt
    <3>12. doc' = Completed(d, i, x)
      BY <3>3, <3>6, <3>7
    <3>13. doc'[i].transcript = x /\ doc'[i].ends = doc[i].ends + 1 /\ \A j \in Item : j # i => doc'[j] = doc[j]
      BY <3>9, <3>10, <3>11, <3>12
    <3>14. doc[i].ends \in Nat
      BY <3>8 DEF Typed, TypeOK, DocRecord
    <3>15. doc[i].st \in {"none", "committed"}
      <4>1. Told(i)
        BY <3>8 DEF Booked
      <4>2. doc'[i] # doc[i]
        BY <3>13, <3>14
      <4> QED BY <4>1, <4>2 DEF Told
    <3>16. doc[i].st # "committed"
      <4>1. SentenceBook(k, t, doc)
        BY <1>0 DEF Book, IsQwen
      <4>2. u \in Uid \ {t.item} => doc[<<k, u>>].st # "committed"
        BY <4>1 DEF SentenceBook
      <4>3. t.item # None => doc[<<k, t.item>>].st = "none"
        BY <1>0, <4>1 DEF SentenceBook
      <4>4. u # t.item \/ t.item # None
        BY <3>8, ConstTypes
      <4> QED BY <3>2, <3>8, <4>2, <4>3, <4>4
    <3>17. ~Announced(i)
      BY <3>8, <3>15, <3>16 DEF Held
    <3>18. TranscriptOf(k)' = Cat(TranscriptOf(k), doc'[i].transcript)
      BY <3>5, <3>8, <3>13, <3>17, WordsAdded
    <3> QED BY <3>4, <3>13, <3>18
  <2> QED BY <2>1, <2>2 DEF SentenceKind
<1>7. Cat(Said(k)', Coming(k)') = up[k].heard
  BY <1>1, <1>4, <1>5, <1>6, SaysMore DEF Taken
<1> QED BY <1>0, <1>1, <1>3, <1>7 DEF Spoken

LEMMA TurnHears ==
  ASSUME Typed, Typed', phase' = "running",
         NEW k \in live, NEW e \in Event, e.kind \in SentenceKind,
         ~(turn[k].mode = "sentVad" /\ ~turn[k].committed), TurnSentence(k, e),
         Spoken(k), Taken(k, e)
  PROVE  Spoken(k)'
<1>k. k \in Turn
  BY DEF Typed, TypeOK
<1>0. PICK t \in TurnRecord : t = turn[k]
  BY <1>k DEF Typed, TypeOK
<1>1. ~Reject
  BY DEF Reject, End
<1>2. PICK x \in Text : x = Speech(e)
  BY SpeechTyped
<1>3. /\ TranscriptOf(k) \in Text /\ Said(k) \in Text /\ Coming(k)' \in Text
  BY <1>k, SaidTyped
<1>4. UNCHANGED <<commits, up>> /\ SameWords(doc, doc')
  <2>1. UNCHANGED <<commits, up>> /\ (doc' = doc \/ doc' = Delta(doc, <<k, turn[k].item>>, e.text))
    BY <1>1 DEF TurnSentence, Ignore
  <2>2. doc \in DocType /\ SameWords(doc, doc)
    BY DEF SameWords, Typed, TypeOK, DocType
  <2>3. SameWords(doc, Delta(doc, <<k, turn[k].item>>, e.text))
    BY <2>2, DocWords
  <2> QED BY <2>1, <2>2, <2>3
<1>5. /\ turn'[k].mode = t.mode /\ turn'[k].committed = t.committed
      /\ turn'[k].delayed = t.delayed /\ turn'[k].item = t.item
      /\ turn'[k].text = Cat(t.text, x)
  <2>1. CASE e.kind = "partial"
    <3>1. turn' = turn /\ x = <<>> /\ t.text \in Text
      BY <1>1, <1>2, <2>1 DEF TurnSentence, Ignore, Speech, TurnRecord
    <3> QED BY <1>0, <3>1, CatEmpty
  <2>2. CASE e.kind = "final"
    <3>1. turn' = [turn EXCEPT ![k].text = @ \o e.text] /\ turn \in [Turn -> TurnRecord]
      BY <1>1, <2>2 DEF TurnSentence, Typed, TypeOK
    <3>2. turn'[k] = [turn[k] EXCEPT !.text = @ \o e.text]
      BY <1>k, <3>1
    <3>3. PICK y : y = t.text \o e.text
      OBVIOUS
    <3>4. turn'[k] = [t EXCEPT !.text = y]
      BY <1>0, <3>2, <3>3
    <3>5. x = e.text
      BY <1>2, <2>2 DEF Speech
    <3>6. y = Cat(t.text, x)
      BY <3>3, <3>5 DEF Cat
    <3> QED BY <3>4, <3>6 DEF TurnRecord
  <2> QED BY <2>1, <2>2 DEF SentenceKind
<1>6. TranscriptOf(k)' = TranscriptOf(k)
  BY <1>4, WordsKept DEF SameWords
<1>7. Said(k)' = Cat(Said(k), x)
  <2>1. t.text \in Text
    BY DEF TurnRecord
  <2>2. Said(k)' = Cat(TranscriptOf(k), Cat(t.text, x))
    BY <1>5, <1>6 DEF Said
  <2>3. Said(k) = Cat(TranscriptOf(k), t.text)
    BY <1>0 DEF Said
  <2> QED BY <1>2, <1>3, <2>1, <2>2, <2>3, CatAssociative
<1>8. Cat(Said(k)', Coming(k)') = up[k].heard
  BY <1>2, <1>3, <1>7, SaysMore DEF Taken, Spoken
<1>9. LastOwn(k, t.item) => LastOwn(k, t.item)'
  BY <1>4 DEF LastOwn
<1> QED BY <1>0, <1>4, <1>5, <1>8, <1>9 DEF Spoken

LEMMA FinishedHears ==
  ASSUME Typed, Typed', phase' = "running", Held,
         NEW k \in live, NEW e \in Event, e.kind = "finished", ProcessFinished(k),
         ~IsQwen(turn[k].mode), ~turn[k].delayed,
         Book(k, turn[k], doc), Ends(k), Spoken(k), Taken(k, e)
  PROVE  TranscriptOf(k)' = up[k].heard
<1>k. k \in Turn
  BY DEF Typed, TypeOK
<1>0. PICK t \in TurnRecord : t = turn[k]
  BY <1>k DEF Typed, TypeOK
<1>1. ~Reject
  BY DEF Reject, End
<1>2. SentenceBook(k, t, doc) /\ t.committed
  BY <1>0, <1>1 DEF Book, ProcessFinished, FinishedEarly
<1>3. t.item # None /\ t.item \in Uid /\ doc[<<k, t.item>>].st = "committed"
  BY <1>0, <1>2 DEF SentenceBook, TurnRecord
<1>4. PICK i, x : i = <<k, t.item>> /\ x = t.text
  OBVIOUS
<1>5. i \in Item /\ x \in Text /\ doc[i].transcript = <<>>
  BY <1>k, <1>3, <1>4 DEF Held, Item, TurnRecord
<1>6. commits' = commits /\ doc' = Completed(doc, i, x)
  BY <1>0, <1>1, <1>3, <1>4 DEF ProcessFinished
<1>7. doc'[i].transcript = x /\ \A j \in Item : j # i => doc'[j] = doc[j]
  <2>1. doc \in DocType
    BY DEF Typed, TypeOK, DocType
  <2> QED BY <1>5, <1>6, <2>1, CompletedAt
<1>8. LastOwn(k, t.item) /\ Cat(Said(k), Coming(k)) = up[k].heard
  BY <1>0, <1>2 DEF Spoken
<1>9. TranscriptOf(k)' = Cat(TranscriptOf(k), doc'[i].transcript)
  BY <1>4, <1>5, <1>6, <1>7, <1>8, WordsSet
<1>10. TranscriptOf(k)' = Said(k)
  BY <1>0, <1>4, <1>7, <1>9 DEF Said
<1>11. Coming(k) = <<>>
  <2>1. \A f \in Pending(k)' : Earlier(k, e, f)
    BY DEF Taken, Pops, PopsTo, Pending, Earlier
  <2>2. Pending(k)' = {}
    BY <2>1 DEF Ends, EndKind
  <2>3. Ahead(k)' \in Seq(Event) /\ inbox' \in Seq(Entry)
    BY <1>k DEF Ahead, Typed, TypeOK, TurnRecord, Entry
  <2>4. PendingIn(k, Ahead(k)', inbox') = {}
    BY <2>2 DEF Pending
  <2>5. SpeechIn(Ahead(k)') = <<>> /\ SpeechOf(k, inbox') = <<>>
    BY <2>3, <2>4, NothingComing
  <2>6. <<>> \in Text /\ Speech(e) = <<>>
    BY EmptyFirst DEF Speech, Text
  <2>7. Coming(k)' = Cat(<<>>, <<>>)
    BY <2>5 DEF Coming
  <2> QED BY <2>6, <2>7, CatEmpty DEF Taken
<1>12. Said(k) \in Text
  BY <1>k, SaidTyped
<1> QED BY <1>8, <1>10, <1>11, <1>12, CatEmpty

-----------------------------------------------------------------------------
(* What is published, and what was heard, after a step.                    *)

AllHear == \A j \in Turn : Heard(j) /\ Ends(j)

\* What a step does to the events of turn j when it takes none of them.
Waits(j) == Shrinks(j) \/ Stays(j) \/ \E g, x, m : Merges(j, g, x, m) /\ Merged(g, x, m)

\* A step that leaves the turns alone.
LEMMA CalmHears ==
  ASSUME AllHear, UNCHANGED <<live, commits, doc>>,
         \A j \in Turn : /\ SameTurn(j) /\ SameTask(j) /\ Waits(j)
                         /\ up'[j].open = up[j].open /\ up'[j].finishing = up[j].finishing
                         /\ j \in live => Coming(j)' = Coming(j)
  PROVE  AllHear'
<1>1. ASSUME NEW j \in Turn PROVE Heard(j)' /\ Ends(j)'
  <2>1. Heard(j) /\ Ends(j) /\ SameLines(j)
    BY QuietLines DEF AllHear
  <2>2. Ends(j)'
    BY <2>1, EndsKept DEF Waits
  <2> QED BY <2>1, <2>2, HeardKept
<1> QED BY <1>1 DEF AllHear

LEMMA ForgetTask ==
  ASSUME Typed, NEW k \in Turn, Forget(k), NEW j \in Turn
  PROVE  /\ SameTask(j) /\ up'[j].finishing = up[j].finishing /\ ~up'[k].open
         /\ j # k => up'[j] = up[j] /\ turn'[j] = turn[j]
BY DEF Forget, SameTask, Typed, TypeOK, TaskRecord

LEMMA ProcessHears ==
  ASSUME Typed, Typed', phase = "running", phase' = "running", RunInv, Held, AllHear,
         NEW k \in live, NEW e \in Event, Process(k, e), ~turn[k].delayed, Taken(k, e),
         \A j \in Turn \ {k} : Stays(j) /\ turn'[j] = turn[j] /\ Coming(j)' = Coming(j)
  PROVE  AllHear'
<1>k. k \in Turn
  BY DEF Typed, TypeOK
<1>1. Booked(k)
  BY <1>k, ProcessBooked DEF RunInv, Kept, Taken
<1>2. Effect(k)
  BY ProcessEffect DEF Typed
<1>3. TellsOf(k)
  <2>1. commits' = commits \/ \E i \in Item : i[1] = k /\ commits' = Append(commits, i)
    BY <1>2 DEF Effect
  <2> QED BY <1>1, <2>1 DEF TellsOf, Announces, Booked
<1>4. \/ UNCHANGED <<live, up>>
      \/ Forget(k) /\ e.kind = "finished" /\ ProcessFinished(k)
  BY ProcessGoes
<1>5. \A j \in Turn : SameTask(j) /\ up'[j].finishing = up[j].finishing
  <2>1. CASE up' = up
    BY <2>1 DEF SameTask
  <2>2. CASE Forget(k)
    BY <1>k, <2>2, ForgetTask
  <2> QED BY <1>4, <2>1, <2>2
<1>6. ASSUME NEW j \in Turn, j # k PROVE Heard(j)' /\ Ends(j)'
  <2>1. Heard(j) /\ Ends(j) /\ SameLines(j)
    BY <1>3, <1>6, OthersLines DEF AllHear
  <2>2. up'[j] = up[j] /\ live' \cap {j} = live \cap {j}
    BY <1>k, <1>4, <1>6, ForgetTask DEF Forget
  <2>3. SameTurn(j) /\ Coming(j)' = Coming(j) /\ Stays(j)
    BY <1>6 DEF SameTurn
  <2>4. Ends(j)'
    BY <1>5, <2>1, <2>3, EndsKept
  <2> QED BY <1>5, <2>1, <2>2, <2>3, <2>4, HeardKept
<1>7. Ends(k)'
  <2>1. Shrinks(k)
    BY StaysShrinks DEF Taken
  <2> QED BY <1>k, <1>5, <2>1, EndsKept DEF AllHear
<1>8. Alive(k) /\ Book(k, turn[k], doc)
  BY <1>k DEF AllHear, Heard, RunInv, Kept
<1>9. CASE UNCHANGED <<live, up>>
  <2>1. turn'[k].mode = turn[k].mode
    BY <1>2, <1>9 DEF Effect, SameControl
  <2>2. ASSUME ~IsQwen(turn[k].mode) PROVE Spoken(k)'
    <3>1. ~ProcessErr(k) /\ ~ProcessFinished(k)
      BY <1>9 DEF ProcessErr, ProcessFinished, Reject, End, Forget
    <3>2. /\ e.kind \in SentenceKind
          /\ \/ turn[k].mode = "sentVad" /\ ~turn[k].committed /\ VadSentence(k, e)
             \/ ~(turn[k].mode = "sentVad" /\ ~turn[k].committed) /\ TurnSentence(k, e)
      BY <2>2, <3>1 DEF Process
    <3>3. Spoken(k)
      BY <1>8, <2>2 DEF Alive
    <3> QED BY <1>1, <1>8, <3>2, <3>3, VadHears, TurnHears
  <2>3. Alive(k)'
    BY <1>8, <1>9, <2>1, <2>2 DEF Alive
  <2>4. Heard(k)'
    BY <1>9, <2>3 DEF Heard
  <2> QED BY <1>6, <1>7, <2>4 DEF AllHear
<1>10. CASE Forget(k) /\ e.kind = "finished" /\ ProcessFinished(k)
  <2>1. k \notin live' /\ ~up'[k].open
    BY <1>k, <1>10, ForgetTask DEF Forget
  <2>2. ASSUME ~up[k].qwen PROVE TranscriptOf(k)' = up[k].heard
    <3>1. ~IsQwen(turn[k].mode) /\ Spoken(k) /\ Ends(k)
      BY <1>k, <1>8, <2>2 DEF Alive, AllHear
    <3> QED BY <1>8, <1>10, <3>1, FinishedHears
  <2>3. Gone(k)'
    BY <1>k, <1>5, <2>1, <2>2 DEF Gone, SameTask
  <2>4. Heard(k)'
    BY <2>1, <2>3 DEF Heard
  <2> QED BY <1>6, <1>7, <2>4 DEF AllHear
<1> QED BY <1>4, <1>9, <1>10

LEMMA HoldSame ==
  ASSUME Typed, NEW k \in Turn, NEW e, Hold(k, e)
  PROVE  SameTurn(k)
<1>1. turn \in [Turn -> TurnRecord] /\ turn[k] \in TurnRecord
  BY DEF Typed, TypeOK
<1>2. turn' = turn \/ \E q, b : turn' = [turn EXCEPT ![k].queued = q, ![k].bytes = b]
  BY DEF Hold, Reject
<1>3. ASSUME NEW q, NEW b, turn' = [turn EXCEPT ![k].queued = q, ![k].bytes = b]
      PROVE  SameTurn(k)
  <2>1. turn'[k] = [turn[k] EXCEPT !.queued = q, !.bytes = b]
    BY <1>1, <1>3
  <2> QED BY <1>1, <2>1 DEF SameTurn, TurnRecord
<1> QED BY <1>2, <1>3 DEF SameTurn

LEMMA UpstreamHears ==
  ASSUME Typed, Typed', phase' = "running", OrderInv, RunInv, Held, AllHear, Upstream
  PROVE  AllHear'
<1>0. phase = "running" /\ pc = "select" /\ ReplayInv
  BY DEF Upstream, RunInv
<1>1. PICK k, e : k = Head(inbox).key /\ e = Head(inbox).event
  OBVIOUS
<1>2. /\ k \in Turn /\ e \in Event
      /\ \A j \in Turn \ {k} : Stays(j) /\ turn'[j] = turn[j]
      /\ \/ k \notin live /\ Ignore /\ Shrinks(k)
         \/ /\ k \in live /\ Blocked(k) /\ Hold(k, e)
            /\ Stays(k) \/ \E g, m : Merges(k, g, e, m) /\ Merged(g, e, m)
         \/ k \in live /\ ~Blocked(k) /\ Process(k, e) /\ Pops(k, e)
  BY <1>0, <1>1, UpstreamMoves
<1>3. /\ \A j \in Turn \ {k} : Coming(j)' = Coming(j)
      /\ k \in live /\ Blocked(k) => Coming(k)' = Coming(k)
      /\ k \in live /\ ~Blocked(k) => Coming(k) = Cat(Speech(e), Coming(k)')
  BY <1>0, <1>1, UpstreamComes
<1>4. CASE k \notin live /\ Ignore /\ Shrinks(k)
  <2>1. UNCHANGED <<live, turn, up, commits, doc>>
    BY <1>4 DEF Ignore
  <2>2. \A j \in Turn : Waits(j) /\ (j \in live => Coming(j)' = Coming(j))
    BY <1>2, <1>3, <1>4 DEF Waits
  <2> QED BY <2>1, <2>2, CalmHears DEF SameTurn, SameTask
<1>5. CASE /\ k \in live /\ Blocked(k) /\ Hold(k, e)
           /\ Stays(k) \/ \E g, m : Merges(k, g, e, m) /\ Merged(g, e, m)
  <2>1. UNCHANGED <<live, up, commits, doc>>
    BY <1>5 DEF Hold, Reject, client
  <2>2. \A j \in Turn : Waits(j) /\ Coming(j)' = Coming(j)
    BY <1>2, <1>3, <1>5 DEF Waits
  <2>3. SameTurn(k)
    BY <1>2, <1>5, HoldSame
  <2>4. \A j \in Turn : SameTurn(j)
    BY <1>2, <2>3 DEF SameTurn
  <2> QED BY <2>1, <2>2, <2>4, CalmHears DEF SameTask
<1>6. CASE k \in live /\ ~Blocked(k) /\ Process(k, e) /\ Pops(k, e)
  <2>1. ~turn[k].delayed
    BY <1>0, <1>6, NothingWaits
  <2> QED BY <1>0, <1>2, <1>3, <1>6, <2>1, ProcessHears DEF Taken
<1> QED BY <1>2, <1>4, <1>5, <1>6

LEMMA ReplayHears ==
  ASSUME Typed, Typed', phase' = "running", RunInv, Held, AllHear, Replay
  PROVE  AllHear'
<1>0. phase = "running" /\ ReplayInv /\ live \subseteq Turn
  BY DEF Replay, RunInv, Typed, TypeOK
<1>1. PICK k, e : k = cur /\ e = Head(batch)
  OBVIOUS
<1>2. /\ k \in Turn /\ e \in Event /\ Process(k, e) /\ Pops(k, e)
      /\ \A j \in Turn \ {k} : Stays(j) /\ turn'[j] = turn[j]
  BY <1>0, <1>1, ReplayMoves
<1>3. /\ Coming(k) = Cat(Speech(e), Coming(k)')
      /\ \A j \in Turn \ {k} : Coming(j)' = Coming(j)
  BY <1>0, <1>1, ReplayComes
<1>4. CASE k \in live
  <2>1. ~turn[k].delayed
    BY <1>0, <1>1, <1>2, ConstTypes DEF ReplayInv
  <2> QED BY <1>0, <1>2, <1>3, <1>4, <2>1, ProcessHears DEF Taken
<1>5. CASE k \notin live
  <2>1. UNCHANGED <<live, turn, up, commits, doc>>
    BY <1>2, <1>5 DEF Process, Ignore
  <2>2. Shrinks(k)
    BY <1>2, StaysShrinks
  <2>3. \A j \in Turn : Waits(j) /\ (j \in live => Coming(j)' = Coming(j))
    BY <1>2, <1>3, <1>5, <2>2 DEF Waits
  <2> QED BY <2>1, <2>3, CalmHears DEF SameTurn, SameTask
<1> QED BY <1>4, <1>5

\* A step of turn k, which stays.
LEMMA OneHears ==
  ASSUME Typed, Typed', AllHear, NEW k \in Turn, live' = live, TellsOf(k),
         \A j \in Turn : SameTask(j) /\ Waits(j),
         \A j \in Turn \ {k} : turn'[j] = turn[j] /\ up'[j] = up[j] /\ Coming(j)' = Coming(j),
         Heard(k)'
  PROVE  AllHear'
<1>1. ASSUME NEW j \in Turn PROVE Ends(j)'
  BY EndsKept DEF AllHear, Waits
<1>2. ASSUME NEW j \in Turn, j # k PROVE Heard(j)'
  <2>1. SameLines(j) /\ Heard(j)
    BY <1>2, OthersLines DEF AllHear
  <2> QED BY <1>2, <2>1, HeardKept DEF SameTurn
<1> QED BY <1>1, <1>2 DEF AllHear

\* The commit of a turn publishes its text with its last item.
LEMMA CommitLines ==
  ASSUME Typed, Typed', Held, NEW k, NEW u, NEW x, x \in Text, CommitItem(<<k, u>>, x)
  PROVE  /\ TellsOf(k)
         /\ doc[<<k, u>>].st = "none" => TranscriptOf(k)' = TranscriptOf(k) /\ LastOwn(k, u)'
<1>1. PICK i : i = <<k, u>>
  OBVIOUS
<1>2. Announces(i) /\ SameWords(doc, doc') /\ i \in Item /\ i[1] = k
  BY <1>1, CommitWords DEF Announces
<1>3. doc \in DocType /\ Added(doc, i) \in DocType
  BY <1>2, DocTypes DEF Typed, TypeOK, DocType
<1>4. \A j \in Item : j # i => doc'[j] = doc[j]
  <2> DEFINE a == Added(doc, i)
  <2>1. \A j \in Item : j # i => a[j] = doc[j]
    BY <1>2, <1>3, AddedAt
  <2> HIDE DEF a
  <2>2. \A j \in Item : j # i => Delta(a, i, x)[j] = a[j]
    BY <1>2, <1>3, DeltaAt DEF a
  <2>3. doc' = Delta(a, i, x)
    BY <1>1 DEF CommitItem, a
  <2> QED BY <2>1, <2>2, <2>3
<1>5. TellsOf(k)
  BY <1>2, <1>4 DEF TellsOf
<1>6. ASSUME doc[i].st = "none" PROVE TranscriptOf(k)' = TranscriptOf(k) /\ LastOwn(k, u)'
  <2>1. ~Announced(i) /\ doc[i].transcript = <<>>
    BY <1>2, <1>6 DEF Held
  <2>2. TranscriptOf(k)' = TranscriptOf(k)
    BY <1>2, <2>1, WordsKept DEF SameWords
  <2>3. LastOwn(k, u)'
    BY <1>1, <1>2, <2>1, LastOwnNew
  <2> QED BY <2>2, <2>3
<1> QED BY <1>1, <1>5, <1>6

LEMMA DrainHears ==
  ASSUME Typed, Typed', RunInv, Held, AllHear, DrainNext
  PROVE  AllHear'
<1>1. PICK k \in Ready :
        /\ IF turn[k].delayed
           THEN CommitItem(<<k, turn[k].item>>, IF IsQwen(turn[k].mode) THEN <<>> ELSE turn[k].text)
           ELSE UNCHANGED client
        /\ turn' = [turn EXCEPT ![k] = Released(@)]
  BY DEF DrainNext
<1>2. k \in live /\ k \in Turn /\ UNCHANGED <<live, up>>
  BY DEF Ready, Typed, TypeOK, DrainNext
<1>3. \A j \in Turn : SameTask(j) /\ Waits(j) /\ Coming(j)' = Coming(j)
  BY <1>2, DrainMoves, DrainComes DEF RunInv, SameTask, Waits
<1>4. PICK t \in TurnRecord : t = turn[k]
  BY <1>2 DEF Typed, TypeOK
<1>5. \A j \in Turn \ {k} : turn'[j] = turn[j]
  BY <1>1, <1>2, ReleasedKept
<1>6. /\ turn'[k].mode = t.mode /\ turn'[k].committed = t.committed
      /\ turn'[k].item = t.item /\ turn'[k].text = t.text /\ ~turn'[k].delayed
  <2>1. turn'[k] = Released(t)
    BY <1>1, <1>2, <1>4 DEF Typed, TypeOK
  <2> QED BY <2>1 DEF Released, TurnRecord
<1>7. Alive(k) /\ Book(k, t, doc)
  BY <1>2, <1>4 DEF AllHear, Heard, RunInv, Kept
<1>8. TellsOf(k) /\ (~IsQwen(t.mode) => TranscriptOf(k)' = TranscriptOf(k) /\
                        (t.committed => LastOwn(k, t.item)'))
  <2>1. CASE t.delayed
    <3>1. PICK x : x = IF IsQwen(turn[k].mode) THEN <<>> ELSE turn[k].text
      OBVIOUS
    <3>2. x \in Text /\ CommitItem(<<k, t.item>>, x)
      BY <1>1, <1>4, <2>1, <3>1, EmptyFirst DEF TurnRecord, Text
    <3>3. ~IsQwen(t.mode) => doc[<<k, t.item>>].st = "none"
      <4>1. t.committed
        BY <1>2, <1>4, <2>1 DEF Typed, WellFormed
      <4> QED BY <1>7, <2>1, <4>1 DEF Book, SentenceBook
    <3> QED BY <3>2, <3>3, CommitLines
  <2>2. CASE ~t.delayed
    <3>1. UNCHANGED <<commits, doc>>
      BY <1>1, <1>4, <2>2 DEF client
    <3>2. SameLines(k) /\ TellsOf(k)
      BY <3>1, QuietLines DEF TellsOf
    <3>3. ~IsQwen(t.mode) /\ t.committed => LastOwn(k, t.item)
      BY <1>4, <1>7, <2>2 DEF Alive, Spoken
    <3> QED BY <3>2, <3>3 DEF SameLines
  <2> QED BY <2>1, <2>2
<1>9. ASSUME ~IsQwen(t.mode) PROVE Spoken(k)'
  <2>1. Spoken(k)
    BY <1>4, <1>7, <1>9 DEF Alive
  <2>2. Said(k)' = Said(k)
    BY <1>4, <1>6, <1>8, <1>9 DEF Said
  <2> QED BY <1>2, <1>3, <1>4, <1>6, <1>8, <1>9, <2>1, <2>2 DEF Spoken
<1>10. Heard(k)'
  BY <1>2, <1>4, <1>6, <1>7, <1>9 DEF Heard, Alive
<1> QED BY <1>2, <1>3, <1>5, <1>8, <1>10, OneHears

LEMMA ClientHears ==
  ASSUME Typed, RunInv, Serving, Served, NEW j \in Turn, turn'[j].queued = turn[j].queued
  PROVE  Waits(j) /\ Coming(j)' = Coming(j)
BY ClientTrafficMoves, ClientComes DEF RunInv, Waits

LEMMA FinishTask ==
  ASSUME Typed, NEW k \in Turn, Finish(k), NEW j \in Turn
  PROVE  SameTask(j) /\ up'[j].open = up[j].open /\ (j # k => up'[j] = up[j])
<1>1. up \in [Turn -> TaskRecord] /\ up' = [up EXCEPT ![k].finishing = TRUE]
  BY DEF Finish, Typed, TypeOK
<1>2. up'[j] = IF j = k THEN [up[j] EXCEPT !.finishing = TRUE] ELSE up[j]
  BY <1>1
<1> QED BY <1>1, <1>2 DEF SameTask, TaskRecord

LEMMA CommitHears ==
  ASSUME Typed, Typed', OrderInv, RunInv, Held, AllHear, Commit
  PROVE  AllHear'
<1>1. PICK k : k = active
  OBVIOUS
<1>2. /\ k \in live /\ k \in Turn /\ Serving /\ Served /\ phase = "running" /\ live' = live
      /\ turn' = [turn EXCEPT ![k].committed = TRUE, ![k].item = CommitName(k),
                              ![k].delayed = Delays(k)]
      /\ Delays(k) \/ turn[k].mode = "qwenVad" => UNCHANGED client
      /\ ~(Delays(k) \/ turn[k].mode = "qwenVad") => CommitItem(<<k, CommitName(k)>>, turn[k].text)
      /\ Finish(k)
  BY <1>1, ActiveTurn DEF Commit, Committable, Serving
<1>3. PICK t \in TurnRecord : t = turn[k]
  BY <1>2 DEF Typed, TypeOK
<1>4. PICK n, d : n = CommitName(k) /\ d = Delays(k)
  OBVIOUS
<1>5. /\ turn'[k].mode = t.mode /\ turn'[k].committed /\ turn'[k].item = n
      /\ turn'[k].text = t.text /\ turn'[k].delayed = d /\ turn'[k].queued = t.queued
  BY <1>2, <1>3, <1>4 DEF Typed, TypeOK, TurnRecord
<1>6. ~t.committed
  BY <1>1, <1>2, <1>3, ConstTypes DEF OrderInv, OneBuffer
<1>7. \A j \in Turn \ {k} : turn'[j] = turn[j]
  BY <1>2 DEF Typed, TypeOK
<1>8. \A j \in Turn : Waits(j) /\ Coming(j)' = Coming(j)
  <2>1. \A j \in Turn : turn'[j].queued = turn[j].queued
    BY <1>3, <1>5, <1>7
  <2> QED BY <1>2, <2>1, ClientHears
<1>9. \A j \in Turn : SameTask(j) /\ (j # k => up'[j] = up[j])
  BY <1>2, FinishTask
<1>10. Alive(k) /\ Book(k, t, doc)
  BY <1>2, <1>3 DEF AllHear, Heard, RunInv, Kept
<1>11. TellsOf(k) /\ (~IsQwen(t.mode) => TranscriptOf(k)' = TranscriptOf(k) /\ (~d => LastOwn(k, n)'))
  <2>1. CASE d \/ t.mode = "qwenVad"
    <3>1. UNCHANGED <<commits, doc>>
      BY <1>2, <1>3, <1>4, <2>1 DEF client
    <3>2. SameLines(k) /\ TellsOf(k)
      BY <3>1, QuietLines DEF TellsOf
    <3> QED BY <2>1, <3>2 DEF SameLines, IsQwen
  <2>2. CASE ~(d \/ t.mode = "qwenVad")
    <3>1. t.text \in Text /\ CommitItem(<<k, n>>, t.text)
      BY <1>2, <1>3, <1>4, <2>2 DEF TurnRecord
    <3>2. ~IsQwen(t.mode) => doc[<<k, n>>].st = "none"
      BY <1>3, <1>4, <1>6, <1>10, <2>2 DEF Book, SentenceBook, CommitName
    <3> QED BY <3>1, <3>2, CommitLines
  <2> QED BY <2>1, <2>2
<1>12. ASSUME ~IsQwen(t.mode) PROVE Spoken(k)'
  <2>1. Spoken(k)
    BY <1>3, <1>10, <1>12 DEF Alive
  <2>2. Said(k)' = Said(k)
    BY <1>3, <1>5, <1>11, <1>12 DEF Said
  <2> QED BY <1>2, <1>5, <1>8, <1>9, <1>11, <1>12, <2>1, <2>2 DEF Spoken, SameTask
<1>13. Heard(k)'
  BY <1>2, <1>3, <1>5, <1>9, <1>10, <1>12 DEF Heard, Alive, SameTask
<1> QED BY <1>2, <1>7, <1>8, <1>9, <1>11, <1>13, OneHears

LEMMA ClearHears ==
  ASSUME Typed, Typed', OrderInv, RunInv, AllHear, Clear
  PROVE  AllHear'
<1>1. PICK k : k = active
  OBVIOUS
<1>2. Serving /\ Served /\ phase = "running" /\ UNCHANGED <<doc, commits>>
  BY DEF Clear, Serving, client
<1>t. turn \in [Turn -> TurnRecord] /\ up \in [Turn -> TaskRecord]
  BY DEF Typed, TypeOK
<1>3. CASE UNCHANGED <<live, turn, up>>
  <2>1. \A j \in Turn : Waits(j) /\ Coming(j)' = Coming(j)
    BY <1>2, <1>3, ClientHears
  <2> QED BY <1>2, <1>3, <2>1, CalmHears DEF SameTurn, SameTask
<1>4. CASE /\ k \in live /\ IsQwen(turn[k].mode) /\ live' = live
           /\ turn' = [turn EXCEPT ![k].cleared = TRUE, ![k].committed = TRUE]
           /\ Finish(k)
  <2>0. k \in Turn
    BY <1>4 DEF Typed, TypeOK
  <2>1. \A j \in Turn : /\ turn'[j].queued = turn[j].queued /\ turn'[j].mode = turn[j].mode
                        /\ j # k => turn'[j] = turn[j]
    BY <1>t, <1>4, <2>0 DEF TurnRecord
  <2>2. \A j \in Turn : Waits(j) /\ Coming(j)' = Coming(j)
    BY <1>2, <2>1, ClientHears
  <2>3. \A j \in Turn : SameTask(j) /\ (j # k => up'[j] = up[j])
    BY <1>4, <2>0, FinishTask
  <2>4. TellsOf(k)
    BY <1>2 DEF TellsOf
  <2>5. Heard(k)'
    BY <1>4, <2>0, <2>1, <2>3 DEF AllHear, Heard, Alive, SameTask
  <2> QED BY <1>4, <2>0, <2>1, <2>2, <2>3, <2>4, <2>5, OneHears
<1>5. CASE k \in live /\ Forget(k)
  <2>0. k \in Turn /\ ~up[k].finishing
    BY <1>1, <1>2, <1>5, ConstTypes DEF Typed, TypeOK, OrderInv, OneBuffer
  <2>1. /\ \A j \in Turn : SameTask(j) /\ up'[j].finishing = up[j].finishing
        /\ ~up'[k].open
        /\ \A j \in Turn \ {k} : up'[j] = up[j] /\ turn'[j] = turn[j]
    BY <1>5, <2>0, ForgetTask
  <2>2. Heard(k)'
    BY <1>5, <2>0, <2>1 DEF Forget, Heard, Gone
  <2>3. Waits(k)
    BY <1>2, <1>5, <2>0, ForgetQueue, ClientTrafficMoves DEF RunInv, Waits
  <2>4. ASSUME NEW j \in Turn, j # k PROVE Heard(j)' /\ Waits(j)
    <3>1. Waits(j) /\ Coming(j)' = Coming(j)
      BY <1>2, <2>1, <2>4, ClientHears
    <3>2. SameLines(j) /\ SameTurn(j) /\ Heard(j)
      BY <1>2, <2>1, <2>4, QuietLines DEF SameTurn, AllHear
    <3>3. live' \cap {j} = live \cap {j}
      BY <1>5, <2>4 DEF Forget
    <3> QED BY <2>1, <2>4, <3>1, <3>2, <3>3, HeardKept
  <2>5. \A j \in Turn : Ends(j)'
    BY <2>1, <2>3, <2>4, EndsKept DEF AllHear, Waits
  <2> QED BY <2>2, <2>4, <2>5 DEF AllHear
<1> QED BY <1>1, <1>3, <1>4, <1>5 DEF Clear

\* Nothing was said of a turn that nothing was told of.
LEMMA NothingSaid ==
  ASSUME Typed, Typed', NEW k, \A i \in Item : i[1] = k => doc[i].transcript = <<>>
  PROVE  TranscriptOf(k) = <<>>
<1> DEFINE c == Lines(k, commits, doc)
<1>0. commits \in Seq(Item) /\ doc \in DocType /\ TranscriptOf(k) = FlattenSeq(c)
  BY TranscriptTyped
<1>1. /\ c \in Seq(Text) /\ Len(c) = Len(commits)
      /\ \A n \in 1 .. Len(commits) : c[n] = Line(k, commits[n], doc) /\ commits[n] \in Item
  BY <1>0, LinesTyped
<1>2. \A n \in 1 .. Len(c) : c[n] = <<>>
  BY <1>1 DEF Line
<1> HIDE DEF c
<1> QED BY <1>0, <1>1, <1>2, FlatSilent

LEMMA AppendFirstHears ==
  ASSUME Typed, Typed', phase' = "running", OrderInv, RunInv, Held, AllHear, AppendFirst
  PROVE  AllHear'
<1>1. Serving /\ Served /\ phase = "running" /\ UNCHANGED <<doc, commits>>
  BY DEF AppendFirst, Serving, client
<1>2. PICK k : k = turnOrder + 1
  OBVIOUS
<1>3. /\ turnOrder < MaxTurns /\ settings # "unset"
      /\ live' = live \cup {k}
      /\ turn' = [turn EXCEPT ![k] = [NewTurn(settings) EXCEPT !.samples = 1]]
      /\ up' = [up EXCEPT ![k].started = TRUE, ![k].open = TRUE, ![k].qwen = IsQwen(settings)]
  BY <1>2 DEF AppendFirst, End
<1>4. k \in Turn /\ k > turnOrder /\ k \notin live
  <2>1. turnOrder \in 0 .. MaxTurns
    BY DEF Typed, TypeOK
  <2>2. k \in Turn /\ k > turnOrder
    BY <1>2, <1>3, <2>1, ConstTypes DEF Turn
  <2> QED BY <1>1, <2>2 DEF OrderInv, Typed, TypeOK, Turn
<1>t. turn \in [Turn -> TurnRecord] /\ up \in [Turn -> TaskRecord]
  BY DEF Typed, TypeOK
<1>5. PICK r : r = turn'[k] /\ r = [NewTurn(settings) EXCEPT !.samples = 1]
  BY <1>3, <1>4, <1>t
<1>6. r.mode = settings /\ ~r.committed /\ r.text = <<>> /\ r.queued = <<>>
  BY <1>5 DEF NewTurn
<1>7. /\ up'[k].started /\ up'[k].qwen = IsQwen(settings)
      /\ up'[k].heard = up[k].heard /\ up'[k].over = up[k].over
  BY <1>3, <1>4, <1>t DEF TaskRecord
<1>8. \A j \in Turn \ {k} : turn'[j] = turn[j] /\ up'[j] = up[j] /\ live' \cap {j} = live \cap {j}
  BY <1>3, <1>4, <1>t
<1>9. turn[k].queued = <<>> /\ ~up[k].started
  BY <1>4 DEF RunInv, ReplayInv, Untouched
<1>10. \A j \in Turn : Stays(j) /\ Coming(j)' = Coming(j)
  <2>1. \A j \in Turn : turn'[j].queued = turn[j].queued
    BY <1>5, <1>6, <1>8, <1>9
  <2> QED BY <1>1, <2>1, ClientTrafficMoves, ClientComes DEF RunInv
<1>11. Pending(k) = {} /\ up[k].heard = <<>>
  BY <1>4, <1>9 DEF AllHear, Ends
<1>12. Ends(k)'
  <2>1. Pending(k)' = {}
    BY <1>4, <1>10, <1>11 DEF Stays, StaysAs, ShrinksTo, Pending
  <2>2. \A e, f : ~Earlier(k, e, f)'
    BY <2>1 DEF Earlier, EarlierIn, Pending, PendingIn
  <2> QED BY <1>7, <2>1, <2>2 DEF Ends
<1>13. Spoken(k)'
  <2>1. Coming(k) = <<>>
    <3>1. SpeechIn(Ahead(k)) = <<>> /\ SpeechOf(k, inbox) = <<>>
      BY <1>4, <1>11, ComingTyped, NothingComing DEF Pending
    <3>2. Coming(k) = Cat(<<>>, <<>>) /\ <<>> \in Text
      BY <3>1 DEF Coming, Text
    <3> QED BY <3>2, CatEmpty
  <2>2. TranscriptOf(k) = <<>>
    <3>1. \A u \in Uid : doc[<<k, u>>].st = "none"
      BY <1>1, <1>4, NotYetTold
    <3>2. \A i \in Item : i[1] = k => doc[i].transcript = <<>>
      BY <3>1 DEF Held, Item
    <3> QED BY <3>2, NothingSaid
  <2>3. TranscriptOf(k)' = <<>>
    BY <1>1, <2>2 DEF TranscriptOf
  <2>4. <<>> \in Text
    BY DEF Text
  <2>5. Cat(Said(k)', Coming(k)') = <<>>
    BY <1>4, <1>5, <1>6, <1>10, <2>1, <2>3, <2>4, CatEmpty DEF Said
  <2> QED BY <1>5, <1>6, <1>7, <1>11, <2>5 DEF Spoken
<1>14. Heard(k)'
  BY <1>3, <1>5, <1>6, <1>7, <1>13 DEF Heard, Alive
<1>15. ASSUME NEW j \in Turn, j # k PROVE Heard(j)' /\ Ends(j)'
  <2>1. SameLines(j) /\ SameTurn(j) /\ SameTask(j) /\ Heard(j) /\ Ends(j)
    BY <1>1, <1>8, <1>15, QuietLines DEF SameTurn, SameTask, AllHear
  <2>2. Ends(j)'
    BY <1>10, <2>1, EndsKept
  <2> QED BY <1>8, <1>10, <1>15, <2>1, <2>2, HeardKept
<1> QED BY <1>12, <1>14, <1>15 DEF AllHear

LEMMA QuietHears ==
  ASSUME Typed, RunInv, AllHear, Refused \/ SessionUpdate \/ AppendMore
  PROVE  AllHear'
<1>1. Serving /\ Served /\ UNCHANGED <<live, doc, commits, up>>
  BY DEF Refused, SessionUpdate, AppendMore, client
<1>2. \A j \in Turn : SameTurn(j) /\ turn'[j].queued = turn[j].queued
  <2>1. CASE turn' = turn
    BY <2>1 DEF SameTurn
  <2>2. CASE AppendMore
    BY <2>2, ZenonT(30) DEF AppendMore, SameTurn, Typed, TypeOK, TurnRecord
  <2> QED BY <2>1, <2>2 DEF Refused, SessionUpdate
<1>3. \A j \in Turn : Waits(j) /\ Coming(j)' = Coming(j)
  BY <1>1, <1>2, ClientHears
<1> QED BY <1>1, <1>2, <1>3, CalmHears DEF SameTask

-----------------------------------------------------------------------------
(* What a task sends, and the theorem.                                     *)

\* The task of turn k has sent event e, and heard its words.
Utters(k, e) ==
  /\ Forward(k, e)
  /\ \A j \in Turn \ {k} : up'[j] = up[j]
  /\ up'[k].started = up[k].started /\ up'[k].open = up[k].open
  /\ up'[k].finishing = up[k].finishing /\ up'[k].qwen = up[k].qwen
  /\ e.kind \in EndKind => up'[k].over
  /\ up'[k].heard = Cat(up[k].heard, Speech(e))
  /\ up[k].open \/ up'[k].heard = up[k].heard

LEMMA SilentUtters ==
  ASSUME Typed, NEW k \in Turn, NEW e, Forward(k, e), e.kind \notin EndKind \cup {"final"},
         \/ up' = up
         \/ \E u \in Ids : \E i : up' = [up EXCEPT ![k].items[u] = i]
  PROVE  Utters(k, e)
<1>t. up \in [Turn -> TaskRecord] /\ up[k] \in TaskRecord /\ up[k].heard \in Text
  BY DEF Typed, TypeOK, TaskRecord
<1>1. Cat(up[k].heard, Speech(e)) = up[k].heard
  BY <1>t, CatEmpty DEF Speech
<1> DEFINE Rest == /\ \A j \in Turn \ {k} : up'[j] = up[j]
                   /\ up'[k].started = up[k].started /\ up'[k].open = up[k].open
                   /\ up'[k].finishing = up[k].finishing /\ up'[k].qwen = up[k].qwen
                   /\ up'[k].heard = up[k].heard
<1>2. Rest
  <2>1. ASSUME NEW u \in Ids, NEW i, up' = [up EXCEPT ![k].items[u] = i]
        PROVE  Rest
    <3>1. /\ \A j \in Turn \ {k} : up'[j] = up[j]
          /\ up'[k] = [up[k] EXCEPT !.items[u] = i]
      BY <1>t, <2>1
    <3> QED BY <1>t, <3>1 DEF TaskRecord
  <2>2. CASE up' = up
    BY <2>2
  <2> QED BY <2>1, <2>2
<1> QED BY <1>1, <1>2 DEF Utters

LEMMA TaskUtters ==
  ASSUME Typed, NEW k \in Turn, Task(k)
  PROVE  \E e \in Event : Utters(k, e)
<1>t. /\ up \in [Turn -> TaskRecord] /\ up[k] \in TaskRecord
      /\ up[k].heard \in Text /\ up[k].items \in [Ids -> [len : Nat, done : BOOLEAN]]
  BY DEF Typed, TypeOK, TaskRecord
<1>x. <<>> \in Text /\ 0 \in Int
  BY DEF Text
<1>1. CASE UpQwen(k)
  <2> PICK u \in Ids : \/ UpStage(k, u)
                       \/ \E n \in 0 .. MaxText, kind \in {"delta", "completed"} : UpText(k, u, n, kind)
                       \/ UpFailed(k, u)
    BY <1>1 DEF UpQwen
  <2>1. CASE UpStage(k, u)
    <3>1. up' = up
      BY <2>1 DEF UpStage
    <3>2. PICK e \in Event : Forward(k, e) /\ e.kind \in {"started", "committed", "stopped"}
      <4>1. Times \subseteq Int
        BY BridgeAssumption
      <4>2. CASE \E kind \in {"started", "committed"} : Forward(k, Plain(kind, u))
        BY <4>2, EventsTyped DEF Plain, Ev
      <4>3. CASE \E t \in Times \ {-1} : Forward(k, Ev("stopped", u, t, <<>>, <<>>))
        BY <4>1, <4>3, <1>x, EventsTyped DEF Ev
      <4> QED BY <2>1, <4>2, <4>3 DEF UpStage
    <3>3. Utters(k, e)
      BY <3>1, <3>2, SilentUtters DEF EndKind
    <3> QED BY <3>3
  <2>2. ASSUME NEW n \in 0 .. MaxText, NEW kind \in {"delta", "completed"}, UpText(k, u, n, kind)
        PROVE  \E e \in Event : Utters(k, e)
    <3>1. PICK e : e = Ev(kind, u, 0, Chunks(up[k].items[u].len, n), Chunks(0, n))
      OBVIOUS
    <3>2. n \in Nat /\ n >= up[k].items[u].len /\ up[k].items[u].len \in Nat
      BY <1>t, <2>2, BridgeAssumption DEF UpText
    <3>3. Chunks(up[k].items[u].len, n) \in Text /\ Chunks(0, n) \in Text
      BY <3>2, ChunksTyped
    <3>4. e \in Event /\ e.kind \in {"delta", "completed"}
      BY <1>x, <3>1, <3>3, EventsTyped DEF Ev
    <3>5. Forward(k, e) /\ up' = [up EXCEPT ![k].items[u] = [len |-> n, done |-> kind = "completed"]]
      BY <2>2, <3>1 DEF UpText
    <3>6. Utters(k, e)
      BY <3>4, <3>5, SilentUtters DEF EndKind
    <3> QED BY <3>4, <3>6
  <2>3. CASE UpFailed(k, u)
    <3>1. PICK e : e = Plain("failed", u)
      OBVIOUS
    <3>2. e \in Event /\ e.kind = "failed" /\ Forward(k, e)
      BY <2>3, <3>1, EventsTyped DEF UpFailed, Plain, Ev
    <3>3. PICK i : i = [up[k].items[u] EXCEPT !.done = TRUE]
      OBVIOUS
    <3>4. up' = [up EXCEPT ![k].items[u] = i]
      BY <2>3, <3>3 DEF UpFailed
    <3>5. Utters(k, e)
      BY <3>2, <3>4, SilentUtters DEF EndKind
    <3> QED BY <3>2, <3>5
  <2> QED BY <2>1, <2>2, <2>3
<1>2. CASE UpSentence(k)
  <2> PICK u \in (up[k].lastFinal + 1) .. MaxIds :
         \/ /\ Forward(k, Plain("partial", u))
            /\ UNCHANGED up
         \/ \E t \in Times, x \in {<<>>, <<u>>} :
              /\ Forward(k, Ev("final", u, t, <<>>, x))
              /\ up' = [up EXCEPT ![k].lastFinal = u, ![k].heard = @ \o x]
    BY <1>2 DEF UpSentence
  <2>u. u \in Ids /\ u \in Nat
    BY <1>t, ConstTypes DEF Ids, TaskRecord
  <2>1. CASE Forward(k, Plain("partial", u)) /\ UNCHANGED up
    <3>1. PICK e : e = Plain("partial", u)
      OBVIOUS
    <3>2. e \in Event /\ e.kind = "partial"
      BY <2>u, <3>1, EventsTyped DEF Plain, Ev
    <3>3. Utters(k, e)
      BY <2>1, <3>1, <3>2, SilentUtters DEF EndKind
    <3> QED BY <3>2, <3>3
  <2>2. ASSUME NEW t \in Times, NEW x \in {<<>>, <<u>>}, Forward(k, Ev("final", u, t, <<>>, x)),
               up' = [up EXCEPT ![k].lastFinal = u, ![k].heard = @ \o x]
        PROVE  \E e \in Event : Utters(k, e)
    <3>1. x \in Text /\ t \in Int
      <4>1. <<u>> \in Text /\ <<>> \in Text
        BY <2>u DEF Text
      <4>2. Times \subseteq Int
        BY BridgeAssumption
      <4> QED BY <4>1, <4>2, <2>2
    <3>2. PICK e : e = Ev("final", u, t, <<>>, x)
      OBVIOUS
    <3>3. e \in Event /\ e.kind = "final" /\ Speech(e) = x
      BY <1>x, <2>u, <3>1, <3>2, EventsTyped DEF Ev, Speech
    <3>4. PICK h : h = up[k].heard \o x
      OBVIOUS
    <3>5. up' = [up EXCEPT ![k].lastFinal = u, ![k].heard = h]
      BY <2>2, <3>4
    <3>6. h = Cat(up[k].heard, Speech(e))
      BY <3>3, <3>4 DEF Cat
    <3>7. /\ \A j \in Turn \ {k} : up'[j] = up[j]
          /\ up'[k].started = up[k].started /\ up'[k].open = up[k].open
          /\ up'[k].finishing = up[k].finishing /\ up'[k].qwen = up[k].qwen
          /\ up'[k].heard = h
      BY <1>t, <3>5 DEF TaskRecord
    <3>8. Forward(k, e) /\ up[k].open
      BY <1>2, <2>2, <3>2 DEF UpSentence
    <3>9. Utters(k, e)
      BY <3>3, <3>6, <3>7, <3>8 DEF Utters, EndKind
    <3> QED BY <3>3, <3>9
  <2> QED BY <2>1, <2>2
<1>3. CASE UpFinished(k) \/ UpErr(k)
  <2>1. PICK e \in Event : Forward(k, e) /\ e.kind \in EndKind
    BY <1>3, EventsTyped DEF UpFinished, UpErr, Plain, Ev, EndKind
  <2>2. up' = [up EXCEPT ![k].over = TRUE]
    BY <1>3 DEF UpFinished, UpErr
  <2>3. /\ \A j \in Turn \ {k} : up'[j] = up[j]
        /\ up'[k].started = up[k].started /\ up'[k].open = up[k].open
        /\ up'[k].finishing = up[k].finishing /\ up'[k].qwen = up[k].qwen
        /\ up'[k].heard = up[k].heard /\ up'[k].over
    BY <1>t, <2>2 DEF TaskRecord
  <2>4. Cat(up[k].heard, Speech(e)) = up[k].heard
    BY <1>t, <2>1, CatEmpty DEF Speech, EndKind
  <2>5. Utters(k, e)
    BY <2>1, <2>3, <2>4 DEF Utters
  <2> QED BY <2>5
<1> QED BY <1>1, <1>2, <1>3 DEF Task

LEMMA TaskHears ==
  ASSUME Typed, Typed', AllHear, NEW k \in Turn, Task(k)
  PROVE  AllHear'
<1>1. PICK e \in Event : Utters(k, e)
  BY TaskUtters
<1>2. Forward(k, e) /\ up[k].started /\ ~up[k].over
  BY <1>1 DEF Utters, Forward
<1>3. /\ Grows(k, e) /\ \A j \in Turn \ {k} : Stays(j)
      /\ UNCHANGED <<live, turn, doc, commits>>
  BY <1>2, ForwardMoves
<1>4. Coming(k)' = Cat(Coming(k), Speech(e)) /\ \A j \in Turn \ {k} : Coming(j)' = Coming(j)
  BY <1>2, ForwardComes
<1>5. Heard(k) /\ Ends(k) /\ Ends(k)'
  BY <1>1, <1>2, <1>3, EndsSent DEF AllHear, Utters
<1>6. ASSUME NEW j \in Turn, j # k PROVE Heard(j)' /\ Ends(j)'
  <2>1. up'[j] = up[j] /\ Stays(j) /\ Heard(j) /\ Ends(j) /\ SameLines(j)
    BY <1>1, <1>3, <1>6, QuietLines DEF Utters, AllHear
  <2>2. SameTask(j) /\ SameTurn(j)
    BY <1>3, <2>1 DEF SameTask, SameTurn
  <2> QED BY <1>3, <1>4, <1>6, <2>1, <2>2, HeardKept, EndsKept
<1>7. TranscriptOf(k)' = TranscriptOf(k) /\ Said(k)' = Said(k)
  BY <1>3 DEF TranscriptOf, Said
<1>8. CASE k \notin live
  <2>1. ~up[k].open
    BY <1>5, <1>8 DEF Heard, Gone
  <2>2. Gone(k)'
    BY <1>1, <1>5, <1>7, <1>8, <2>1 DEF Heard, Gone, Utters
  <2>3. Heard(k)'
    BY <1>3, <1>8, <2>2 DEF Heard
  <2> QED BY <1>5, <1>6, <2>3 DEF AllHear
<1>9. CASE k \in live
  <2>1. Alive(k)
    BY <1>5, <1>9 DEF Heard
  <2>2. ASSUME Spoken(k) PROVE Spoken(k)'
    <3>1. Said(k) \in Text /\ Coming(k) \in Text /\ Speech(e) \in Text
      BY SaidTyped, SpeechTyped
    <3>2. Cat(Said(k)', Coming(k)') = Cat(Cat(Said(k), Coming(k)), Speech(e))
      BY <1>4, <1>7, <3>1, CatAssociative
    <3>3. Cat(Said(k)', Coming(k)') = up'[k].heard
      BY <1>1, <2>2, <3>2 DEF Spoken, Utters
    <3>4. LastOwn(k, turn[k].item)' <=> LastOwn(k, turn[k].item)
      BY <1>3 DEF LastOwn
    <3> QED BY <1>3, <2>2, <3>3, <3>4 DEF Spoken
  <2>3. Alive(k)'
    BY <1>1, <1>3, <2>1, <2>2 DEF Alive, Utters
  <2>4. Heard(k)'
    BY <1>3, <1>9, <2>3 DEF Heard
  <2> QED BY <1>5, <1>6, <2>4 DEF AllHear
<1> QED BY <1>8, <1>9

LEMMA StepHears ==
  ASSUME Typed, OrderInv, RunInv, Held, AllHear, phase = "running", phase' = "running",
         [Next]_vars
  PROVE  Held' /\ AllHear'
<1>1. Typed'
  BY StepTyped
<1>2. Held'
  BY <1>1, HeldKept
<1>3. CASE Terminated \/ Disconnect \/ UNCHANGED vars
  <2>1. UNCHANGED <<inbox, cur, batch, turn, up, live, commits, doc>>
    BY <1>3 DEF Terminated, Disconnect, End, vars
  <2>2. \A j \in Turn : Ahead(j)' = Ahead(j)
    BY <2>1 DEF Ahead
  <2>3. \A j \in Turn : Waits(j) /\ Coming(j)' = Coming(j)
    BY <2>1, <2>2, SameStays, SameComing DEF Waits
  <2>4. AllHear'
    BY <2>1, <2>3, CalmHears DEF SameTurn, SameTask
  <2> QED BY <1>2, <2>4
<1>4. CASE Loop
  BY <1>1, <1>2, <1>4, UpstreamHears, ReplayHears, DrainHears DEF Loop
<1>5. CASE Client
  BY <1>1, <1>2, <1>5, CommitHears, ClearHears, AppendFirstHears, QuietHears DEF Client
<1>6. ASSUME NEW k \in Turn, Task(k) PROVE Held' /\ AllHear'
  BY <1>1, <1>2, <1>6, TaskHears
<1> QED BY <1>3, <1>4, <1>5, <1>6 DEF Next

LEMMA InitHears == Init => Held /\ AllHear
<1> SUFFICES ASSUME Init PROVE Held /\ AllHear
  OBVIOUS
<1>1. \A i \in Item : doc[i].st = "none" /\ doc[i].transcript = <<>>
  BY DEF Init, NoDoc
<1>2. /\ live = {} /\ cur = 0 /\ batch = <<>> /\ inbox = <<>> /\ commits = <<>>
      /\ \A k \in Turn : turn[k].queued = <<>>
      /\ \A k \in Turn : /\ ~up[k].started /\ ~up[k].open /\ ~up[k].finishing /\ up[k].heard = <<>>
  BY DEF Init, NewTurn, NoTask
<1>3. Held
  <2>1. \A i \in Item : ~Announced(i)
    <3>1. Len(commits) = 0
      BY <1>2
    <3> QED BY <3>1 DEF Announced
  <2> QED BY <1>1, <2>1 DEF Held
<1>4. ASSUME NEW k \in Turn PROVE Heard(k) /\ Ends(k)
  <2>1. Ahead(k) = <<>>
    BY <1>2 DEF Ahead
  <2>2. \A s : s = <<>> => DOMAIN s = {}
    OBVIOUS
  <2>3. Pending(k) = {} /\ \A e, f : ~Earlier(k, e, f)
    BY <1>2, <2>1, <2>2 DEF Pending, PendingIn, Earlier, EarlierIn
  <2>4. Ends(k)
    BY <1>2, <2>3 DEF Ends
  <2>5. Heard(k)
    BY <1>2 DEF Heard, Gone
  <2> QED BY <2>4, <2>5
<1> QED BY <1>3, <1>4 DEF AllHear

\* A Fun-ASR or Paraformer turn that ended normally has published each final
\* sentence exactly once and in order: as an item of its own while the service
\* divides the audio (processUpstream), in the text of the commit, which may
\* wait for earlier turns (commit, delayedCommit), or after it.
THEOREM SentencesKept == Spec => []NoSentenceLost
<1> DEFINE Hears == phase = "running" => Held /\ AllHear
<1>1. Init => Hears
  BY InitHears
<1>2. IInv /\ DInv /\ Hears /\ [Next]_vars => Hears'
  <2> SUFFICES ASSUME IInv, DInv, Hears, [Next]_vars, phase' = "running" PROVE Held' /\ AllHear'
    OBVIOUS
  <2>1. phase = "running"
    BY Stopped
  <2> QED BY <2>1, StepHears DEF IInv, Typed, DInv
<1>3. Hears => NoSentenceLost
  BY DEF AllHear, Heard, Gone, NoSentenceLost
<1> QED BY <1>1, <1>2, <1>3, Invariance, DocInvariance, PTL DEF Spec

-----------------------------------------------------------------------------
(* A turn that waits has a turn to wait for, which ends.                   *)

\* The task of turn k has sent its end.
SendsEnd(k) ==
  /\ live' = live /\ up[k].started /\ up'[k].started
  /\ \E e : Grows(k, e) /\ e.kind \in EndKind

\* A step that is not the end of the task of turn k.
NoEnd(k) ==
  /\ up'[k].over = up[k].over /\ (up[k].started => up'[k].started)
  /\ k \in live' => k \in live \/ k > turnOrder

LEMMA SameEnd ==
  ASSUME NEW k, up' = up \/ SameTask(k), live' \subseteq live
  PROVE  NoEnd(k)
BY DEF NoEnd, SameTask

LEMMA EndOfLoop ==
  ASSUME Typed, OrderInv, ReplayInv, phase' = "running", Loop, NEW j \in Turn
  PROVE  NoEnd(j)
<1>1. ASSUME NEW k \in Turn, NEW e, Process(k, e) PROVE NoEnd(j)
  <2>1. CASE k \notin live
    BY <1>1, <2>1, SameEnd DEF Process, Ignore
  <2>2. CASE UNCHANGED <<live, up>>
    BY <2>2, SameEnd
  <2>3. CASE Forget(k)
    <3>1. SameTask(j)
      BY <2>3, ForgetTask
    <3> QED BY <2>3, <3>1, SameEnd DEF Forget
  <2> QED BY <1>1, <2>1, <2>2, <2>3, ProcessGoes
<1>2. CASE Upstream
  <2>1. PICK k, e : k = Head(inbox).key /\ e = Head(inbox).event
    OBVIOUS
  <2>2. /\ k \in Turn
        /\ Ignore \/ Hold(k, e) \/ Process(k, e)
    BY <1>2, <2>1, UpstreamMoves
  <2>3. CASE Ignore \/ Hold(k, e)
    BY <2>3, SameEnd DEF Ignore, Hold, Reject
  <2> QED BY <1>1, <2>2, <2>3
<1>3. CASE Replay
  <2>1. PICK k, e : k = cur /\ e = Head(batch)
    OBVIOUS
  <2>2. k \in Turn /\ Process(k, e)
    BY <1>3, <2>1, ReplayMoves
  <2> QED BY <1>1, <2>2
<1>4. CASE DrainNext
  BY <1>4, SameEnd DEF DrainNext
<1> QED BY <1>2, <1>3, <1>4 DEF Loop

LEMMA EndOfClient ==
  ASSUME Typed, phase' = "running", Client, NEW j \in Turn
  PROVE  NoEnd(j)
<1>1. CASE Refused \/ SessionUpdate \/ AppendMore
  BY <1>1, SameEnd DEF Refused, SessionUpdate, AppendMore
<1>2. CASE AppendFirst
  <2>1. PICK k : k = turnOrder + 1
    OBVIOUS
  <2>2. /\ live' = live \cup {k}
        /\ up' = [up EXCEPT ![k].started = TRUE, ![k].open = TRUE, ![k].qwen = IsQwen(settings)]
    BY <1>2, <2>1 DEF AppendFirst, End
  <2>3. up \in [Turn -> TaskRecord] /\ turnOrder \in Nat
    BY ConstTypes DEF Typed, TypeOK
  <2>4. up'[j].over = up[j].over /\ (up[j].started => up'[j].started)
    BY <2>2, <2>3 DEF TaskRecord
  <2>5. k > turnOrder
    BY <2>1, <2>3
  <2> QED BY <2>2, <2>4, <2>5 DEF NoEnd
<1>3. CASE Commit \/ Clear
  <2>1. PICK k : k = active
    OBVIOUS
  <2>2. /\ live' \subseteq live
        /\ up' = up \/ (k \in live /\ (Finish(k) \/ Forget(k)))
    BY <1>3, <2>1 DEF Commit, Committable, Clear, Forget
  <2>3. live \subseteq Turn
    BY DEF Typed, TypeOK
  <2> QED BY <2>2, <2>3, SameEnd, FinishTask, ForgetTask
<1> QED BY <1>1, <1>2, <1>3 DEF Client

LEMMA EndOfTask ==
  ASSUME Typed, NEW k \in Turn, Task(k), NEW j \in Turn
  PROVE  NoEnd(j) \/ SendsEnd(j)
<1>1. PICK e \in Event : Utters(k, e)
  BY TaskUtters
<1>2. Forward(k, e) /\ up[k].started /\ up'[k].started /\ live' = live
  BY <1>1 DEF Utters, Forward
<1>3. CASE j # k
  <2>1. up'[j] = up[j]
    BY <1>1, <1>3 DEF Utters
  <2> QED BY <1>2, <2>1 DEF NoEnd
<1>4. CASE j = k
  <2>1. CASE UpFinished(k) \/ UpErr(k)
    <3>1. PICK x : Forward(k, x) /\ x.kind \in EndKind
      BY <2>1 DEF UpFinished, UpErr, Plain, Ev, EndKind
    <3>2. Grows(k, x)
      BY <3>1, ForwardMoves
    <3> QED BY <1>2, <1>4, <3>1, <3>2 DEF SendsEnd
  <2>2. CASE UpQwen(k) \/ UpSentence(k)
    <3>1. up'[k].over = up[k].over
      <4>t. up \in [Turn -> TaskRecord]
        BY DEF Typed, TypeOK
      <4>1. \/ up' = up
            \/ \E u, i : up' = [up EXCEPT ![k].items[u] = i]
            \/ \E u : up' = [up EXCEPT ![k].items[u].done = TRUE]
            \/ \E u, x : up' = [up EXCEPT ![k].lastFinal = u, ![k].heard = x]
        <5>1. ASSUME UpQwen(k)
              PROVE  \/ up' = up
                     \/ \E u, i : up' = [up EXCEPT ![k].items[u] = i]
                     \/ \E u : up' = [up EXCEPT ![k].items[u].done = TRUE]
          <6>1. PICK u \in Ids :
                  \/ UpStage(k, u)
                  \/ \E n \in 0 .. MaxText, kind \in {"delta", "completed"} : UpText(k, u, n, kind)
                  \/ UpFailed(k, u)
            BY <5>1 DEF UpQwen
          <6>2. UpStage(k, u) => up' = up
            BY DEF UpStage
          <6>3. ASSUME NEW n, NEW kind, UpText(k, u, n, kind)
                PROVE  \E i : up' = [up EXCEPT ![k].items[u] = i]
            <7>1. PICK i : i = [len |-> n, done |-> kind = "completed"]
              OBVIOUS
            <7> QED BY <6>3, <7>1 DEF UpText
          <6>4. UpFailed(k, u) => up' = [up EXCEPT ![k].items[u].done = TRUE]
            BY DEF UpFailed
          <6> QED BY <6>1, <6>2, <6>3, <6>4
        <5>2. ASSUME UpSentence(k)
              PROVE  \/ up' = up
                     \/ \E u, x : up' = [up EXCEPT ![k].lastFinal = u, ![k].heard = x]
          <6>1. PICK u \in (up[k].lastFinal + 1) .. MaxIds :
                  \/ UNCHANGED up
                  \/ \E t \in Times, x \in {<<>>, <<u>>} :
                       up' = [up EXCEPT ![k].lastFinal = u, ![k].heard = @ \o x]
            BY <5>2 DEF UpSentence
          <6>2. ASSUME NEW x, up' = [up EXCEPT ![k].lastFinal = u, ![k].heard = @ \o x]
                PROVE  \E y : up' = [up EXCEPT ![k].lastFinal = u, ![k].heard = y]
            <7>1. PICK y : y = up[k].heard \o x
              OBVIOUS
            <7> QED BY <6>2, <7>1
          <6> QED BY <6>1, <6>2
        <5> QED BY <2>2, <5>1, <5>2
      <4>2. ASSUME NEW u, NEW i, up' = [up EXCEPT ![k].items[u] = i] PROVE up'[k].over = up[k].over
        BY <4>t, <4>2 DEF TaskRecord
      <4>3. ASSUME NEW u, up' = [up EXCEPT ![k].items[u].done = TRUE] PROVE up'[k].over = up[k].over
        BY <4>t, <4>3 DEF TaskRecord
      <4>4. ASSUME NEW u, NEW x, up' = [up EXCEPT ![k].lastFinal = u, ![k].heard = x]
            PROVE  up'[k].over = up[k].over
        BY <4>t, <4>4 DEF TaskRecord
      <4> QED BY <4>1, <4>2, <4>3, <4>4
    <3> QED BY <1>2, <1>4, <3>1 DEF NoEnd
  <2> QED BY <2>1, <2>2 DEF Task
<1> QED BY <1>3, <1>4

\* An end that is processed takes its turn with it, or ends the session.
LEMMA EndProcessed ==
  ASSUME phase' = "running", NEW k, NEW h, Process(k, h), h.kind \in EndKind
  PROVE  k \notin live'
BY DEF Process, Ignore, ProcessErr, ProcessFinished, Reject, End, Forget, EndKind,
       SentenceKind, ItemKind

LEMMA EndsStep ==
  ASSUME Typed, OrderInv, RunInv, EndsHeld, phase = "running", phase' = "running", [Next]_vars
  PROVE  EndsHeld'
<1> SUFFICES ASSUME NEW k \in Turn, up'[k].over
             PROVE  up'[k].started /\ (k \in live' => HasEnd(k)')
  BY DEF EndsHeld
<1>1. NoEnd(k) \/ SendsEnd(k)
  <2>1. CASE Disconnect \/ Terminated \/ UNCHANGED vars
    BY <2>1, SameEnd DEF Disconnect, Terminated, vars
  <2> QED BY <2>1, EndOfLoop, EndOfClient, EndOfTask DEF Next, RunInv
<1>2. CASE SendsEnd(k)
  <2>1. HasEnd(k)'
    BY <1>2 DEF SendsEnd, Grows, GrowsTo, HasEnd, Pending
  <2> QED BY <1>2, <2>1 DEF SendsEnd
<1>3. CASE NoEnd(k)
  <2>1. up[k].over /\ up[k].started /\ up'[k].started
    BY <1>3 DEF NoEnd, EndsHeld
  <2>2. ASSUME k \in live' PROVE HasEnd(k)'
    <3>1. k \in live /\ HasEnd(k)
      BY <1>3, <2>1, <2>2 DEF NoEnd, EndsHeld, RunInv, Untouched
    <3>2. PICK d \in Pending(k) : d.kind \in EndKind
      BY <3>1 DEF HasEnd
    <3>3. Traffic(k)
      BY StepTraffic DEF RunInv
    <3>4. CASE Stays(k)
      BY <3>2, <3>4 DEF Stays, StaysAs, HasEnd, Pending
    <3>5. ASSUME NEW x, Grows(k, x) PROVE HasEnd(k)'
      BY <3>2, <3>5 DEF Grows, GrowsTo, HasEnd, Pending
    <3>6. ASSUME NEW g, NEW x, NEW m, Merges(k, g, x, m), Merged(g, x, m) PROVE HasEnd(k)'
      <4>1. d # g /\ d # x
        BY <3>2, <3>6 DEF Merged, EndKind
      <4> QED BY <3>2, <3>6, <4>1 DEF Merges, MergesTo, HasEnd, Pending
    <3>7. ASSUME NEW h, Pops(k, h), Process(k, h) PROVE HasEnd(k)'
      <4>1. d # h
        BY <2>2, <3>2, <3>7, EndProcessed
      <4> QED BY <3>2, <3>7, <4>1 DEF Pops, PopsTo, HasEnd, Pending
    <3> QED BY <2>2, <3>3, <3>4, <3>5, <3>6, <3>7 DEF Traffic, Arrives
  <2> QED BY <2>1, <2>2
<1> QED BY <1>1, <1>2, <1>3

\* In select, what a turn that does not wait is still to be told of is in the
\* inbox.
LEMMA EndIsInInbox ==
  ASSUME Typed, RunInv, pc = "select", NEW k \in Turn, ~Waiting(k), HasEnd(k)
  PROVE  EndInInbox(k)
<1>1. Ahead(k) = <<>>
  BY NoBatch DEF RunInv, Waiting
<1>2. \A s : s = <<>> => DOMAIN s = {}
  OBVIOUS
<1>3. Pending(k) = {inbox[n].event : n \in {m \in DOMAIN inbox : inbox[m].key = k}}
  BY <1>1, <1>2 DEF Pending, PendingIn
<1> QED BY <1>3 DEF HasEnd, EndInInbox

\* Every turn whose commit or events are held back waits for a turn that ends:
\* the earliest one that blocks it is held back by none, has ended its input,
\* and its end is not behind anything but other events of the inbox
\* (orderBlocked, drainOrderedEvents, upstream), for any number of turns.
THEOREM WaitEnds == Spec => []WaitHasAnEnd
<1> DEFINE EndsRun == phase = "running" => EndsHeld
<1>1. Init => EndsRun
  BY DEF Init, NoTask, EndsHeld
<1>2. IInv /\ DInv /\ EndsRun /\ [Next]_vars => EndsRun'
  <2> SUFFICES ASSUME IInv, DInv, EndsRun, [Next]_vars, phase' = "running" PROVE EndsHeld'
    OBVIOUS
  <2>1. phase = "running"
    BY Stopped
  <2> QED BY <2>1, EndsStep DEF IInv, Typed, DInv
<1>3. IInv /\ DInv /\ EndsRun => WaitHasAnEnd
  <2> SUFFICES ASSUME IInv, DInv, EndsHeld, phase = "running", pc = "select",
                      NEW k \in live, Waiting(k)
               PROVE  \E j \in live : /\ j < k /\ ~Blocked(j) /\ ~Waiting(j)
                                      /\ up[j].finishing
                                      /\ up[j].over => EndInInbox(j)
    BY DEF WaitHasAnEnd
  <2>0. Typed /\ OneBuffer /\ Ready = {} /\ RunInv /\ live \subseteq Turn /\ Turn \subseteq Nat
    BY ConstTypes DEF IInv, Typed, TypeOK, OrderInv, NoneStranded, DInv
  <2> DEFINE T == {e \in live : /\ e < k /\ turn[e].mode = "qwenVad" /\ turn[e].committed
                                /\ ~turn[e].cleared}
  <2>1. T # {} /\ T \in SUBSET Nat
    BY <2>0 DEF Ready, Blocked
  <2>2. PICK j \in T : \A e \in T : j <= e
    BY <2>1, Least
  <2>3. ~Blocked(j)
    <3> SUFFICES ASSUME NEW e \in live, e < j, turn[e].mode = "qwenVad", turn[e].committed,
                        ~turn[e].cleared
                 PROVE  FALSE
      BY DEF Blocked
    <3>1. e \in Nat /\ j \in Nat /\ k \in Nat /\ j < k
      BY <2>0
    <3>2. e \in T
      BY <3>1
    <3> QED BY <2>2, <3>1, <3>2
  <2>4. j \in live /\ j \in Turn /\ j < k /\ ~Waiting(j)
    BY <2>0, <2>3 DEF Ready
  <2>5. up[j].finishing
    BY <2>0, <2>4, ConstTypes DEF OneBuffer
  <2>6. up[j].over => EndInInbox(j)
    BY <2>0, <2>4, EndIsInInbox DEF EndsHeld
  <2> QED BY <2>3, <2>4, <2>5, <2>6
<1> QED BY <1>1, <1>2, <1>3, Invariance, DocInvariance, PTL DEF Spec

=============================================================================
