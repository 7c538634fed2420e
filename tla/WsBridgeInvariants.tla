------------------------- MODULE WsBridgeInvariants -------------------------
(***************************************************************************)
(* What the proofs about WsBridge need to know of its states, beside the   *)
(* IInv of that module: where the events of a turn are, what the turn's    *)
(* record of an item says of what the client was told, how the texts and   *)
(* sentences that a task has sent are divided between the turn and the     *)
(* events that are still to come.  WsBridgeProofs shows them inductive.    *)
(***************************************************************************)
EXTENDS WsBridge

-----------------------------------------------------------------------------
(* Events that are still to be processed.                                  *)

PendingIn(k, a, b) ==
  {a[n] : n \in DOMAIN a} \cup {b[n].event : n \in {m \in DOMAIN b : b[m].key = k}}

\* Event e comes before event f.
EarlierIn(k, a, b, e, f) ==
  \/ \E m, n \in DOMAIN a : m < n /\ e = a[m] /\ f = a[n]
  \/ \E m \in DOMAIN a, n \in DOMAIN b : e = a[m] /\ b[n].key = k /\ f = b[n].event
  \/ \E m, n \in DOMAIN b : m < n /\ b[m].key = k /\ e = b[m].event
                                  /\ b[n].key = k /\ f = b[n].event

\* The queue of a turn is the head of its events, be it replayed or waiting;
\* those in the inbox follow.
Ahead(k) == IF cur = k THEN batch ELSE turn[k].queued

Pending(k)       == PendingIn(k, Ahead(k), inbox)
Earlier(k, e, f) == EarlierIn(k, Ahead(k), inbox, e, f)

\* The turn being replayed has nothing queued besides the batch, and its
\* commit is out; a turn that is gone has nothing queued.
ReplayInv ==
  /\ cur # 0 <=> batch # <<>>
  /\ cur # 0 => turn[cur].queued = <<>> /\ ~turn[cur].delayed
  /\ \A k \in Turn \ live : turn[k].queued = <<>>

-----------------------------------------------------------------------------
(* What is promised of the events of a turn.                               *)

HasText(e) == e.kind \in {"delta", "completed"}
From(e)    == Len(e.text) - Len(e.delta)

\* The chunks of an item that an event brings are the last of those it has.
Shaped(e) ==
  /\ Len(e.delta) <= Len(e.text)
  /\ e.text = Chunks(0, Len(e.text)) /\ e.delta = Chunks(From(e), Len(e.text))

\* Event e brings chunk c of item u.
Brings(e, u, c) == HasText(e) /\ e.id = u /\ From(e) < c /\ c <= Len(e.text)

\* Sentences are final once and in order, and the texts of an item follow one
\* another.
Ordered(e, f) ==
  /\ e.kind = "final" /\ f.kind \in SentenceKind => e.id < f.id
  /\ HasText(e) /\ HasText(f) /\ e.id = f.id => Len(e.text) <= From(f)

\* Event e is one that its task has sent, and so is what follows it.
SentEvent(k, e) ==
  /\ e.kind = "final" => e.id <= up[k].lastFinal
  /\ HasText(e) => /\ Shaped(e) /\ Len(e.text) <= up[k].items[e.id].len
                   /\ \A c \in Len(e.text) + 1 .. up[k].items[e.id].len :
                        \E g \in Pending(k) : Brings(g, e.id, c)

StreamOf(k) ==
  /\ \A e \in Pending(k) : SentEvent(k, e)
  /\ \A e, f : Earlier(k, e, f) => Ordered(e, f)

\* The first l chunks of item u have been processed, and the others are coming.
Reaches(k, u, l) ==
  /\ l <= up[k].items[u].len
  /\ \A e \in Pending(k) : HasText(e) /\ e.id = u => l <= From(e)
  /\ \A c \in l + 1 .. up[k].items[u].len : \E e \in Pending(k) : Brings(e, u, c)

\* Sentence u is final, and only later ones are coming.
Past(k, u) ==
  /\ u <= up[k].lastFinal
  /\ \A e \in Pending(k) : e.kind \in SentenceKind => u < e.id

-----------------------------------------------------------------------------
(* The book that a turn keeps of its items, against what the client was    *)
(* told of them: t is the record of turn k, d the items as the client      *)
(* knows them.                                                             *)

\* An item of a Qwen turn: r is the turn's record of it.
OpenItem(r, s) ==
  /\ r.st \in {"absent", "open"} => s.st = "none"
  /\ r.st = "absent" => r.text = <<>>

ToldItem(r, s) ==
  /\ r.st = "committed" => s.st = "committed" /\ s.shown = r.text
  /\ r.st = "done" => s.st \in {"completed", "failed"}

VadBook(k, t, d) ==
  /\ t.item = None /\ t.text = <<>> /\ ~t.delayed /\ (t.cleared => t.committed)
  /\ d[<<k, Tail0>>].st = "none"
  /\ \A u \in Ids : OpenItem(t.items[u], d[<<k, u>>]) /\ ToldItem(t.items[u], d[<<k, u>>])

\* The only item is the one that the commit announced; at most one upstream
\* item is bound to it.
ManualBook(k, t, d) ==
  /\ t.text = <<>> /\ ~t.cleared /\ t.item = IF t.committed THEN Tail0 ELSE None
  /\ \A u \in Ids : d[<<k, u>>].st = "none"
  /\ ~t.committed \/ t.delayed => d[<<k, Tail0>>].st = "none" /\ ~t.bound
  /\ t.committed /\ ~t.delayed /\ ~t.bound
       => d[<<k, Tail0>>].st = "committed" /\ d[<<k, Tail0>>].shown = <<>>
  /\ t.bound => \E u \in Ids : t.items[u].st # "absent"
  /\ \A u \in Ids :
       /\ t.items[u].st = "absent" => t.items[u].text = <<>>
       /\ t.items[u].st # "absent" => /\ t.bound
                                      /\ \A v \in Ids \ {u} : t.items[v].st = "absent"
                                      /\ ToldItem(t.items[u], d[<<k, Tail0>>])

\* Fun-ASR and Paraformer: the item is the open sentence of a VAD turn, or the
\* one that the commit announced.
SentenceBook(k, t, d) ==
  /\ ~t.cleared /\ \A u \in Ids : t.items[u].st # "committed"
  /\ \A u \in Uid \ {t.item} : d[<<k, u>>].st # "committed"
  /\ t.committed => t.item # None
  /\ ~t.committed => /\ t.item # Tail0 /\ d[<<k, Tail0>>].st = "none"
                     /\ t.item # None => t.mode = "sentVad" /\ t.item = t.sentence
  /\ t.item # None /\ (~t.committed \/ t.delayed) => d[<<k, t.item>>].st = "none"
  /\ t.committed /\ ~t.delayed => /\ d[<<k, t.item>>].st = "committed"
                                  /\ d[<<k, t.item>>].shown = t.text

Book(k, t, d) ==
  /\ t.mode = "qwenVad" => VadBook(k, t, d)
  /\ t.mode = "qwenManual" => ManualBook(k, t, d)
  /\ ~IsQwen(t.mode) => SentenceBook(k, t, d)

-----------------------------------------------------------------------------
(* The text of the items of a Qwen turn, and the sentences of a VAD turn.  *)

\* The turn takes the text of item u (the converse of Dropped).
Listening(t, u) == ~Dropped(t, t.items[u].st)

\* The text of an item is the chunks processed so far.
TextOf(k, t) ==
  IsQwen(t.mode) =>
    \A u \in Ids : Listening(t, u) =>
      /\ t.items[u].text = Chunks(0, Len(t.items[u].text))
      /\ Reaches(k, u, Len(t.items[u].text))

\* A sentence that was announced is past, as long as a VAD turn may announce
\* another one.
FreshOf(k, t, d) ==
  t.mode = "sentVad" /\ ~t.committed =>
    \A u \in Ids : d[<<k, u>>].st # "none" => Past(k, u)

-----------------------------------------------------------------------------
(* What the client was told.                                               *)

\* Nothing is shown of an item that was not announced.
NoneShown == \A i \in Item : doc[i].st = "none" => doc[i].shown = <<>>

\* An item without an outcome has none.
NoEnds == \A i \in Item : doc[i].st \in {"none", "committed"} => doc[i].ends = 0

Untouched ==
  \A k \in Turn : k > turnOrder => ~up[k].started /\ \A u \in Ids : up[k].items[u].len = 0

Kept(k) == Book(k, turn[k], doc) /\ TextOf(k, turn[k]) /\ FreshOf(k, turn[k], doc)

\* What holds of every item while the session goes on.
RunInv ==
  /\ \A i \in Item : doc[i].st # "none" => Announced(i)
  /\ NoneShown /\ NoEnds /\ ReplayInv /\ Untouched
  /\ \A k \in Turn : StreamOf(k)
  /\ \A k \in live : Kept(k)
  /\ \A i \in Item : i[1] \notin live => doc[i].st # "committed"

\* What holds of an item for good, also when the session is over.
DocFinal ==
  \A i \in Item :
    /\ doc[i].ends <= 1
    /\ doc[i].st = "completed" \/ doc[i].shown # <<>> => Announced(i)
    /\ doc[i].st = "completed" => doc[i].shown = doc[i].transcript

DInv == DocFinal /\ (phase = "running" => RunInv)

\* What was reported as failed had been announced, or was the open sentence of
\* the turn whose task failed.
FailedRight ==
  \A i \in Item : doc[i].st = "failed" =>
    Announced(i) \/ (phase = "ended" /\ cause = "upstream" /\ OpenSentence(i))

HasEnd(k) == \E e \in Pending(k) : e.kind \in EndKind

\* The end of a task is not lost: as long as its turn is there, it is among the
\* events that are still to be processed.
EndsHeld ==
  \A k \in Turn : up[k].over => up[k].started /\ (k \in live => HasEnd(k))

-----------------------------------------------------------------------------
(* What a turn has heard.                                                  *)

Cat(a, b) == a \o b

\* The words that an event brings: only a final result of a sentence has any.
Speech(e) == IF e.kind = "final" THEN e.text ELSE <<>>

SpeechTo(k, x) == IF x.key = k THEN Speech(x.event) ELSE <<>>
SpeechIn(q)    == FlattenSeq([n \in 1 .. Len(q) |-> Speech(q[n])])
SpeechOf(k, b) == FlattenSeq([n \in 1 .. Len(b) |-> SpeechTo(k, b[n])])
Coming(k) == Cat(SpeechIn(Ahead(k)), SpeechOf(k, inbox))

\* The item of a committed turn is announced once, and last of the turn.
LastOwn(k, u) ==
  \E p \in 1 .. Len(commits) :
    /\ commits[p] = <<k, u>>
    /\ \A n \in 1 .. Len(commits) : (n # p => commits[n] # <<k, u>>) /\ (n > p => commits[n][1] # k)

\* The items that have no outcome have no transcript.
Held ==
  \A i \in Item : /\ Announced(i) => doc[i].st # "none"
                  /\ doc[i].st \in {"none", "committed"} => doc[i].transcript = <<>>

\* The words that turn k has published, or will publish with its item.
Said(k) == Cat(TranscriptOf(k), turn[k].text)

\* What a turn of a sentence model has said and what is still coming add up to
\* what was heard.  The text of a commit is published with its item, which is
\* the last one of the turn.
Spoken(k) ==
  /\ Cat(Said(k), Coming(k)) = up[k].heard
  /\ turn[k].mode = "sentVad" /\ ~turn[k].committed => turn[k].text = <<>>
  /\ turn[k].committed /\ ~turn[k].delayed => LastOwn(k, turn[k].item)

Alive(k) == /\ up[k].qwen <=> IsQwen(turn[k].mode)
            /\ ~IsQwen(turn[k].mode) => Spoken(k)

Gone(k)  == /\ ~up[k].open
            /\ up[k].finishing /\ ~up[k].qwen => TranscriptOf(k) = up[k].heard

Heard(k) == (k \in live => Alive(k)) /\ (k \notin live => Gone(k))

\* The end of a task is its last event, and one that has not begun has none.
Ends(k) ==
  /\ ~up[k].started => Pending(k) = {} /\ up[k].heard = <<>>
  /\ \A e \in Pending(k) : e.kind \in EndKind => up[k].over
  /\ \A e, f : Earlier(k, e, f) => e.kind \notin EndKind

=============================================================================
