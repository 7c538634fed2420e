------------------------------ MODULE WsBridge ------------------------------
(***************************************************************************)
(* One client session of the /v1/realtime endpoint: the event loop of      *)
(* internal/httpapi/realtime_ws.go with the publication order of           *)
(* realtime_order.go and the Qwen items of realtime_qwen.go.               *)
(*                                                                         *)
(* The loop owns every variable of the bridge.  It serves a client message *)
(* or an upstream event at a time; the goroutine that startTurn leaves     *)
(* behind for each turn forwards the events of its upstream task into the  *)
(* shared inbox concurrently.  The replay of delayed turns                 *)
(* (drainOrderedEvents) is a loop inside the handler: it is modelled by a  *)
(* program counter, so that no other event is served before it ends.       *)
(*                                                                         *)
(* A definition named Op_Variant is not part of the model: it is Op with a *)
(* plausible mistake, kept beside it to show that the properties tell the  *)
(* two apart (the README lists which property rejects which variant).      *)
(*                                                                         *)
(* Audio is counted in units of 100 ms, a text is the sequence of its      *)
(* chunks, and time stamps are in the units of the audio.                  *)
(***************************************************************************)
EXTENDS Integers, SequencesExt

CONSTANTS Modes,           \* the session configurations the client may choose
          MaxTurns,        \* bound: turns started in a session
          MaxPending,      \* maxPendingTurns
          MaxIds,          \* bound: upstream items (or sentences) of a turn
          MaxSessionItems, \* realtime.MaxSessionItems
          InboxCap,        \* capacity of b.events
          QueueCap,        \* events kept for a turn that waits for its order
          QueueBytes,      \* text kept for a turn that waits for its order
          MaxTurnText,     \* maxTurnText
          MinCommit,       \* audio a commit needs beyond the VAD boundary
          MaxSamples,      \* bound: audio of a turn
          MaxText,         \* bound: chunks of an upstream item
          Times            \* the time stamps upstream may give; -1 is "none"

AllModes == {"qwenVad", "qwenManual", "sentVad", "sentManual"}
IsQwen(m) == m \in {"qwenVad", "qwenManual"}
IsVad(m)  == m \in {"qwenVad", "sentVad"}

ASSUME BridgeAssumption ==
  /\ Modes \subseteq AllModes
  /\ {MaxTurns, MaxPending, MaxIds, MaxSessionItems, InboxCap, QueueCap,
      QueueBytes, MaxTurnText, MinCommit, MaxSamples} \subseteq Nat \ {0}
  /\ MaxText \in Nat
  /\ Times \subseteq Int

Turn == 1 .. MaxTurns   \* a turn is named by its order; 0 is "no turn"
Ids  == 1 .. MaxIds     \* item and sentence ids given by upstream
Tail0 == MaxIds + 1     \* the item that a local commit names; see ItemOf
None == 0               \* turn.item == ""
Uid  == 1 .. Tail0
Item == Turn \X Uid     \* items as the client knows them
Text == Seq(Nat)

ItemKind     == {"started", "stopped", "committed", "delta", "completed", "failed"}
SentenceKind == {"partial", "final"}
EndKind      == {"finished", "err"}

\* realtime.Event: of an item, of a sentence, or the end of the task.
Event ==
  [kind : ItemKind \cup SentenceKind, id : Ids, time : Int, delta : Text, text : Text]
    \cup [kind : EndKind, id : {0}, time : {0}, delta : {<<>>}, text : {<<>>}]

Ev(kind, id, time, delta, text) ==
  [kind |-> kind, id |-> id, time |-> time, delta |-> delta, text |-> text]
Plain(kind, id) == Ev(kind, id, 0, <<>>, <<>>)

VARIABLES
  phase,     \* "running" or "ended"
  cause,     \* why the session ended: "none", "client", "upstream"
  pc,        \* "select", "drain", "replay": where the event loop is
  settings,  \* b.settings: a mode, or "unset" when no model is chosen yet
  live,      \* the keys of b.tasks
  turnOrder, \* b.turnOrder
  active,    \* b.active
  turn,      \* the realtimeTurn of each live turn
  inbox,     \* b.events
  cur,       \* drainOrderedEvents: the turn being replayed
  batch,     \* drainOrderedEvents: what is left of its queued events
  commits,   \* the items the client was told are committed, in order
  doc,       \* what the client was told of each item
  up         \* the upstream tasks and their forwarding goroutines

loop   == <<pc, cur, batch>>
client == <<commits, doc>>
vars   == <<phase, cause, pc, settings, live, turnOrder, active, turn, inbox,
            cur, batch, commits, doc, up>>

-----------------------------------------------------------------------------
(* Records.                                                                *)

NewTurn(m) ==
  [mode |-> m, committed |-> FALSE, cleared |-> FALSE, delayed |-> FALSE,
   bound |-> FALSE, samples |-> 0, consumed |-> 0, item |-> None,
   sentence |-> 0, text |-> <<>>,
   items |-> [u \in Ids |-> [st |-> "absent", text |-> <<>>]],
   queued |-> <<>>, bytes |-> 0]

\* The upstream side of a turn that has not started yet.
NoTask ==
  [qwen |-> FALSE, started |-> FALSE, open |-> FALSE, finishing |-> FALSE,
   over |-> FALSE, items |-> [u \in Ids |-> [len |-> 0, done |-> FALSE]],
   lastFinal |-> 0, heard |-> <<>>]

NoDoc == [st |-> "none", shown |-> <<>>, transcript |-> <<>>, ends |-> 0]

Init ==
  /\ phase = "running" /\ cause = "none" /\ pc = "select"
  /\ settings \in {m \in Modes : ~IsVad(m)} \cup {"unset"}
  /\ live = {} /\ turnOrder = 0 /\ active = 0
  /\ turn = [k \in Turn |-> NewTurn("sentManual")]
  /\ inbox = <<>> /\ cur = 0 /\ batch = <<>>
  /\ commits = <<>> /\ doc = [i \in Item |-> NoDoc]
  /\ up = [k \in Turn |-> NoTask]

-----------------------------------------------------------------------------
(* The upstream task of a turn, as far as the bridge relies on it: the     *)
(* adapters of internal/realtime only ever extend the text of an item, send *)
(* nothing of an item that is done, one final result per sentence, and the *)
(* end of the task last.  In which order the service reports the stages of *)
(* an item is the service's own.                                           *)

Chunks(a, b) == [i \in 1 .. b - a |-> a + i]

\* The goroutine of startTurn: task.Events() to b.events.  It may still pass
\* on an event after the turn was cancelled, as long as it has not seen that;
\* UpErr stands for that event too, for the bridge no longer looks at it.
Forward(k, e) ==
  /\ phase = "running" /\ up[k].started /\ ~up[k].over
  /\ Len(inbox) < InboxCap
  /\ inbox' = Append(inbox, [key |-> k, event |-> e])
  /\ UNCHANGED <<phase, cause, settings, live, turnOrder, active, turn, loop, client>>

UpStage(k, u) ==
  /\ \/ \E kind \in {"started", "committed"} : Forward(k, Plain(kind, u))
     \/ \E t \in Times \ {-1} : Forward(k, Ev("stopped", u, t, <<>>, <<>>))
  /\ UNCHANGED up

UpText(k, u, n, kind) ==
  /\ n >= up[k].items[u].len
  /\ Forward(k, Ev(kind, u, 0, Chunks(up[k].items[u].len, n), Chunks(0, n)))
  /\ up' = [up EXCEPT ![k].items[u] = [len |-> n, done |-> kind = "completed"]]

UpFailed(k, u) ==
  /\ Forward(k, Plain("failed", u))
  /\ up' = [up EXCEPT ![k].items[u].done = TRUE]

UpQwen(k) ==
  /\ up[k].open /\ up[k].qwen
  /\ \E u \in Ids :
       /\ ~up[k].items[u].done
       /\ \/ UpStage(k, u)
          \/ \E n \in 0 .. MaxText, kind \in {"delta", "completed"} : UpText(k, u, n, kind)
          \/ UpFailed(k, u)

\* Fun-ASR and Paraformer: hypotheses and one final result per sentence.
UpSentence(k) ==
  /\ up[k].open /\ ~up[k].qwen
  /\ \E u \in (up[k].lastFinal + 1) .. MaxIds :
       \/ /\ Forward(k, Plain("partial", u))
          /\ UNCHANGED up
       \/ \E t \in Times, x \in {<<>>, <<u>>} :
            /\ Forward(k, Ev("final", u, t, <<>>, x))
            /\ up' = [up EXCEPT ![k].lastFinal = u, ![k].heard = @ \o x]

\* session.finished or task-finished, which only counts after Finish.
UpFinished(k) ==
  /\ up[k].open /\ up[k].finishing
  /\ Forward(k, Plain("finished", 0))
  /\ up' = [up EXCEPT ![k].over = TRUE]

\* An upstream error, a lost connection, the finish timer: all end the task.
\* A channel closed without a result is turned into the same event.
UpErr(k) ==
  /\ Forward(k, Plain("err", 0))
  /\ up' = [up EXCEPT ![k].over = TRUE]

-----------------------------------------------------------------------------
(* What the handlers are made of.  Each ends the session with End(c) when  *)
(* the code returns a fatal error and stays in it with Continue otherwise. *)

End(c)   == phase' = "ended" /\ cause' = c
Continue == UNCHANGED <<phase, cause>>

Blocked_Pending(k) ==
  \E e \in live : /\ e < k /\ turn[e].mode = "qwenVad" /\ turn[e].committed
                  /\ \E u \in Ids : turn[e].items[u].st = "committed"

Blocked_Any(k) ==
  \E e \in live : /\ e # k
                  /\ turn[e].mode = "qwenVad" /\ turn[e].committed /\ ~turn[e].cleared

\* orderBlocked: an earlier Qwen VAD turn may still create items.
Blocked(k) ==
  \E e \in live : /\ e < k
                  /\ turn[e].mode = "qwenVad" /\ turn[e].committed /\ ~turn[e].cleared

\* The client's item for upstream item u: a manual Qwen turn binds the id
\* that its commit announced.
ItemOf(k, u) == <<k, IF turn[k].mode = "qwenManual" THEN turn[k].item ELSE u>>

PendingCommitted_Open(k) == \E u \in Ids : turn[k].items[u].st = "open"

\* hasPendingCommitted
PendingCommitted(k) == \E u \in Ids : turn[k].items[u].st = "committed"

Added(d, i)        == [d EXCEPT ![i].st = "committed"]
Delta(d, i, x)     == [d EXCEPT ![i].shown = @ \o x]
Completed(d, i, x) == [d EXCEPT ![i].st = "completed", ![i].transcript = x,
                                ![i].ends = @ + 1]
Failed(d, S) == [i \in Item |-> IF i \in S
                               THEN [d[i] EXCEPT !.st = "failed", !.ends = @ + 1]
                               ELSE d[i]]

\* commitItem, then the text the item already has.
CommitItem(i, x) ==
  /\ commits' = Append(commits, i)
  /\ doc' = Delta(Added(doc, i), i, x)

\* turn.cancel(); turn.task.Close(); delete(b.tasks, key)
Forget(k) ==
  /\ live' = live \ {k}
  /\ turn' = [turn EXCEPT ![k] = NewTurn("sentManual")]
  /\ up' = [up EXCEPT ![k].open = FALSE]

Boundary_Latest(k, t) == IF t <= turn[k].samples THEN t ELSE turn[k].samples

\* The VAD boundary, in samples of this turn that were really received.
Boundary(k, t) ==
  LET c == IF t <= turn[k].samples THEN t ELSE turn[k].samples
  IN  IF c > turn[k].consumed THEN c ELSE turn[k].consumed

-----------------------------------------------------------------------------
(* processUpstream and upstreamQwen: what a live turn does with an event.  *)

Reject == End("upstream") /\ UNCHANGED <<live, turn, up, commits, doc>>
Ignore == Continue /\ UNCHANGED <<live, turn, up, commits, doc>>

\* The items an upstream error is reported for.
Unfinished(k) ==
  LET t == turn[k]
      named == IF t.item # None /\ (IsQwen(t.mode) => t.mode = "qwenManual" /\ ~t.bound)
               THEN {<<k, t.item>>} ELSE {}
  IN  named \cup {ItemOf(k, u) : u \in {v \in Ids : t.items[v].st = "committed"}}

ProcessErr(k) ==
  /\ doc' = Failed(doc, Unfinished(k))
  /\ End("upstream")
  /\ UNCHANGED <<live, turn, up, commits>>

\* The task ended normally, but the turn is not one that may end.
FinishedEarly(k) ==
  \/ ~turn[k].committed
  \/ IsQwen(turn[k].mode) /\ PendingCommitted(k)
  \/ turn[k].mode = "qwenManual" /\ ~turn[k].bound

ProcessFinished(k) ==
  \/ FinishedEarly(k) /\ Reject
  \/ /\ ~FinishedEarly(k)
     /\ doc' = IF ~IsQwen(turn[k].mode) /\ turn[k].item # None
               THEN Completed(doc, <<k, turn[k].item>>, turn[k].text)
               ELSE doc
     /\ Forget(k) /\ Continue
     /\ UNCHANGED commits

VadSentence(k, e) ==
  LET new == turn[k].item = None
      u == IF new THEN e.id ELSE turn[k].item
      s == IF new THEN e.id ELSE turn[k].sentence
  IN  \/ (s # e.id \/ (e.kind = "final" /\ e.time < 0)) /\ Reject
      \/ /\ s = e.id /\ e.kind = "partial"
         /\ turn' = [turn EXCEPT ![k].item = u, ![k].sentence = s]
         /\ Continue
         /\ UNCHANGED <<live, up, commits, doc>>
      \/ /\ s = e.id /\ e.kind = "final" /\ e.time >= 0
         /\ turn' = [turn EXCEPT ![k].item = None, ![k].sentence = s,
                                 ![k].consumed = Boundary(k, e.time)]
         /\ commits' = Append(commits, <<k, u>>)
         /\ doc' = Completed(Delta(Added(doc, <<k, u>>), <<k, u>>, e.text), <<k, u>>, e.text)
         /\ Continue
         /\ UNCHANGED <<live, up>>

TurnSentence_Late(k, e) ==
  \/ e.kind = "partial" /\ Ignore
  \/ /\ e.kind = "final"
     /\ turn' = IF turn[k].committed THEN [turn EXCEPT ![k].text = @ \o e.text] ELSE turn
     /\ doc' = IF turn[k].committed THEN Delta(doc, <<k, turn[k].item>>, e.text) ELSE doc
     /\ Continue
     /\ UNCHANGED <<live, up, commits>>

\* Every other final sentence adds to the one item of its turn.
TurnSentence(k, e) ==
  \/ e.kind = "partial" /\ Ignore
  \/ e.kind = "final" /\ Len(turn[k].text) + Len(e.text) > MaxTurnText /\ Reject
  \/ /\ e.kind = "final" /\ Len(turn[k].text) + Len(e.text) <= MaxTurnText
     /\ turn' = [turn EXCEPT ![k].text = @ \o e.text]
     /\ doc' = IF turn[k].committed THEN Delta(doc, <<k, turn[k].item>>, e.text) ELSE doc
     /\ Continue
     /\ UNCHANGED <<live, up, commits>>

\* An item event of a Qwen task that the turn knows the item of: t is the
\* turn with the item bound to it.
QwenStage(k, e, t) ==
  LET u == e.id
      i == <<k, IF t.mode = "qwenManual" THEN t.item ELSE u>>
      st == t.items[u].st
      Keep(r) == turn' = [turn EXCEPT ![k] = r] /\ Continue /\ UNCHANGED <<live, up>>
  IN  \/ /\ e.kind = "started" \/ (e.kind = "committed" /\ st = "committed")
         /\ Keep(t) /\ UNCHANGED client
      \/ /\ e.kind = "stopped"
         /\ Keep([t EXCEPT !.consumed = Boundary(k, e.time)]) /\ UNCHANGED client
      \/ /\ e.kind = "committed" /\ st = "open"
         /\ Keep([t EXCEPT !.items[u].st = "committed"])
         /\ CommitItem(i, t.items[u].text)
      \/ /\ e.kind \in {"delta", "completed"} /\ Len(e.text) > MaxTurnText
         /\ Reject
      \/ /\ e.kind = "delta" /\ Len(e.text) <= MaxTurnText
         /\ Keep([t EXCEPT !.items[u].text = e.text])
         /\ doc' = IF st = "committed" THEN Delta(doc, i, e.delta) ELSE doc
         /\ UNCHANGED commits
      \/ /\ e.kind \in {"completed", "failed"} /\ st = "open"
         /\ Reject
      \/ /\ e.kind = "completed" /\ st = "committed" /\ Len(e.text) <= MaxTurnText
         /\ Keep([t EXCEPT !.items[u] = [st |-> "done", text |-> <<>>]])
         /\ doc' = Completed(Delta(doc, i, e.delta), i, e.text)
         /\ UNCHANGED commits
      \/ /\ e.kind = "failed" /\ st = "committed"
         /\ Keep([t EXCEPT !.items[u] = [st |-> "done", text |-> <<>>]])
         /\ doc' = Failed(doc, {i})
         /\ UNCHANGED commits

Dropped_Done(t, st) == st = "done"

\* An item with its outcome, or one that clear caught before its commit.
Dropped(t, st) == st = "done" \/ (t.cleared /\ st # "committed")

\* A manual turn has a single item, the one that its commit announced.
Mismatch_Unbound(t) == t.mode = "qwenManual" /\ ~t.committed
Mismatch(t) == t.mode = "qwenManual" /\ (~t.committed \/ t.bound)

\* The first event of an item opens it, or binds it to the manual commit.
QwenItem(k, e) ==
  LET t == turn[k]
      st == t.items[e.id].st
      manual == t.mode = "qwenManual"
      full == Cardinality({u \in Ids : t.items[u].st # "absent"}) >= MaxSessionItems
  IN  \/ Dropped(t, st) /\ Ignore
      \/ ~Dropped(t, st) /\ st = "absent" /\ (full \/ Mismatch(t)) /\ Reject
      \/ /\ ~Dropped(t, st) /\ st = "absent" /\ ~full /\ ~Mismatch(t)
         /\ QwenStage(k, e, [t EXCEPT !.items[e.id].st = IF manual THEN "committed" ELSE "open",
                                      !.bound = manual])
      \/ /\ ~Dropped(t, st) /\ st # "absent"
         /\ QwenStage(k, e, t)

Process(k, e) ==
  \/ k \notin live /\ Ignore
  \/ /\ k \in live
     /\ \/ e.kind = "err" /\ ProcessErr(k)
        \/ e.kind = "finished" /\ ProcessFinished(k)
        \/ /\ e.kind \in SentenceKind /\ ~IsQwen(turn[k].mode)
           /\ \/ turn[k].mode = "sentVad" /\ ~turn[k].committed /\ VadSentence(k, e)
              \/ ~(turn[k].mode = "sentVad" /\ ~turn[k].committed) /\ TurnSentence(k, e)
        \/ e.kind \in ItemKind /\ IsQwen(turn[k].mode) /\ QwenItem(k, e)

-----------------------------------------------------------------------------
(* drainOrderedEvents, entered after every client message and after every  *)
(* upstream event that was processed.                                      *)

Waiting_Commit(k) == turn[k].delayed
Waiting(k) == turn[k].delayed \/ turn[k].queued # <<>>
Ready == {k \in live : Waiting(k) /\ ~Blocked(k)}

Released(t) == [t EXCEPT !.delayed = FALSE, !.queued = <<>>, !.bytes = 0]

\* The head of the loop: the next event of the turn being replayed, another
\* turn that need not wait any more, or back to select.
Settle == pc' = IF batch' # <<>> THEN "replay" ELSE IF Ready' # {} THEN "drain" ELSE "select"

\* The turn that waits longest: its commit first, then what was queued.
DrainNext ==
  /\ phase = "running" /\ pc = "drain"
  /\ \E k \in Ready :
       /\ \A j \in Ready : k <= j
       /\ IF turn[k].delayed
          THEN CommitItem(<<k, turn[k].item>>, IF IsQwen(turn[k].mode) THEN <<>> ELSE turn[k].text)
          ELSE UNCHANGED client
       /\ batch' = turn[k].queued
       /\ cur' = IF batch' = <<>> THEN 0 ELSE k
       /\ turn' = [turn EXCEPT ![k] = Released(@)]
  /\ UNCHANGED <<phase, cause, settings, live, turnOrder, active, inbox, up>>
  /\ Settle

Replay ==
  /\ phase = "running" /\ pc = "replay"
  /\ Process(cur, Head(batch))
  /\ batch' = Tail(batch)
  /\ cur' = IF batch' = <<>> THEN 0 ELSE cur
  /\ UNCHANGED <<settings, turnOrder, active, inbox>>
  /\ Settle

-----------------------------------------------------------------------------
(* upstream(): an event of the inbox.                                      *)

Size(e) == Len(e.text) + Len(e.delta)   \* queuedEventBytes

Enqueue_Newest(q, e) ==
  LET n == Len(q)
      merge == n > 0 /\ e.kind = "delta" /\ q[n].kind = "delta" /\ q[n].id = e.id
  IN  [queue |-> IF merge THEN SubSeq(q, 1, n - 1) ELSE q,
       freed |-> IF merge THEN Size(q[n]) ELSE 0, event |-> e]
Enqueue_Unfreed(q, e) ==
  LET n == Len(q)
      merge == n > 0 /\ e.kind = "delta" /\ q[n].kind = "delta" /\ q[n].id = e.id
  IN  IF merge
      THEN [queue |-> SubSeq(q, 1, n - 1), freed |-> 0,
            event |-> [e EXCEPT !.delta = q[n].delta \o @]]
      ELSE [queue |-> q, freed |-> 0, event |-> e]

\* Adjacent prefix updates of an item collapse into one that has both deltas.
Enqueue(q, e) ==
  LET n == Len(q)
      merge == n > 0 /\ e.kind = "delta" /\ q[n].kind = "delta" /\ q[n].id = e.id
  IN  IF merge
      THEN [queue |-> SubSeq(q, 1, n - 1), freed |-> Size(q[n]),
            event |-> [e EXCEPT !.delta = q[n].delta \o @]]
      ELSE [queue |-> q, freed |-> 0, event |-> e]

Hold(k, e) ==
  LET w == Enqueue(turn[k].queued, e)
      b == turn[k].bytes - w.freed + Size(w.event)
      full == Len(w.queue) >= QueueCap \/ b > QueueBytes
  IN  \/ full /\ Reject
      \/ /\ ~full
         /\ turn' = [turn EXCEPT ![k].queued = Append(w.queue, w.event), ![k].bytes = b]
         /\ Continue
         /\ UNCHANGED <<live, up, client>>

Upstream ==
  /\ phase = "running" /\ pc = "select" /\ inbox # <<>>
  /\ inbox' = Tail(inbox)
  /\ LET k == Head(inbox).key
         e == Head(inbox).event
     IN  /\ UNCHANGED <<settings, turnOrder, active, cur, batch>>
         /\ \/ k \notin live /\ Ignore /\ UNCHANGED pc
            \/ k \in live /\ Blocked(k) /\ Hold(k, e) /\ UNCHANGED pc
            \/ k \in live /\ ~Blocked(k) /\ Process(k, e) /\ Settle

-----------------------------------------------------------------------------
(* handle(): a client message.  A message that is refused changes nothing. *)

Serving == phase = "running" /\ pc = "select"
Served  == UNCHANGED <<inbox, cur, batch>> /\ Settle

\* strictJSON and the early returns of handle; the last two guards are those
\* of startTurn and of commit.
Refused ==
  /\ Serving
  /\ UNCHANGED <<phase, cause, settings, live, turnOrder, active, turn, client, up>>
  /\ Served

\* session.update with a valid configuration.  While a turn takes audio only
\* its prompt may change, which the upstream task may fail to take.
SessionUpdate ==
  /\ Serving
  /\ \/ /\ active = 0
        /\ settings' \in Modes
        /\ Continue
     \/ /\ active # 0 /\ settings' = settings
        /\ \/ Continue
           \/ turn[active].mode \in {"sentVad", "sentManual"} /\ End("upstream")
  /\ UNCHANGED <<live, turnOrder, active, turn, client, up>>
  /\ Served

\* Audio for the active turn; SendAudio may fail, after the turn counted it.
AppendMore ==
  /\ Serving
  /\ active \in live
  /\ turn[active].samples < MaxSamples
  /\ turn' = [turn EXCEPT ![active].samples = @ + 1]
  /\ \/ ~up[active].finishing /\ Continue
     \/ End("upstream")
  /\ UNCHANGED <<settings, live, turnOrder, active, client, up>>
  /\ Served

\* startTurn, then the audio that asked for it.  Starting the task may fail,
\* and so may sending the audio.
AppendFirst ==
  /\ Serving
  /\ active \notin live
  /\ settings # "unset" /\ Cardinality(live) < MaxPending /\ turnOrder < MaxTurns
  /\ LET k == turnOrder + 1
     IN  \/ End("upstream") /\ UNCHANGED <<live, turnOrder, active, turn, up>>
         \/ /\ turnOrder' = k /\ active' = k /\ live' = live \cup {k}
            /\ turn' = [turn EXCEPT ![k] = [NewTurn(settings) EXCEPT !.samples = 1]]
            /\ up' = [up EXCEPT ![k].started = TRUE, ![k].open = TRUE,
                                ![k].qwen = IsQwen(settings)]
            /\ Continue \/ End("upstream")
  /\ UNCHANGED <<settings, client>>
  /\ Served

Finish_Active(k) ==
  /\ up' = [up EXCEPT ![k].finishing = TRUE]
  /\ \/ ~up[k].finishing /\ Continue
     \/ End("upstream")
  /\ UNCHANGED active

\* task.Finish(): no more audio.  On success the turn is no longer active.
Finish(k) ==
  /\ up' = [up EXCEPT ![k].finishing = TRUE]
  /\ \/ ~up[k].finishing /\ Continue /\ active' = 0
     \/ End("upstream") /\ UNCHANGED active

\* The item a commit names: none for a Qwen VAD turn, whose tail upstream will
\* name; the open sentence of another VAD turn; otherwise a new item.
CommitName(k) ==
  IF turn[k].mode = "qwenVad" \/ turn[k].item # None THEN turn[k].item ELSE Tail0

\* The commitment waits while an earlier turn may still create items.
Delays(k) == turn[k].mode # "qwenVad" /\ Blocked(k)

Committable ==
  /\ active \in live
  /\ turn[active].samples - turn[active].consumed >= MinCommit

\* commit, with commitQwen for the turns of the Qwen protocol.
Commit ==
  /\ Serving
  /\ Committable
  /\ turn' = [turn EXCEPT ![active].committed = TRUE,
                          ![active].item = CommitName(active),
                          ![active].delayed = Delays(active)]
  /\ IF Delays(active) \/ turn[active].mode = "qwenVad"
     THEN UNCHANGED client
     ELSE CommitItem(<<active, CommitName(active)>>, turn[active].text)
  /\ Finish(active)
  /\ UNCHANGED <<settings, live, turnOrder>>
  /\ Served

\* A Qwen turn with results outstanding for items that are committed already
\* ends its input and keeps those; any other turn is dropped.
Clear ==
  /\ Serving
  /\ \/ /\ active \notin live
        /\ Continue
        /\ UNCHANGED <<live, active, turn, up>>
     \/ /\ active \in live /\ IsQwen(turn[active].mode) /\ PendingCommitted(active)
        /\ turn' = [turn EXCEPT ![active].cleared = TRUE, ![active].committed = TRUE]
        /\ Finish(active)
        /\ UNCHANGED live
     \/ /\ active \in live /\ ~(IsQwen(turn[active].mode) /\ PendingCommitted(active))
        /\ Forget(active) /\ active' = 0
        /\ Continue
  /\ UNCHANGED <<settings, turnOrder, client>>
  /\ Served

-----------------------------------------------------------------------------
(* The end of the session.                                                 *)

\* The client is gone, idle for too long, or a write to it failed: the
\* context is cancelled at whatever point the loop is.
Disconnect ==
  /\ phase = "running"
  /\ End("client")
  /\ UNCHANGED <<pc, settings, live, turnOrder, active, turn, inbox, cur, batch,
                 client, up>>

\* Nothing is left to do: the deferred calls have closed every task.
Terminated == phase = "ended" /\ UNCHANGED vars

Task(k) == UpQwen(k) \/ UpSentence(k) \/ UpFinished(k) \/ UpErr(k)
Client  == Refused \/ SessionUpdate \/ AppendMore \/ AppendFirst \/ Commit \/ Clear
Loop    == Upstream \/ DrainNext \/ Replay

Next ==
  \/ Loop \/ Client \/ Disconnect \/ Terminated
  \/ \E k \in Turn : Task(k)

Spec == Init /\ [][Next]_vars

-----------------------------------------------------------------------------
(* Fairness.  The drain loop runs to its end.  Go's select chooses at      *)
(* random among the ready cases, and a goroutine that waits to send on a   *)
(* channel is served in its turn: an event that stays available is taken.  *)
(* After Finish the task ends, at the latest when its finish timer closes  *)
(* the connection.  The client and an unfinished task owe nothing.         *)

TaskEnds(k) == up[k].finishing /\ (UpFinished(k) \/ UpErr(k))

Fairness ==
  /\ WF_vars(DrainNext \/ Replay)
  /\ SF_vars(Upstream)
  /\ \A k \in Turn : SF_vars(TaskEnds(k))

FairSpec == Spec /\ Fairness

-----------------------------------------------------------------------------
(* Types.                                                                  *)

TurnRecord ==
  [mode : AllModes, committed : BOOLEAN, cleared : BOOLEAN, delayed : BOOLEAN,
   bound : BOOLEAN, samples : Nat, consumed : Nat, item : {None} \cup Uid, sentence : Nat,
   text : Text,
   items : [Ids -> [st : {"absent", "open", "committed", "done"}, text : Text]],
   queued : Seq(Event), bytes : Int]

TaskRecord ==
  [qwen : BOOLEAN, started : BOOLEAN, open : BOOLEAN, finishing : BOOLEAN,
   over : BOOLEAN, items : [Ids -> [len : Nat, done : BOOLEAN]],
   lastFinal : Nat, heard : Text]

DocRecord ==
  [st : {"none", "committed", "completed", "failed"}, shown : Text,
   transcript : Text, ends : Nat]

TypeOK ==
  /\ phase \in {"running", "ended"}
  /\ cause \in {"none", "client", "upstream"}
  /\ pc \in {"select", "drain", "replay"}
  /\ settings \in Modes \cup {"unset"}
  /\ live \subseteq Turn /\ turnOrder \in 0 .. MaxTurns /\ active \in 0 .. MaxTurns
  /\ turn \in [Turn -> TurnRecord]
  /\ inbox \in Seq([key : Turn, event : Event]) /\ Len(inbox) <= InboxCap
  /\ cur \in 0 .. MaxTurns /\ batch \in Seq(Event)
  /\ commits \in Seq(Item)
  /\ doc \in [Item -> DocRecord]
  /\ up \in [Turn -> TaskRecord]

-----------------------------------------------------------------------------
(* Safety.                                                                 *)

\* previous_item_id chains the items in the order of the audio: an item of a
\* turn is never committed after an item of a later turn, although turns are
\* recognised concurrently and an earlier VAD turn may still create items
\* (orderBlocked, delayedCommit, drainOrderedEvents).
OrderedCommits ==
  \A i, j \in 1 .. Len(commits) : i < j => commits[i][1] <= commits[j][1]

EndInInbox(k) == \E n \in DOMAIN inbox : inbox[n].key = k /\ inbox[n].event.kind \in EndKind

\* A turn is held back by a turn, which may be held back by another.  However
\* long the chain, there is a turn at its head that waits for nobody in the
\* bridge and is bound to go: its input has ended, and the event that ends it
\* is still to come from its task or is in the inbox, not in any queue.
\* Otherwise the turns would wait for each other for good, with commits and
\* results that are never published (orderBlocked, drainOrderedEvents).
WaitHasAnEnd ==
  phase = "running" /\ pc = "select" =>
    \A k \in live : Waiting(k) =>
      \E j \in live : /\ j < k /\ ~Blocked(j) /\ ~Waiting(j)
                      /\ up[j].finishing
                      /\ up[j].over => EndInInbox(j)

\* The audio buffer belongs to one turn, the newest: it is open upstream, has
\* not been committed, and still has the configuration of the session.  Every
\* other live turn has ended its input.  Otherwise SendAudio or Finish would
\* fail on a healthy task and end the session.
OneBuffer ==
  phase = "running" =>
    /\ active # 0 => /\ active \in live /\ active = turnOrder
                     /\ ~turn[active].committed /\ ~up[active].finishing
                     /\ turn[active].mode = settings
    /\ \A k \in live \ {active} : turn[k].committed /\ up[k].finishing

Announced(i) == \E n \in 1 .. Len(commits) : commits[n] = i

\* The item of a sentence that a VAD turn hears at present: the client knows
\* it from speech_started, and its commit is still to come.
OpenSentence(i) ==
  LET t == turn[i[1]]
  IN  i[1] \in live /\ t.mode = "sentVad" /\ ~t.committed /\ t.item = i[2]

\* Every item has at most one outcome, and neither text nor a transcript is
\* published of an item that was not announced.  A failure is: when upstream
\* fails in the middle of a sentence of a VAD turn, that sentence is reported
\* without having been committed.  No other unannounced item is, in particular
\* none whose commit is delayed.
OneOutcome ==
  \A i \in Item :
    /\ doc[i].ends <= 1
    /\ (doc[i].st = "completed" \/ doc[i].shown # <<>>) => Announced(i)
    /\ doc[i].st = "failed" =>
         Announced(i) \/ (phase = "ended" /\ cause = "upstream" /\ OpenSentence(i))

\* The deltas that the client received add up to the transcript, however the
\* text was divided between the time before the commit, the time in the queue
\* (where adjacent updates are merged) and the time after it.
DeltasAddUp ==
  \A i \in Item : doc[i].st = "completed" => doc[i].shown = doc[i].transcript

\* A turn that is gone while the session goes on, be it finished or cleared,
\* leaves no announced item without its outcome.
NoOrphanItem ==
  phase = "running" =>
    \A i \in Item : i[1] \notin live => doc[i].st # "committed"

\* The bytes counted against the limit of a waiting turn are those of the
\* events in its queue, also after updates were merged (upstream()).
QueueAccounted ==
  \A k \in live :
    turn[k].bytes = FoldLeft(LAMBDA n, e : n + Size(e), 0, turn[k].queued)

\* The transcripts of the items of a turn, in the order they were announced.
TranscriptOf(k) ==
  FlattenSeq([n \in DOMAIN commits |->
                IF commits[n][1] = k THEN doc[commits[n]].transcript ELSE <<>>])

\* A Fun-ASR or Paraformer turn that ended normally has published each final
\* sentence exactly once and in order, those heard before a local commit,
\* those that arrived while the turn waited for its order, and those after.
NoSentenceLost ==
  phase = "running" =>
    \A k \in Turn : up[k].over /\ ~up[k].qwen /\ k \notin live /\ up[k].finishing
                      => TranscriptOf(k) = up[k].heard

\* What the README says of a failing upstream: the committed items that have
\* no result yet are reported as failed.  This is about a failure that a task
\* reports and that is passed on for the items of its turn (processUpstream,
\* upstreamQwen): then it is for those of every other turn, which the end of
\* the session stops as well.
FailureIsToldOfAll ==
  phase = "ended" /\ cause = "upstream" /\ (\E i \in Item : doc[i].st = "failed") =>
    \A i \in Item : doc[i].st # "committed"

-----------------------------------------------------------------------------
(* The strengthening under which OrderedCommits and OneBuffer are          *)
(* inductive (WsBridgeProofs).                                             *)

\* The loop goes back to select when nothing may be published any more.
NoneStranded == phase = "running" /\ pc = "select" => Ready = {}

\* A delayed commit is a commit and has its item, only VAD turns have open
\* items, and the loop replays as long as there is something to replay.
WellFormed ==
  /\ \A k \in Turn :
       /\ turn[k].delayed => turn[k].committed /\ turn[k].item \in Uid
       /\ \A u \in Ids : turn[k].items[u].st = "open" => turn[k].mode = "qwenVad"
  /\ pc = "replay" <=> batch # <<>>

\* Turns without audio that may still announce an item.
MayCommit(k) ==
  \/ turn[k].delayed
  \/ turn[k].mode = "qwenVad" /\ turn[k].committed /\ ~turn[k].cleared

\* The last announced item belongs to turn k or an earlier one.
CommitsUpTo(k) == \A n \in 1 .. Len(commits) : commits[n][1] <= k

OrderInv ==
  /\ OrderedCommits
  /\ OneBuffer
  /\ phase = "running" =>
       /\ NoneStranded
       /\ \A k \in live : k <= turnOrder
       /\ \A k \in Turn : k > turnOrder => ~up[k].finishing
       /\ CommitsUpTo(turnOrder)
       /\ \A k \in live : MayCommit(k) => CommitsUpTo(k)
       /\ pc = "replay" /\ cur \in live => ~Blocked(cur) /\ \A j \in Ready : cur <= j

IInv == TypeOK /\ WellFormed /\ OrderInv

-----------------------------------------------------------------------------
(* What a step may never do.                                               *)

\* After clear, nothing is announced of the cleared audio, even if its events
\* are in the inbox already; a turn that is gone is silent altogether.
ClearedIsSilent ==
  [][/\ \A k \in Turn : turn[k].cleared => \A u \in Uid :
          doc[<<k, u>>].st = "none" => doc'[<<k, u>>].st = "none"
     /\ \A i \in Item : i[1] <= turnOrder /\ i[1] \notin live => doc'[i] = doc[i]]_vars

\* The boundary only moves forward, and never beyond the audio received: a
\* late or excessive end time neither gives back audio of an earlier sentence
\* nor makes the audio that the client may still commit negative.
BoundarySound ==
  [][\A k \in live \cap live' :
       turn'[k].consumed \in turn[k].consumed .. turn'[k].samples]_vars

NoneHeldBack == \A k \in live \cap live' : ~Blocked(k) => ~Blocked(k)'

\* A turn whose events are published is never held back again, so that no
\* event can overtake another of its turn by way of the queue.
NeverBlockedAgain == [][NoneHeldBack]_vars

-----------------------------------------------------------------------------
(* Liveness.                                                               *)

\* A turn whose audio the client committed ends: its items have their outcome
\* (NoOrphanItem), or the session is over.
CommittedTurnsEnd ==
  \A k \in Turn : (k \in live /\ turn[k].committed) ~> (k \notin live \/ phase # "running")

=============================================================================
