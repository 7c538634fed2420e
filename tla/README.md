# A verification of Qwen-STT-Compatible

The service puts an OpenAI-compatible interface in front of DashScope speech
recognition: `POST /v1/audio/transcriptions` for files, `GET /v1/realtime` for
WebSocket sessions. This directory holds TLA+ models of its stateful parts,
the TLC configurations that check them on small instances, and proofs, checked
by TLAPS, that hold for every value of the constants.

Paths are relative to `src/`. `PROJECT.json` maps every definition to the lines
it stands for.

## 1. The system

### Components

| component | source | state | operations |
|---|---|---|---|
| WebSocket bridge | `internal/httpapi/realtime_ws.go`, `realtime_order.go`, `realtime_qwen.go` | `wsBridge`: settings, tasks, turn order, active turn; `realtimeTurn`: flags, items, queued events, audio counters | client messages (`session.update`, append, commit, clear), upstream events, replay of delayed turns, end of session |
| Upstream task session | `internal/realtime/client.go` | `session`: lock, connection, `finishing`, `closed`, finish timer, events channel | `SendAudio`, `Finish`, `Close`, `readLoop`, `emit`, the `AfterFunc` hook, the finish timer |
| Qwen adapter | `internal/realtime/qwen.go` | `qwenSession`: items, pending, text bytes | `readQwen`, `convert`, `Finish` |
| Sentence reader | `internal/realtime/paraformer.go`, `readLoop` of `client.go` | id, begin, active; `lastFinal` | `normalize`, the filter of late results, the end of the task |
| Realtime file | `internal/httpapi/realtime_file.go`, `realtime_file_items.go` | handler, sender goroutine, `orderedFileItems` | select loop, `sendPCM`, `accept` |
| Offline pipeline | `internal/httpapi/server.go` | temporary directories, `apiSem` | `processRequest`, `recognizeSegments`, `acquireAPISlot`, `CleanupTempDirs` |
| DashScope HTTP client | `internal/dashscope/client.go` | none; tasks and files live at the service | `TranscribeFile` with retries, upload, submit, `waitTask`, collect, clean-up |
| Session settings | `internal/httpapi/realtime_protocol.go` | `realtimeSettings` | `update`, `session.update`, `UpdatePrompt` |
| Realtime slots | `internal/httpapi/realtime_ws.go`, `realtime_file.go`, `Start` of `client.go`, `startQwen` of `qwen.go` | `realtimeSem`; each request's reader goroutine, connections and tasks | the handlers from the slot to the response, the handshake, the cancellation hooks |
| Audio conversion, catalogue, configuration, diagnostics | `internal/realtime/{audio,filter,resample16}.go`, `internal/models`, `internal/config`, `internal/requestlog` | filters' history, else none | pure or sequential |

### Interactions

A WebSocket session runs one event loop, which alone owns the bridge. For each
turn it starts an upstream task and a goroutine that forwards the events of
that task into one channel of the session (`b.events`, 32 entries), which the
loop reads with `select` beside the client's messages. A turn is cancelled
through its context; the context's hook closes the connection. The task's own
reader goroutine produces the events; the loop calls `SendAudio` and `Finish`
on it, under the lock of the task.

A file for a realtime model uses the same tasks, with a goroutine that paces
the decoded audio and a handler that collects the events into one text.

Sessions and files share the slots of `realtimeSem`. A session has one more
goroutine, which reads the client's messages into a channel and is the only one
to notice that the client has gone; the loop may be waiting for the service or
for a write at that time.

A file for another model is cut into segments; a goroutine per segment takes a
slot of `apiSem`, shared by all requests, and calls the HTTP client, which may
upload the segment, start a task at the service and poll it, and repeat all of
this when it fails.

### What is hard

* **Order.** Turns are recognised concurrently, an earlier VAD turn may still
  create items after a later one was committed, but the client must see one
  chain of `previous_item_id`. Events are queued, merged and replayed.
* **Staleness.** Events of cleared, finished or cancelled turns are still in
  channels; results of published items still arrive.
* **Concurrency of the task.** Six goroutines meet at one lock, one connection,
  one timer and one channel; each has to end whatever the others do.
* **Failure and cancellation.** Every early return has to stop goroutines, give
  back slots, remove directories and uploads, once.
* **Accounting.** Limits rest on counters that are kept incrementally.
* **Crashes.** Directories and uploads survive the process.

The hazards, each at its line and with the properties that would catch it, are
listed in `PROJECT.json`.

## 2. Plan

In this order, the most important behaviour first:

1. `WsBridge`: the bridge with its publication order. *Done, with proofs.*
2. `ItemStream`, `QwenAdapter`: the event stream that consumers rely on, and
   the adapter that implements it. *Done, with proofs, the refinement included.*
3. `UpstreamSession`: the goroutines of a task. *Done, with proofs.*
4. `FileResponse`: a file over a realtime task, composed with `ItemStream`.
   *Done, with proofs.*
5. `OfflineTranscription`: requests, slots, retries, uploads, crash and restart.
   *Done, with proofs.*
6. `SentenceStream`, `SentenceReader`: the sentences of Fun-ASR and Paraformer,
   the counterpart of 2. *Done, with proofs, the refinement included.*
7. `SessionSettings`: partial `session.update` messages. *Done, with proofs.*
8. `RealtimeRequests`: slots, handshakes and the reader goroutine of a session.
   *Done, with proofs.*
9. The carry-over of the streaming resampler between chunks, and the texts of an
   offline request. *Left; see section 9.*

Every safety property of the bridge's runs that must hold is a theorem; what is
only model-checked is listed at the end of section 8.

## 3. The modules

Conventions. A step of a model is a whole handler, or the stretch of a goroutine
between two points where another one can intervene. Constants that stand for
limits of the code have the code's names; those marked "bound" in a module only
keep an instance finite. A definition named `Op_Variant` is `Op` with one
plausible mistake: it is used by no specification, and section 6 says which
property rejects it.

### WsBridge

| model | code |
|---|---|
| `settings`, `live`, `turnOrder`, `active`, `turn`, `inbox` | `wsBridge` and `realtimeTurn` |
| `SessionUpdate`, `AppendFirst`, `AppendMore`, `Commit`, `Clear`, `Refused` | the cases of `handle` |
| `Upstream` | `upstream` and `processUpstream`: an event is looked up, held back (`Enqueue`) or processed |
| `DrainNext`, `Replay`, `pc` | the loop of `drainOrderedEvents`; while `pc` is not `"select"` nothing else is served |
| `doc`, `commits` | what the client has been told |
| `up`, `UpQwen`, `UpSentence`, `UpFinished`, `UpErr` | the tasks with their forwarding goroutines |
| `Disconnect` | any end of the session that is the client's |

The items of a Qwen turn, the sentences of a Fun-ASR or Paraformer turn and the
single item of a manual turn are kept apart by the turn's mode, as in the code.
Audio is counted in units of 100 ms; a text is the sequence of its chunks, so
that a lost, doubled or reordered delta shows.

The upstream side is deliberately weaker than the adapters: it may report the
stages of an item in any order, more items than were committed, an end time
beyond the audio, and an error at any point.

Left out: writing to the socket in the middle of a handler (a failing write ends
the session, and what was written before is a prefix of a modelled step), the
messages `speech_started` and `speech_stopped`, a prompt that changes during a
turn (see `SessionSettings`), and the texts of errors. After the end of a session the code may
serve one more ready event, whose messages the client no longer gets.

### ItemStream and QwenAdapter

`ItemStream` is the abstract specification: an item has a growing text and one
outcome, the stream ends once. `QwenAdapter` models `readQwen`, `convert` and
`emit`: a service that may send any stage, text, repetition or end at any time,
the checks that turn these into events or errors, the counters `pending` and
`textBytes`, and the bounded channel to a consumer that may stop taking events.
Its refinement mapping (`Stream`) reads the abstract state off `items` and the
last event produced; once the adapter has given up the session, the abstract
stream has ended with an error.

### UpstreamSession

Every goroutine of a task with the lock as a variable: a write that is blocked
holds it (`caller = "writing"`), `Close` cancels, closes the connection and only
then waits for the lock, the reader asks under the lock whether an end is
genuine, the finish timer and the context's hook close the connection, and the
forwarder passes events on or sees the turn cancelled. An event is only a result
or an end; what it says is in the other two modules.

### FileResponse

The handler's `select` loop, one action per case, the sender goroutine step by
step (`read`, `write`, `pace`, `report`), the deferred clean-up and wait, and
`orderedFileItems.accept` as the operators `Refusal`, `Reach`, `Shown`, `Kept`
and `Freed`. The task's events come from `ItemStream` (`Task == INSTANCE
ItemStream`), or are final sentences. `heard` is a history of what was taken; the
reference `InOrder` is computed from it alone. The header of the response is
left out; the slot and the start of the task are in `RealtimeRequests`.

### SentenceStream and SentenceReader

`SentenceStream` is the abstract specification: sentences come in order, each
announced once and closed once where the adapter numbers them itself, and the
stream ends once. `SentenceReader` models `readLoop` and `normalize`: `Stale` and
the disjuncts of `Normalize` are the branches of `normalize`, `EndOf` its
recovery of a missing or impossible `end_time` from the words, `Emit` the filter
by `lastFinal`, `TaskFinished` the check for a task that ends too early. The
service is either *orderly*, one utterance after the other but with results
repeated and delayed without bound, or sends anything.

### SessionSettings

`settings` is `realtimeSettings`, `Merge` and `Explicit` are `update`, `Valid`
is `Options.Validate`; `turn` holds the settings and the options the task of the
active turn was started with, `told` the session the client has last seen.
`Update` and `UpdateActive` are `session.update` without and with audio input,
`PassOn` is `UpdatePrompt`. What a model can do is a constant (`Realtime`, `V1`,
`Context`, `Updates`, `Speaks`) with the assumptions the model tables satisfy.

With the turn detection off the client is told of no threshold, but the code
still passes one on (`internal/httpapi/realtime_protocol.go:24`,
`internal/realtime/client.go:191`): the default or the one last named while the
detection was on. Fun-ASR and the second Paraformer run with it; Qwen-ASR is given
none then. `ToldIsRun` says so.

### RealtimeRequests

| model | code |
|---|---|
| `slots` | `realtimeSem` |
| `state[r].at` | the handler of a session or a file: before the upgrade or the decoder (`open`), `dial`, `handshake`, the loop (`select`), a write (`reply`, `fail`), the response of a file (`serve`), then the deferred calls (`unwind`, `join`, `close`, `release`) |
| `state[r].reader`, `input` | the goroutine that reads the client's messages, and its channel |
| `starting`, `tasks`, `audio` | the connection of a task being started, the tasks that run, the decoder |
| `CutStart`, `CutSession`, `ServerNotices` | the `AfterFunc` hooks and the context of the request |

A message, an event and the response of a file are one step each here: they are
the other modules' subject.

### OfflineTranscription

| model | code |
|---|---|
| `handler`, `dir`, `outcome` | `processRequest` between the creation of its directory and the response |
| `slots` | `apiSem` |
| `worker` | the goroutine of each segment: `queued`, then inside `TranscribeFile`, then `report` (result stored, slot held) and `done` |
| `Inline` | one attempt of `transcribeQwen3Flash` or `transcribeAudio3ASRFlash`, a single call |
| `Upload`, `Submit`, `Poll`, `PollAgain`, `StopWaiting`, `Collect`, `Cleanup` | one attempt of `transcribeAsyncTask` |
| `TryAgain`, `StopTrying` | the pause between two attempts |
| `task`, `file` | for each attempt, the task at the service and the file on the WebDAV server |
| `Crash`, `Restart` | the process ends at any point; `main` runs `CleanupTempDirs` before it listens |

A PUT or a submission may take effect although its answer is lost. `file` keeps
apart what this leaves on the server (`"unknown"`, which `FileLifetime` does not
cover) from a file whose DELETE failed (`"kept"`). A call under a context that is
done fails; one answered before the client went is the same step taken before
`Cancel`. Only the removal of the upload runs under a context of its own.

Left out: the conversion by the audio library (it succeeds or fails), the texts
(each result is stored at its segment's index), the pseudo stream, the JSON. A
removal of a directory is assumed to succeed; the code ignores or logs its
error. There is one process at a time: a second one started beside it would
empty the common directory before it finds the port taken.

## 4. The runs

Bounds are the smallest at which the situation a property is about occurs; for
each property a variant of the code that breaks it is found within them
(section 6).

| run | instance | shows |
|---|---|---|
| `bridge_tail` | two turns, Qwen VAD or sentences, one item each with up to two chunks, a queue of three events | `OrderedCommits`, `WaitHasAnEnd`, `OneBuffer`, `DeltasAddUp`, `NoOrphanItem`, `QueueAccounted`, `NoSentenceLost`, `NeverBlockedAgain`: a turn held back behind the tail of another is replayed in full and in order, also when its updates were merged. Chains of more turns are the proofs' part |
| `bridge_turn` | one turn of two items or sentences, two allowed in the session, VAD and manual; end times before, within and beyond the audio and none | `OneOutcome`, `BoundarySound`, `ClearedIsSilent` |
| `bridge_live` | two turns, fair | `CommittedTurnsEnd` |
| `bridge_failed` | two manual sentence turns | a violation; see section 7 |
| `adapter_contract` | three items, two pending at most, texts that grow, shrink and are too long | `PendingCounted`, `TextAccounted`, and `Contract`: the adapter implements `ItemStream` |
| `session_ends` | one event in each channel, fair | `NoTimerLeft`, `OneEnd`, `FinishedIsGenuine`, `GoroutinesEnd`, `FinishEnds` |
| `file` | two items or sentences with one-letter texts, both may wait, fair | `Linear`, `BufferAccounted`, `SuccessIsComplete`, `Leaves`. Two items are the least that can complete out of order; `SuccessIsComplete` is proved for any number |
| `file_limit` | three items, two may wait | a violation; see section 7 |
| `offline` | one request, two segments sharing a slot, two attempts, one crash, fair | `SlotsAccounted`, `FileLifetime`, `SuccessIsEarned`, `DirsAccounted`, `CancelledReturns`, and `RequestsReturn`, which assumes that tasks end. The segments of two requests compete for a slot as two segments of one do; more requests are the proofs' part |
| `sentences` | three utterances with results repeated and delayed at will, the words holding time stamps of a neighbour; or anything with four time stamps | `EachUtteranceOnce`, `OrderlyAccepted`, and `Contract`: `readLoop` implements `SentenceStream` |
| `settings` | a model of each kind, two languages, two prompts, thresholds below, within and at the default | `ToldIsRun`, `HistoryFree`, `UpdatesAreSafe`, after any updates in any order |
| `requests` | two requests, a session or a file each, one slot, one message in the channel, two tasks, fair | `SlotsAccounted`, `NothingLeft`, `DoneReturns`, and `DisconnectEnds`, which assumes the timeouts of `Start` and of writes |

Symmetry is used only over the items of `adapter_contract`, which no definition
tells apart and whose refinement is a safety property. Deadlock is checked in
every run but those of the adapter and the sentence reader, whose service may
fall silent, and of the settings, which end with the session; in the other
modules `Terminated`, or a handler that stays willing, says where the system may
rest. The modules define a `TypeOK`; the proofs establish it where they need it,
and no run is spent on it.

## 5. Fairness

* *A goroutine that is able to run runs*: weak fairness of its steps.
* *`select` chooses at random among ready cases*, and a goroutine that waits to
  send is served in the order of the channel's queue: strong fairness of the
  cases that may be passed over (`Upstream`, `SeeCancelled`, `TakeOutcome`,
  `TakeEvent`, `Acquire`, `SeeDone`).
* *`sync.Mutex` serves a starving waiter first*: strong fairness of
  `CloseLocked` and `AskFinishing`.
* *A closed connection fails its readers and writers*: strong fairness of
  `ReadFails` once the connection is closed. A write to an open connection may
  block for ever; its deadline is not relied on.
* *After `Finish` a task ends*: `TaskEnds` in `WsBridge` and `FileResponse`. This
  is not taken on trust: `FinishEnds` of `UpstreamSession` says that the finish
  timer sees to it.
* *A call of the HTTP client ends*: it has a timeout, or its context is done.
* *A dial, a handshake, a read or a write fails once its connection is closed or
  its context is done*: `Fairness` of `RealtimeRequests`, which relies on no
  timeout. `DoneReturns` holds under it.
* *The upgrade, `Start` and writes have timeouts*: `Timeouts`, a premise of
  `DisconnectEnds` only. The reader that notices the disconnection may be waiting
  for the loop, and the loop for the service.
* That the service ends its tasks (`TasksEnd`) is a premise of `RequestsReturn`
  only. Clients owe nothing anywhere.

## 6. What the properties reject

| property | rejects |
|---|---|
| `WaitHasAnEnd` | an order in which later turns hold back a turn too, so that two wait for each other (`Blocked_Any`) |
| `DeltasAddUp`, `QueueAccounted` | merging two queued updates and keeping the newest delta only, or not giving back its bytes (`Enqueue_Newest`, `Enqueue_Unfreed`) |
| `NoOrphanItem` | a `clear` that asks for open items instead of committed ones (`PendingCommitted_Open`) |
| `ClearedIsSilent` | a cleared turn that ignores finished items only (`Dropped_Done`) |
| `OrderedCommits`, `NeverBlockedAgain` | an order that looks only at turns with pending items (`Blocked_Pending`) |
| `OneBuffer` | a commit that leaves the turn active (`Finish_Active`) |
| `BoundarySound` | an end time that may take the boundary back (`Boundary_Latest`) |
| `OneOutcome` | a manual turn that does not bind its item (`Mismatch_Unbound`) |
| `NoSentenceLost` | a final sentence dropped when it comes after the commit (`TurnSentence_Late`) |
| `CommittedTurnsEnd` | a turn that waits for its own order (`Waiting_Commit`) |
| `PendingCounted`, `TextAccounted`, `Contract` | counters not decremented, a final text that need not extend the partial one |
| `Linear`, `BufferAccounted`, `SuccessIsComplete` | an item kept with its shown text, bytes freed when shown and not when removed, an answer that does not wait for the sender |
| `Leaves` | a clean-up that does not close the decoder |
| `NoTimerLeft`, `OneEnd`, `FinishedIsGenuine` | a `Finish` that does not look at `closed`, a forwarder that goes on after the end, a reader that trusts the service |
| `GoroutinesEnd`, `FinishEnds` | `Close` taking the lock before it closes the connection, a `Finish` without a timer |
| `FileLifetime` | a removal under the request's own context (`Cleanup_Cancelled`) |
| `SuccessIsEarned` | a poll that takes any final status for a success (`Poll_Ended`) |
| `SlotsAccounted`, `RequestsReturn` of the offline pipeline | a slot given back after a success only (`Release_Success`) |
| `DirsAccounted` | an answer at the first error (`Assemble_Eager`) |
| `CancelledReturns` | calls that are answered although their context is done (`Answers_Always`) |
| `EachUtteranceOnce` | an end time that is taken as the service gives it (`EndOf_Trusting`) |
| `OrderlyAccepted` | a watermark that is not looked at while a sentence is open (`Stale_Idle`) |
| `Contract` of the sentence reader | a task that may end within a sentence (`TaskFinished_Open`) |
| `ToldIsRun` | a change of language during audio input that reaches the settings but not the task (`OnlyPrompt_Any`) |
| `HistoryFree` | a threshold that stays explicit when the model changes to one that takes none (`Explicit_Kept`) |
| `UpdatesAreSafe` | an unchanged prompt that is passed on (`PassOn_Always`) |
| `SlotsAccounted` of the realtime requests | an upgrade or a decoder that fails and keeps its slot (`OpenFails_Kept`) |
| `NothingLeft` | a handler that does not wait for its reader (`Join_Not`) |
| `DoneReturns` | a handshake whose connection is not closed with the context (`CutStart_Never`) |
| `DisconnectEnds` | a reader that ends without cancelling the session (`ReaderEnds_Silent`) |

## 7. Where code and documentation disagree

* `bridge_failed`: the README says that committed but unfinished items also
  receive a failed message when the upstream fails. In the trace two turns are
  committed and the task of the first reports its failure: the code sends failed
  messages for the items of that turn (`realtime_ws.go:372`,
  `realtime_qwen.go:58`) and ends the session, and the item of the other turn gets
  no outcome.
* `file_limit`: the README limits *unfinished* items, and so does the text of the
  error. The file response counts every entry that waits, completed ones
  included: a file may be refused with one unfinished item.

Not checked by a run, but met while modelling:

* `Commit` announces its item before `Finish` passes the commit on. When that
  fails, `handle` returns a fatal error, for which the loop sends an error event
  and ends the session: the item just announced gets no failed message either
  (`realtime_ws.go:305`, `316`, `157-161`).
* The README has the temporary file of a segment deleted from the WebDAV server
  after its transcription. A PUT that was stored but whose answer was lost gives
  `transcribeAsyncTask` no URL to delete (`dashscope/client.go:578`): the next
  attempt uploads under a new name, transcribes the segment and deletes its own
  file, and the first one stays (`"unknown"` in `OfflineTranscription`).
* A client that, during audio input, sends back the session it was told,
  threshold 1300 included, is refused, because naming the default threshold
  marks it as explicit (`SilenceExplicit`), which counts as a change other than
  the prompt's.

## 8. The proofs

Every theorem holds for all values of the constants that the named assumption of
its module allows (capacities are positive, sets of names are finite, time
stamps are integers, models and their abilities are consistent).

| module | theorem | property |
|---|---|---|
| `WsBridgeProofs` | `TypeCorrect` | `TypeOK` of the bridge |
| | `CommitsOrdered` | `OrderedCommits` |
| | `WaitEnds` | `WaitHasAnEnd` |
| | `BufferOwned` | `OneBuffer` |
| | `StaysPublished` | `NeverBlockedAgain` |
| | `BoundaryHolds` | `BoundarySound` |
| | `OutcomesOnce` | `OneOutcome` |
| | `DeltasComplete` | `DeltasAddUp` |
| | `NoneOrphaned` | `NoOrphanItem` |
| | `ClearedStaysSilent` | `ClearedIsSilent` |
| | `QueueCounted` | `QueueAccounted` |
| | `SentencesKept` | `NoSentenceLost` |
| `UpstreamSessionProofs` | `SessionTypes` | `TypeOK` of a task |
| | `TimerStopped` | `NoTimerLeft` |
| | `EndsOnce` | `OneEnd` |
| | `GenuineEnd` | `FinishedIsGenuine` |
| `QwenAdapterProofs` | `PendingCountedHolds` | `PendingCounted` |
| | `ContractHolds` | `Contract`, the refinement of `ItemStream` |
| | `TextAccountedHolds` | `TextAccounted` |
| `SentenceReaderProofs` | `ReaderTypes` | `TypeOK` of the reader |
| | `ContractHolds` | `Contract`, the refinement of `SentenceStream` |
| | `SentencesOnce` | `EachUtteranceOnce` |
| | `OrderlyTasksAccepted` | `OrderlyAccepted` |
| `FileResponseProofs` | `SuccessIsCompleteHolds` | `SuccessIsComplete` |
| | `LinearHolds` | `Linear` |
| | `BufferAccountedHolds` | `BufferAccounted` |
| `OfflineTranscriptionProofs` | `SlotsAccountedHolds` | `SlotsAccounted` |
| | `FileLifetimeHolds` | `FileLifetime` |
| | `SuccessIsEarnedHolds` | `SuccessIsEarned` |
| | `DirsAccountedHolds` | `DirsAccounted` |
| `RealtimeRequestsProofs` | `SlotsAccountedHolds` | `SlotsAccounted` |
| | `NothingLeftHolds` | `NothingLeft` |
| `SessionSettingsProofs` | `ToldIsRunHolds` | `ToldIsRun` |
| | `HistoryFreeHolds` | `HistoryFree` |
| | `UpdatesAreSafeHolds` | `UpdatesAreSafe` |

**The bridge: order.** The invariant is `IInv == TypeOK /\ WellFormed /\ OrderInv`.
`OrderedCommits` is not inductive: an item may be announced by a turn that has
none yet, so the proof needs to know that no later turn has announced one.
`OrderInv` says so in two parts. Whatever is announced belongs to the newest
turn or an earlier one; and while a turn *may still commit* (`MayCommit`: it has
a delayed commit, or is a committed VAD turn that was not cleared), everything
announced belongs to it or an earlier one. The second part is why `orderBlocked` looks at
exactly those turns. It is preserved because the loop is in `select` only when
nothing is ready (`NoneStranded`), and because the replay takes the first ready
turn (the last conjunct of `OrderInv`). `WellFormed` connects the flags of a turn
with its items and the program counter with the batch.

The lemmas go from the operators to the actions. The `...Effect` lemmas state
what processing an event may do to a turn, to the list of announced items and to
the documents; `KeepGood` says which changes of a turn keep it well formed;
`FirstToCommit` and `PublishOrder` say that a turn that is not blocked and
announces an item keeps the order; `QuietOrder` treats the steps that announce
nothing, `ServedOrder` those that end by entering the drain loop. `StepInv` puts
them together, one case per action. `StaysPublished` follows from the same
invariant: the set of turns that block another only shrinks (`FewerBlock`) or
grows at its end. `BoundaryHolds` needs one invariant more, that no turn has more
audio behind its boundary than it received (`Within`): an event replaces at most
one turn, by one whose boundary is no earlier (`Advances`), and no other step
touches the audio of a turn but to count more of it.

`WaitEnds` has two parts. Among the live turns that nobody holds back one is the
earliest; as `Blocked` looks at earlier turns only, a turn that waits has such a
turn before it (an argument by the least element, so for chains of any length),
and as the loop is in `select` only when nothing is ready (`NoneStranded`) that
turn does not wait itself. And as long as a turn is live, the end of its task, once
sent, is among the events still to be processed (`EndsHeld`): an end that leaves
the inbox goes to the queue if the turn waits, and is otherwise processed, which
removes the turn or ends the session. The queue of a turn that does not wait is
empty, so its end is in the inbox.

**The bridge: items.** What the client is told of an item depends on three
places: the record that the turn keeps of it, the events of the turn that wait
in its queue or in the channel, and what the task has sent so far.
`OutcomesOnce`, `DeltasComplete`, `NoneOrphaned` and `ClearedStaysSilent` rest
on one invariant that relates them, `DInv`. It and the invariants after it are in a
module of their own, `WsBridgeInvariants`. Its parts:

* *The stream* (`StreamOf`). `Pending(k)` are the events of turn `k` that are
  still to be processed: those of the batch or the queue, then those in the
  inbox. Their order, not their positions, is what matters, and a step does one
  of five things to them: it drops some from the front, leaves them, takes the
  first, adds one at the end, or merges two neighbours (`ShrinksTo`, `StaysAs`,
  `PopsTo`, `GrowsTo`, `MergesTo`). Each keeps the promise that final sentences
  are in order, that the texts of an item follow one another, and that what the
  task has sent of an item beyond an event is in a later one.
* *The book* (`VadBook`, `ManualBook`, `SentenceBook`). For each kind of turn,
  what the turn's record of an item says of what the client was told of it: a
  committed item was announced and shown as far as the record's text, one that
  is done has its outcome, an item the client does not know is `absent` or
  `open`. `Told` is what a step may tell of an item: announce it, go on with it,
  or give it its outcome.
* *The text* (`TextOf`). As long as a Qwen turn takes the text of an item, that
  text is its first chunks, as many as were processed, and the rest is pending
  (`Reaches`). With the stream this says that no merge and no wait loses a chunk.
* *Fresh sentences* (`FreshOf`). A sentence that was announced does not come
  again, so that a VAD turn announces each once.

`OutcomesOnce` leaves one failure to an item that was not announced: the
sentence that a VAD turn hears when upstream fails (`OpenSentence`), known to the
client from `speech_started`. `FailedRight` is the invariant for it: while the
session runs, whatever failed was announced, and only the step that ends it adds
to that.

`StepKind` is what the steps have in common: a step tells the client nothing and
leaves the books alone (`Quiet`), or it is a step of one turn (`Alone`), whose
book is right afterwards. `RunInv` holds while the session runs. `DocFinal`, what
is true of an item for good, also survives its end, where every open item of the
failing turn is reported once.

**The bridge: sentences.** `SentencesKept` is about Fun-ASR and Paraformer. A
final sentence that the service has sent is in one of four places: in the inbox,
in the queue or the batch of a waiting turn, in the text of a commit that has
not published its item yet, or in the transcript of an announced item. The
invariant follows it through them, next to `IInv` and `DInv`:

* *What was heard* (`Spoken`). As long as a turn is live, what it has said
  (`Said`, the transcripts of its announced items and then the text it holds) and
  what is coming to it (`Coming`, the final results of its pending events), one
  after the other, are what its task has heard. A VAD turn that is not committed
  holds no text. A turn whose commit was published has announced nothing after
  the item of that commit (`LastOwn`): the text it goes on to collect is
  published with that item and so belongs at the end.
* *The end* (`Ends`). The end of a task is its last event, and a task that has
  not begun has heard nothing. Hence when a turn is released by the end of its
  task nothing is coming, and its transcripts are all that was heard (`Gone`).
* *The items* (`Held`). An item without an outcome has no transcript, and an
  announced one is known to the client. So announcing an item adds no words, and
  giving it its outcome adds its transcript where it stands.

A step changes what is coming in few ways: it adds a result at the end, takes the
first, merges two updates, which have no words, or changes nothing (`UpstreamComes`,
`ReplayComes`, `DrainComes`, `ForwardComes`). It changes the transcripts only where an
item is announced or done (`WordsKept`, `WordsAdded`, `WordsSet`, and
`StepWording`, that no other step writes one). The `...Hears` lemmas put the two
together, one per action; `TaskHears` is the service's side.

`QueueCounted` has an invariant of its own: the bytes of a turn are the sum over
its queue whether it is live or not. Only `Enqueue` changes a queue without
emptying it, and `EnqueueSize` has its two cases: an event appended, and an update
merged with the last one.

**The task.** `NoTimerLeft` is inductive once the types are known. `OneEnd` needs
that a forwarder that still runs has passed on no end (`Running`).
`FinishedIsGenuine` is stated of every place where an end can be, the reader, the
channel, the forwarder and the inbox's history, and holds because `finishing` is
never taken back.

**The adapter.** `AdapterInv`: an item nobody has named has no history, one that
is done has no text, `pending` counts the open ones, and the reader reads no more
once it has ended the stream. `ConvertOutcome` reduces every message to one of
five outcomes, of which all but the ignored one change a single item
(`Becomes`); `BecomesCounts` then does the counting once for all of them, and the
refinement has one case per outcome. `TextAccountedHolds` adds to the invariant
that the counter is the sum of the open texts (`CountInv`), and needs one fact
about sums: changing the text of one item changes the sum by the difference. The mapping empties the abstract text and
the open items when the last event is an error: `EndRefines` needs to know
nothing of what became of them.

**The sentence reader.** `ReaderInv` says what the three fields of the normaliser
stand for as long as the service is orderly (`InStep`): the number of utterances
begun, the time the last of them began, and whether it is still open. A delayed
result is then recognised because each utterance begins after the one before it
began, and its end is recovered because it does not end before it begins: the
two assumptions on their times. The refinement needs the types and `Numbered` only.

**The file response.** `FileInv` follows the outcome of the sender from where it
is decided to where it is received (`Sending`), says that an end is the last
event of the channel (`Ending`), and that what the handler has taken together
with what is in the channel is all the task has reported (`Hearing`). Taking the
end empties the channel, so that nothing has been missed.

`TextInv` rests on it and carries `Linear` and `BufferAccounted`. `Flow`: the
events in the channel follow on what was heard, nothing of an item after its
outcome, each text an extension of the one before. `Filed`: the order is the end
of the list of the items mentioned, from the first unfinished one on, and of the
texts kept only that of the first item has a part already shown. `Counted` and
`Written` are the two properties. When an event is accepted, some items leave
the order for the text: the text that should be there (`Reached`) grows by
exactly `Shown`, and the count falls by exactly `Freed`.

**Sums and concatenations.** Five theorems, `QueueCounted`, `SentencesKept`,
`TextAccountedHolds`, `LinearHolds` and `BufferAccountedHolds`, are about sums or concatenations over
data of any length. The library's induction theorems take an operator as a
parameter, which the provers cannot instantiate; induction over *sets* needs
none. `Least` says that a set of naturals that is not empty has a least element,
from the well-foundedness of the order on the naturals, and `Inductive` that a
set of naturals with 0 and the successor of each of its elements is `Nat`. That
the recursive functions behind `FoldLeft`, `MapThenSumSet` and `FlattenSeq` exist
follows by taking for that set the lengths up to which there is one (`Sums`);
then come the laws the invariants use: appending an element, replacing one,
splitting a sequence in two.

**The offline pipeline.** `Steady` is about one segment: its goroutine runs only
while the handler waits for it, its result is that of the task of its last
attempt, and the file of the current attempt is stored exactly while it may be
read; once the segment is transcribed, its DELETE was tried. `Settled` is about
the process, and says what survives a crash; `Counted` is the slots. A step of one goroutine that neither takes nor gives a slot
disturbs no other (`LocalKeeps`).

**The realtime requests.** `Sound` is about one request: a task is being started
only during the handshake, and on the way out the connection goes before the
handler waits for the reader, everything else before the slot. `Counted` is the
slots.

**The settings.** `SettingsInv`: every accepted update leaves a threshold that is
in range even while the model takes none, no explicit threshold with a model
that takes none, and a prompt only with one that takes it (`Settled`). This is
why the next update can be judged for what it says. `named` is a history variable,
the threshold that was last named; `InUse` says that it is the one in the
settings, so that `ToldIsRun` can state which threshold a task runs with when the
client is told of none.

**Only model-checked.** Liveness, which is out of the prover's reach together
with `ENABLED`: `CommittedTurnsEnd`, `GoroutinesEnd`, `FinishEnds`, `Leaves`,
`CancelledReturns`, `RequestsReturn`, `DoneReturns`, `DisconnectEnds`. Every safety
property of a passing run is a theorem.

## 9. Not modelled

* Filters and resamplers: floating point arithmetic and an ffmpeg process. That
  the streaming resampler gives the same samples for any cut into chunks is a
  question about numbers, not about states.
* The delays of retries and polls: nothing but time depends on them. That a wait
  ends with its context is in `OfflineTranscription`.
* The texts of an offline request and their pseudo stream: each result is stored
  at its segment's index, before the handler reads any of them.
* The model tables and the matching of prefixes: stateless. What the settings
  need of them are the assumptions of `SessionSettings`.
* The JSON of requests, messages and answers, routing, configuration, logging
  and error texts: stateless or sequential, and covered by unit tests.
* Two processes on one host, of which the second empties the common directory
  before it finds the port taken (`cmd/server/main.go:31`): the model has one
  process at a time, as a deployment has.
* Build and download scripts.
