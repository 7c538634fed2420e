------------------------- MODULE OfflineTranscription -------------------------
(***************************************************************************)
(* Files transcribed with the non-realtime models: processRequest and      *)
(* recognizeSegments of internal/httpapi/server.go, and TranscribeFile of  *)
(* internal/dashscope/client.go with its retries, its asynchronous tasks   *)
(* and the uploads they read.                                              *)
(*                                                                         *)
(* The handler of a request waits for one goroutine per segment.  Those of *)
(* all requests share the slots of apiSem.  A request may be cancelled at  *)
(* any point, and the process may crash and be started again: the tasks of *)
(* the service and the files on the WebDAV server survive that.            *)
(*                                                                         *)
(* Texts are left out: a segment's result is a success or an error, and    *)
(* the success of a request is that of all its segments.                   *)
(* A definition named Op_Variant is Op with a plausible mistake; see       *)
(* WsBridge.                                                               *)
(***************************************************************************)
EXTENDS Integers, FiniteSets

CONSTANTS Request,      \* the requests of the clients
          Modes,        \* how the models they ask for take their audio
          MaxSegments,  \* bound: segments of a request
          Concurrency,  \* capacity of apiSem
          MaxAttempts,  \* cfg.Retry.MaxAttempts
          MaxCrashes    \* bound: crashes of the process

\* A short clip is sent inline; the others are uploaded, all to the storage
\* the process is configured with.
ASSUME OfflineAssumption ==
  /\ IsFiniteSet(Request)
  /\ Modes \subseteq {"inline", "oss"} \/ Modes \subseteq {"inline", "webdav"}
  /\ {MaxSegments, Concurrency, MaxAttempts} \subseteq Nat \ {0}
  /\ MaxCrashes \in Nat

Segment == 1 .. MaxSegments
Worker  == Request \X Segment  \* the goroutine of a segment
Attempt == 1 .. MaxAttempts
Owner(w) == w[1]

VARIABLES
  up, crashes, \* the process runs; how often it crashed
  handler,     \* "idle", "prepare", "recognize", "discard", "respond", "returned" or "lost"
  mode,        \* the kind of model
  cancelled,   \* the requests whose context is done
  dir,         \* the requests whose temporary directory exists
  outcome,     \* what processRequest returns: "none", "ok" or "error"
  slots,       \* len(apiSem)
  worker,      \* the goroutines: where each is, its attempt and its result
  task,        \* the task at the service, of the current attempt
  file         \* of each attempt, its file on the WebDAV server: "none",
               \* "stored", "unknown" where the answer to the PUT was lost,
               \* or "kept" where the DELETE failed

request  == <<handler, mode, cancelled, dir, outcome>>
external == <<task, file>>
process  == <<up, crashes>>
vars     == <<process, request, slots, worker, external>>

Unborn == [pc |-> "none", attempt |-> 0, result |-> "none"]

Init ==
  /\ up = TRUE /\ crashes = 0
  /\ handler = [r \in Request |-> "idle"] /\ mode \in [Request -> Modes]
  /\ cancelled = {} /\ dir = {} /\ outcome = [r \in Request |-> "none"]
  /\ slots = 0 /\ worker = [w \in Worker |-> Unborn]
  /\ task = [w \in Worker |-> "none"]
  /\ file = [w \in Worker |-> [a \in Attempt |-> "none"]]

-----------------------------------------------------------------------------
(* processRequest.                                                         *)

Handling(r, from, to) == up /\ handler[r] = from /\ handler' = [handler EXCEPT ![r] = to]

\* The directory of the request, named by a fresh id.
Receive(r) ==
  /\ Handling(r, "idle", "prepare")
  /\ dir' = dir \cup {r}
  /\ UNCHANGED <<process, mode, cancelled, outcome, slots, worker, external>>

\* The upload, its conversion or its segmentation fails, or gives no segment.
PrepareFails(r) ==
  /\ Handling(r, "prepare", "discard")
  /\ outcome' = [outcome EXCEPT ![r] = "error"]
  /\ UNCHANGED <<process, mode, cancelled, dir, slots, worker, external>>

\* recognizeSegments starts a goroutine for each of n segments.
StartWorkers(r) ==
  /\ Handling(r, "prepare", "recognize")
  /\ \E n \in Segment :
       worker' = [w \in Worker |-> IF Owner(w) = r /\ w[2] <= n
                                   THEN [Unborn EXCEPT !.pc = "queued"] ELSE worker[w]]
  /\ UNCHANGED <<process, mode, cancelled, dir, outcome, slots, external>>

Started(r) == {w \in Worker : Owner(w) = r /\ worker[w].pc # "none"}

Assemble_Eager(r) ==
  /\ Handling(r, "recognize", "discard")
  /\ \/ /\ \E w \in Started(r) : worker[w].result = "error"
        /\ outcome' = [outcome EXCEPT ![r] = "error"]
     \/ /\ \A w \in Started(r) : worker[w].pc = "done" /\ worker[w].result = "ok"
        /\ outcome' = [outcome EXCEPT ![r] = "ok"]
  /\ UNCHANGED <<process, mode, cancelled, dir, slots, worker, external>>

\* wg.Wait(): every goroutine is done, also when one has failed already.
Assemble(r) ==
  /\ Handling(r, "recognize", "discard")
  /\ \A w \in Started(r) : worker[w].pc = "done"
  /\ outcome' = [outcome EXCEPT ![r] =
       IF \E w \in Started(r) : worker[w].result = "error" THEN "error" ELSE "ok"]
  /\ UNCHANGED <<process, mode, cancelled, dir, slots, worker, external>>

\* defer os.RemoveAll(tempDir)
Discard(r) ==
  /\ Handling(r, "discard", "respond")
  /\ dir' = dir \ {r}
  /\ UNCHANGED <<process, mode, cancelled, outcome, slots, worker, external>>

Respond(r) ==
  /\ Handling(r, "respond", "returned")
  /\ UNCHANGED <<process, mode, cancelled, dir, outcome, slots, worker, external>>

Cancel(r) ==
  /\ up /\ handler[r] \notin {"idle", "returned", "lost"} /\ r \notin cancelled
  /\ cancelled' = cancelled \cup {r}
  /\ UNCHANGED <<process, handler, mode, dir, outcome, slots, worker, external>>

-----------------------------------------------------------------------------
(* The goroutine of a segment: acquireAPISlot and TranscribeFile.          *)

At(w, p) == up /\ worker[w].pc = p
Goto(w, p) == worker' = [worker EXCEPT ![w].pc = p]
Gone(w) == Owner(w) \in cancelled
Mode(w) == mode[Owner(w)]

\* The result is stored; the slot is still held.
Report(w, res) == worker' = [worker EXCEPT ![w].pc = "report", ![w].result = res]

\* Set the state of the file of the current attempt.
Filed(w, s) == file' = [file EXCEPT ![w][worker[w].attempt] = s]

Acquire(w) ==
  /\ At(w, "queued") /\ slots < Concurrency
  /\ slots' = slots + 1 /\ Goto(w, "begin")
  /\ UNCHANGED <<process, request, external>>

GiveUp(w) ==
  /\ At(w, "queued") /\ Gone(w)
  /\ worker' = [worker EXCEPT ![w].pc = "done", ![w].result = "error"]
  /\ UNCHANGED <<process, request, slots, external>>

\* A segment that is too large is not tried at all.  The later check of
\* audioDataURI agrees with this one: nothing writes to the segment.
Begin(w) ==
  /\ At(w, "begin")
  /\ \/ Report(w, "error")
     \/ worker' = [worker EXCEPT ![w].pc = "call", ![w].attempt = 1]
  /\ UNCHANGED <<process, request, slots, external>>

\* The end of an attempt that returned an error: another one, or the last.
Retry(w) ==
  IF worker[w].attempt < MaxAttempts THEN Goto(w, "backoff") ELSE Report(w, "error")

Answers_Always(w) == TRUE
\* A call whose context is done fails.  One that was answered before the
\* client went is an action before Cancel.
Answers(w) == ~Gone(w)

Inline(w) ==
  /\ At(w, "call") /\ Mode(w) = "inline"
  /\ \/ Answers(w) /\ Report(w, "ok")
     \/ Retry(w)
  /\ UNCHANGED <<process, request, slots, external>>

\* The segment is uploaded under a name of this attempt.  A PUT whose
\* answer is lost may have stored it, but the attempt has no URL to remove.
Upload(w) ==
  /\ At(w, "call") /\ Mode(w) # "inline"
  /\ \/ Answers(w) /\ Mode(w) = "oss" /\ Goto(w, "submit") /\ UNCHANGED file
     \/ Answers(w) /\ Mode(w) = "webdav" /\ Goto(w, "submit") /\ Filed(w, "stored")
     \/ Retry(w) /\ UNCHANGED file
     \/ Answers(w) /\ Mode(w) = "webdav" /\ Retry(w) /\ Filed(w, "unknown")
  /\ UNCHANGED <<process, request, slots, task>>

\* A request whose response is lost may start the task all the same, but
\* nobody knows its name.
Submit(w) ==
  /\ At(w, "submit")
  /\ \/ Answers(w) /\ Goto(w, "poll") /\ task' = [task EXCEPT ![w] = "running"]
     \/ Goto(w, "failed") /\ UNCHANGED task
  /\ UNCHANGED <<process, request, slots, file>>

Poll_Ended(w) ==
  /\ At(w, "poll")
  /\ \/ Answers(w) /\ task[w] = "running" /\ Goto(w, "wait")
     \/ Answers(w) /\ task[w] # "running" /\ Goto(w, "collect")
     \/ Goto(w, "failed")
  /\ UNCHANGED <<process, request, slots, external>>
Poll(w) ==
  /\ At(w, "poll")
  /\ \/ Answers(w) /\ task[w] = "running" /\ Goto(w, "wait")
     \/ Answers(w) /\ task[w] = "succeeded" /\ Goto(w, "collect")
     \/ Goto(w, "failed")
  /\ UNCHANGED <<process, request, slots, external>>

PollAgain(w) ==
  /\ At(w, "wait")
  /\ Goto(w, "poll")
  /\ UNCHANGED <<process, request, slots, external>>

StopWaiting(w) ==
  /\ At(w, "wait") /\ Gone(w)
  /\ Goto(w, "failed")
  /\ UNCHANGED <<process, request, slots, external>>

\* The results are downloaded one by one; there may be none to download.
Collect(w) ==
  /\ At(w, "collect")
  /\ Goto(w, "transcribed") \/ Goto(w, "failed")
  /\ UNCHANGED <<process, request, slots, external>>

\* cleanupUploadedFile, deferred by transcribeAsyncTask: under a context that
\* the request does not cancel, and with ten seconds of its own.
Cleanup_Cancelled(w) ==
  /\ At(w, "transcribed") \/ At(w, "failed")
  /\ IF At(w, "transcribed") THEN Report(w, "ok") ELSE Retry(w)
  /\ IF Mode(w) = "webdav" /\ ~Gone(w) THEN Filed(w, "none") ELSE UNCHANGED file
  /\ UNCHANGED <<process, request, slots, task>>
Cleanup(w) ==
  /\ At(w, "transcribed") \/ At(w, "failed")
  /\ IF At(w, "transcribed") THEN Report(w, "ok") ELSE Retry(w)
  /\ IF Mode(w) = "webdav" THEN Filed(w, "none") \/ Filed(w, "kept") ELSE UNCHANGED file
  /\ UNCHANGED <<process, request, slots, task>>

TryAgain(w) ==
  /\ At(w, "backoff")
  /\ worker' = [worker EXCEPT ![w].pc = "call", ![w].attempt = @ + 1]
  /\ task' = [task EXCEPT ![w] = "none"]
  /\ UNCHANGED <<process, request, slots, file>>

StopTrying(w) ==
  /\ At(w, "backoff") /\ Gone(w)
  /\ Report(w, "error")
  /\ UNCHANGED <<process, request, slots, external>>

Release_Success(w) ==
  /\ At(w, "report")
  /\ slots' = IF worker[w].result = "ok" THEN slots - 1 ELSE slots
  /\ Goto(w, "done")
  /\ UNCHANGED <<process, request, external>>
Release(w) ==
  /\ At(w, "report")
  /\ slots' = slots - 1 /\ Goto(w, "done")
  /\ UNCHANGED <<process, request, external>>

-----------------------------------------------------------------------------
(* The service, and the process itself.                                    *)

\* A task that nobody polls any more is of no interest.
TaskEnds(w) ==
  /\ At(w, "poll") \/ At(w, "wait")
  /\ task[w] = "running"
  /\ \E s \in {"succeeded", "failed"} : task' = [task EXCEPT ![w] = s]
  /\ UNCHANGED <<process, request, slots, worker, file>>

Crash ==
  /\ up /\ crashes < MaxCrashes
  /\ up' = FALSE /\ crashes' = crashes + 1
  /\ handler' = [r \in Request |-> IF handler[r] \in {"idle", "returned"} THEN handler[r]
                                   ELSE "lost"]
  /\ slots' = 0 /\ worker' = [w \in Worker |-> Unborn]
  /\ UNCHANGED <<mode, cancelled, dir, outcome, external>>

\* main: CleanupTempDirs, before the server listens.
Restart ==
  /\ ~up /\ up' = TRUE
  /\ dir' = {}
  /\ UNCHANGED <<crashes, handler, mode, cancelled, outcome, slots, worker, external>>

Handler(r) ==
  Receive(r) \/ PrepareFails(r) \/ StartWorkers(r) \/ Assemble(r) \/ Discard(r) \/ Respond(r)
Call(w)  == Inline(w) \/ Upload(w) \/ Submit(w) \/ Poll(w) \/ Collect(w) \/ Cleanup(w)
Timer(w) == PollAgain(w) \/ TryAgain(w)
Goroutine(w) ==
  \/ Acquire(w) \/ GiveUp(w) \/ Begin(w) \/ Call(w)
  \/ Timer(w) \/ StopWaiting(w) \/ StopTrying(w) \/ Release(w)

\* Every request is answered or lost.
Terminated ==
  /\ up /\ \A r \in Request : handler[r] \in {"returned", "lost"}
  /\ UNCHANGED vars

Next ==
  \/ \E r \in Request : Handler(r) \/ Cancel(r)
  \/ \E w \in Worker : Goroutine(w) \/ TaskEnds(w)
  \/ Crash \/ Restart \/ Terminated

Spec == Init /\ [][Next]_vars

\* Every call to the service has a timeout and every timer expires; a wait
\* for a slot is served in its turn (the queue of a channel), and one that
\* can be given up is, for a context that is done stays done.  A task of the
\* service need not end.
Fairness ==
  /\ \A r \in Request :
       WF_vars(PrepareFails(r) \/ StartWorkers(r) \/ Assemble(r) \/ Discard(r) \/ Respond(r))
  /\ \A w \in Worker :
       /\ WF_vars(Begin(w) \/ Call(w) \/ Timer(w) \/ Release(w))
       /\ SF_vars(Acquire(w)) /\ WF_vars(GiveUp(w))

FairSpec == Spec /\ Fairness

\* The service ends its tasks.
TasksEnd == \A w \in Worker : WF_vars(TaskEnds(w))

-----------------------------------------------------------------------------
(* Properties.                                                             *)

Busy == {"begin", "call", "submit", "poll", "wait", "collect", "transcribed", "failed",
         "backoff", "report"}

WorkerRecord ==
  [pc : Busy \cup {"none", "queued", "done"}, attempt : 0 .. MaxAttempts,
   result : {"none", "ok", "error"}]

TypeOK ==
  /\ up \in BOOLEAN /\ crashes \in 0 .. MaxCrashes
  /\ handler \in [Request -> {"idle", "prepare", "recognize", "discard", "respond",
                              "returned", "lost"}]
  /\ mode \in [Request -> Modes] /\ cancelled \subseteq Request /\ dir \subseteq Request
  /\ outcome \in [Request -> {"none", "ok", "error"}]
  /\ slots \in 0 .. Concurrency
  /\ worker \in [Worker -> WorkerRecord]
  /\ task \in [Worker -> {"none", "running", "succeeded", "failed"}]
  /\ file \in [Worker -> [Attempt -> {"none", "stored", "unknown", "kept"}]]

\* The slots taken are those of the segments that are being transcribed, on
\* every way out of TranscribeFile: one that is not given back would be
\* missing until the process ends, one given back twice would block.
SlotsAccounted == slots = Cardinality({w \in Worker : worker[w].pc \in Busy})

\* A file on the WebDAV server is there as long as the attempt that stored it
\* may be reading it; one whose PUT was answered stays longer only if its
\* DELETE was tried and failed or the process crashed, also when the request
\* is cancelled; and a segment is transcribed only after the DELETE of the
\* file it was read from.  A PUT whose answer was lost is not covered: what it
\* stored is not removed.
FileLifetime ==
  \A w \in Worker, a \in Attempt :
    LET mine    == worker[w].attempt = a
        reading == mine /\ worker[w].pc \in {"submit", "poll", "wait", "collect",
                                             "transcribed", "failed"}
    IN  /\ Mode(w) = "webdav" /\ reading => file[w][a] = "stored"
        /\ file[w][a] = "stored" => reading \/ handler[Owner(w)] = "lost"
        /\ Mode(w) = "webdav" /\ mine /\ worker[w].result = "ok" => file[w][a] \in {"none", "kept"}

\* A request succeeds only if each of its segments has, and an asynchronous
\* segment only if the task of its last attempt has.
SuccessIsEarned ==
  \A r \in Request : up /\ outcome[r] = "ok" /\ handler[r] \in {"discard", "respond", "returned"} =>
    \A w \in Started(r) :
      /\ worker[w].result = "ok"
      /\ mode[r] # "inline" => task[w] = "succeeded"

\* While the process runs, the directories are those of the requests being
\* handled: nothing is left of earlier requests or of an earlier process; and
\* no goroutine of a segment outlives the directory that its file is in,
\* although one segment may fail long before the others are done.
DirsAccounted ==
  /\ up => dir = {r \in Request : handler[r] \in {"prepare", "recognize", "discard"}}
  /\ \A w \in Worker : worker[w].pc \notin {"none", "done"} => Owner(w) \in dir

\* A request whose client has gone returns, wherever its goroutines are: in
\* the queue for a slot, between polls of a task that never ends, or between
\* two attempts.
CancelledReturns ==
  \A r \in Request : r \in cancelled ~> handler[r] \in {"returned", "lost"}

\* If the service ends its tasks, every request is answered: segments that
\* wait for a slot do not starve.
RequestsReturn ==
  TasksEnd => \A r \in Request : handler[r] = "prepare" ~> handler[r] \in {"returned", "lost"}

=============================================================================
