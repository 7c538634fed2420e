----------------------- MODULE OfflineTranscriptionProofs -----------------------
(***************************************************************************)
(* Proofs about OfflineTranscription for any number of requests, segments, *)
(* attempts and crashes: the slots of apiSem, the files and directories,   *)
(* and what a success stands for.                                          *)
(*                                                                         *)
(* The inductive invariant is OfflineInv.  Steady is about one segment: a  *)
(* goroutine that is not done has a handler that waits for it, the result  *)
(* it reports is that of the task of its last attempt, and the file of the *)
(* current attempt is stored exactly while it may be read, and its DELETE  *)
(* has been tried once the segment is transcribed.  Settled is             *)
(* about the process: what survives a crash and what does not.  A step of  *)
(* a goroutine disturbs neither unless it takes or gives a slot:           *)
(* LocalKeeps.                                                             *)
(***************************************************************************)
EXTENDS OfflineTranscription, FiniteSetTheorems, TLAPS

Reading == {"submit", "poll", "wait", "collect", "transcribed", "failed"}
Trying  == Reading \cup {"call", "backoff"}
Idle    == {"none", "done"}

TaskState == {"none", "running", "succeeded", "failed"}
Files     == [Attempt -> {"none", "stored", "unknown", "kept"}]
HandlerState == {"idle", "prepare", "recognize", "discard", "respond", "returned", "lost"}

\* There is another attempt.
Another(s) == s.attempt + 1 \in Attempt

\* A segment: its goroutine s, its task t and its files f, of a request of
\* mode m whose handler is at h.
Steady(s, t, f, m, h) ==
  /\ s.pc \notin {"report", "done"} => s.result = "none"
  /\ s.pc \in {"report", "done"} => s.result \in {"ok", "error"}
  /\ s.pc \in Trying => s.attempt \in Attempt
  /\ s.pc = "backoff" => Another(s)
  /\ s.pc \in {"collect", "transcribed"} => t = "succeeded"
  /\ s.result = "ok" => m = "inline" \/ t = "succeeded"
  /\ s.pc \notin Idle => h = "recognize"
  /\ m = "webdav" /\ s.result = "ok" =>
       s.attempt \in Attempt /\ f[s.attempt] \in {"none", "kept"}
  /\ \A a \in Attempt :
       /\ f[a] = "stored" => m = "webdav" /\ ((s.attempt = a /\ s.pc \in Reading) \/ h = "lost")
       /\ m = "webdav" /\ s.attempt = a /\ s.pc \in Reading => f[a] = "stored"

SteadyAt(w) == Steady(worker[w], task[w], file[w], Mode(w), handler[Owner(w)])

Dirs == {r \in Request : handler[r] \in {"prepare", "recognize", "discard"}}

Settled ==
  /\ up => dir = Dirs
  /\ ~up => /\ \A w \in Worker : worker[w].pc = "none"
            /\ \A r \in Request : handler[r] \in {"idle", "returned", "lost"}
  /\ \A w \in Worker :
       up /\ outcome[Owner(w)] = "ok" /\ handler[Owner(w)] \in {"discard", "respond", "returned"}
         => worker[w].pc = "none" \/ worker[w].result = "ok"

BusyWorkers == {w \in Worker : worker[w].pc \in Busy}
Counted == slots = Cardinality(BusyWorkers)

OfflineInv == TypeOK /\ (\A w \in Worker : SteadyAt(w)) /\ Settled /\ Counted

LEMMA Assumed ==
  /\ IsFiniteSet(Request) /\ MaxSegments \in Nat /\ Concurrency \in Nat
  /\ MaxAttempts \in Nat /\ MaxAttempts > 0 /\ MaxCrashes \in Nat
<1>1. \A n \in {MaxSegments, Concurrency, MaxAttempts} : n \in Nat /\ n > 0
  BY OfflineAssumption DEF OfflineAssumption
<1>2. IsFiniteSet(Request) /\ MaxCrashes \in Nat
  BY OfflineAssumption DEF OfflineAssumption
<1> QED BY <1>1, <1>2

LEMMA Owners == \A w \in Worker : Owner(w) \in Request
BY DEF Worker, Owner

LEMMA BusyFinite == IsFiniteSet(BusyWorkers) /\ Cardinality(BusyWorkers) \in Nat
<1>1. IsFiniteSet(Segment)
  BY Assumed, FS_Interval DEF Segment
<1>2. IsFiniteSet(Worker)
  BY <1>1, Assumed, FS_Product DEF Worker
<1>3. BusyWorkers \in SUBSET Worker
  BY DEF BusyWorkers
<1> QED BY <1>2, <1>3, FS_Subset, FS_CardinalityType

\* The pieces of TypeOK that the proofs use.
LEMMA Types ==
  ASSUME TypeOK
  PROVE  /\ worker \in [Worker -> WorkerRecord] /\ task \in [Worker -> TaskState]
         /\ file \in [Worker -> Files] /\ handler \in [Request -> HandlerState]
         /\ mode \in [Request -> Modes] /\ outcome \in [Request -> {"none", "ok", "error"}]
         /\ slots \in 0 .. Concurrency
BY DEF TypeOK, TaskState, Files, HandlerState

-----------------------------------------------------------------------------
(* Steps of a goroutine.                                                   *)

\* What segment w becomes: nothing else changes but, maybe, the slots.
Becomes(w, s, t, f) ==
  /\ worker' = [worker EXCEPT ![w] = s]
  /\ task' = [task EXCEPT ![w] = t]
  /\ file' = [file EXCEPT ![w] = f]
  /\ UNCHANGED <<process, request>>

LEMMA BecomesKeeps ==
  ASSUME OfflineInv, NEW w \in Worker,
         NEW s \in WorkerRecord, NEW t \in TaskState, NEW f \in Files,
         Becomes(w, s, t, f), worker[w].pc \notin Idle,
         Steady(s, t, f, Mode(w), handler[Owner(w)]), slots' \in 0 .. Concurrency
  PROVE  /\ TypeOK' /\ (\A v \in Worker : SteadyAt(v)') /\ Settled'
         /\ \A v \in Worker : worker'[v] = IF v = w THEN s ELSE worker[v]
<1>0. /\ worker \in [Worker -> WorkerRecord] /\ task \in [Worker -> TaskState]
      /\ file \in [Worker -> Files]
  BY Types DEF OfflineInv
<1>1. /\ worker' \in [Worker -> WorkerRecord] /\ task' \in [Worker -> TaskState]
      /\ file' \in [Worker -> Files]
      /\ UNCHANGED <<up, crashes, handler, mode, cancelled, dir, outcome>>
  BY <1>0 DEF Becomes, process, request
<1>2. \A v \in Worker : /\ worker'[v] = IF v = w THEN s ELSE worker[v]
                        /\ task'[v] = IF v = w THEN t ELSE task[v]
                        /\ file'[v] = IF v = w THEN f ELSE file[v]
  BY <1>0 DEF Becomes
<1>3. TypeOK'
  BY <1>1 DEF OfflineInv, TypeOK, TaskState, Files
<1>4. ASSUME NEW v \in Worker PROVE SteadyAt(v)'
  <2>1. Mode(v)' = Mode(v) /\ handler'[Owner(v)] = handler[Owner(v)] /\ SteadyAt(v)
    BY <1>1 DEF Mode, OfflineInv
  <2>2. CASE v = w
    BY <1>2, <2>1, <2>2 DEF SteadyAt
  <2>3. CASE v # w
    BY <1>2, <2>1, <2>3 DEF SteadyAt
  <2> QED BY <2>2, <2>3
<1>5. up /\ handler[Owner(w)] = "recognize"
  BY DEF OfflineInv, SteadyAt, Steady, Settled, Idle
<1>6. Settled'
  BY <1>1, <1>2, <1>5 DEF OfflineInv, Settled, Dirs
<1> QED BY <1>2, <1>3, <1>4, <1>6

\* ... and if it is as busy as it was, the slots are as they were.
LEMMA LocalKeeps ==
  ASSUME OfflineInv, NEW w \in Worker,
         NEW s \in WorkerRecord, NEW t \in TaskState, NEW f \in Files,
         Becomes(w, s, t, f), worker[w].pc \notin Idle,
         Steady(s, t, f, Mode(w), handler[Owner(w)]),
         s.pc \in Busy <=> worker[w].pc \in Busy, UNCHANGED slots
  PROVE  OfflineInv'
<1>1. slots' \in 0 .. Concurrency
  BY Types DEF OfflineInv
<1>2. /\ TypeOK' /\ (\A v \in Worker : SteadyAt(v)') /\ Settled'
      /\ \A v \in Worker : worker'[v] = IF v = w THEN s ELSE worker[v]
  BY <1>1, BecomesKeeps
<1>3. BusyWorkers' = BusyWorkers
  BY <1>2 DEF BusyWorkers
<1> QED BY <1>2, <1>3 DEF OfflineInv, Counted

\* What is known of segment w before a step of its goroutine.
LEMMA Before ==
  ASSUME OfflineInv, NEW w \in Worker
  PROVE  /\ worker[w] \in WorkerRecord /\ task[w] \in TaskState /\ file[w] \in Files
         /\ Steady(worker[w], task[w], file[w], Mode(w), handler[Owner(w)])
         /\ task = [task EXCEPT ![w] = task[w]] /\ file = [file EXCEPT ![w] = file[w]]
         /\ worker = [worker EXCEPT ![w] = worker[w]]
BY Types DEF OfflineInv, SteadyAt

\* The record of a goroutine after a failed attempt.
Again(s) == IF s.attempt < MaxAttempts THEN [s EXCEPT !.pc = "backoff"]
            ELSE [s EXCEPT !.pc = "report", !.result = "error"]

LEMMA AgainIs ==
  ASSUME NEW w \in Worker, Retry(w)
  PROVE  worker' = [worker EXCEPT ![w] = Again(worker[w])]
BY DEF Retry, Goto, Report, Again

LEMMA AgainHas ==
  ASSUME NEW s \in WorkerRecord
  PROVE  /\ Again(s) \in WorkerRecord
         /\ Again(s).attempt = s.attempt
         /\ \/ Again(s).pc = "backoff" /\ Again(s).result = s.result /\ Another(Again(s))
            \/ Again(s).pc = "report" /\ Again(s).result = "error"
<1>1. s.attempt \in 0 .. MaxAttempts /\ MaxAttempts \in Nat
  BY Assumed DEF WorkerRecord
<1>2. CASE s.attempt < MaxAttempts
  <2>1. s.attempt + 1 \in Attempt
    BY <1>1, <1>2 DEF Attempt
  <2>2. Again(s) = [s EXCEPT !.pc = "backoff"]
    BY <1>2 DEF Again
  <2> QED BY <2>1, <2>2 DEF WorkerRecord, Busy, Another
<1>3. CASE ~(s.attempt < MaxAttempts)
  <2>1. Again(s) = [s EXCEPT !.pc = "report", !.result = "error"]
    BY <1>3 DEF Again
  <2> QED BY <2>1 DEF WorkerRecord, Busy
<1> QED BY <1>2, <1>3

\* The next attempt is one, and the first is one.
LEMMA Attempts ==
  /\ 1 \in Attempt /\ \A a \in Attempt : a \in 0 .. MaxAttempts
  /\ \A s : Another(s) => s.attempt + 1 \in Attempt
BY Assumed DEF Attempt, Another

LEMMA GiveUpKeeps ==
  ASSUME OfflineInv, NEW w \in Worker, GiveUp(w)
  PROVE  OfflineInv'
<1> DEFINE s == worker[w]
<1>0. /\ s \in WorkerRecord /\ task[w] \in TaskState /\ file[w] \in Files
      /\ Steady(s, task[w], file[w], Mode(w), handler[Owner(w)])
      /\ task = [task EXCEPT ![w] = task[w]] /\ file = [file EXCEPT ![w] = file[w]]
  BY Before
<1>1. s.pc = "queued" /\ UNCHANGED <<process, request, slots>>
  BY DEF GiveUp, At
<1>2. CASE /\ worker' = [worker EXCEPT ![w].pc = "done", ![w].result = "error"]
           /\ UNCHANGED <<task, file>>
  <2> DEFINE new == [s EXCEPT !.pc = "done", !.result = "error"]
             t == task[w]
             f == file[w]
  <2>1. new \in WorkerRecord /\ t \in TaskState /\ f \in Files
    BY <1>0, <1>1, <1>2 DEF WorkerRecord, Busy, Steady, Reading, Trying, Idle, TaskState, Files
  <2>2. Steady(new, t, f, Mode(w), handler[Owner(w)])
    BY <1>0, <1>1, <1>2 DEF WorkerRecord, Busy, Steady, Reading, Trying, Idle, TaskState, Files
  <2>3. (new.pc \in Busy <=> s.pc \in Busy) /\ s.pc \notin Idle
    BY <1>0, <1>1, <1>2 DEF WorkerRecord, Busy, Steady, Reading, Trying, Idle, TaskState, Files
  <2>4. Becomes(w, new, t, f)
    BY <1>0, <1>1, <1>2 DEF Becomes
  <2> HIDE DEF new, t, f
  <2> QED BY <1>1, <2>1, <2>2, <2>3, <2>4, LocalKeeps
<1> QED BY <1>2 DEF GiveUp, external

LEMMA BeginKeeps ==
  ASSUME OfflineInv, NEW w \in Worker, Begin(w)
  PROVE  OfflineInv'
<1> DEFINE s == worker[w]
<1>0. /\ s \in WorkerRecord /\ task[w] \in TaskState /\ file[w] \in Files
      /\ Steady(s, task[w], file[w], Mode(w), handler[Owner(w)])
      /\ task = [task EXCEPT ![w] = task[w]] /\ file = [file EXCEPT ![w] = file[w]]
  BY Before
<1>1. s.pc = "begin" /\ UNCHANGED <<process, request, slots>>
  BY DEF Begin, At
<1>2. CASE /\ Report(w, "error")
           /\ UNCHANGED <<task, file>>
  <2> DEFINE new == [s EXCEPT !.pc = "report", !.result = "error"]
             t == task[w]
             f == file[w]
  <2>1. new \in WorkerRecord /\ t \in TaskState /\ f \in Files
    BY <1>0, <1>1, <1>2, Attempts DEF WorkerRecord, Busy, Steady, Reading, Trying, Idle, TaskState, Files
  <2>2. Steady(new, t, f, Mode(w), handler[Owner(w)])
    BY <1>0, <1>1, <1>2, Attempts DEF WorkerRecord, Busy, Steady, Reading, Trying, Idle, TaskState, Files
  <2>3. (new.pc \in Busy <=> s.pc \in Busy) /\ s.pc \notin Idle
    BY <1>0, <1>1, <1>2, Attempts DEF WorkerRecord, Busy, Steady, Reading, Trying, Idle, TaskState, Files
  <2>4. Becomes(w, new, t, f)
    BY <1>0, <1>1, <1>2 DEF Becomes, Report
  <2> HIDE DEF new, t, f
  <2> QED BY <1>1, <2>1, <2>2, <2>3, <2>4, LocalKeeps
<1>3. CASE /\ worker' = [worker EXCEPT ![w].pc = "call", ![w].attempt = 1]
           /\ UNCHANGED <<task, file>>
  <2> DEFINE new == [s EXCEPT !.pc = "call", !.attempt = 1]
             t == task[w]
             f == file[w]
  <2>1. new \in WorkerRecord /\ t \in TaskState /\ f \in Files
    BY <1>0, <1>1, <1>3, Attempts DEF WorkerRecord, Busy, Steady, Reading, Trying, Idle, TaskState, Files
  <2>2. Steady(new, t, f, Mode(w), handler[Owner(w)])
    BY <1>0, <1>1, <1>3, Attempts DEF WorkerRecord, Busy, Steady, Reading, Trying, Idle, TaskState, Files
  <2>3. (new.pc \in Busy <=> s.pc \in Busy) /\ s.pc \notin Idle
    BY <1>0, <1>1, <1>3, Attempts DEF WorkerRecord, Busy, Steady, Reading, Trying, Idle, TaskState, Files
  <2>4. Becomes(w, new, t, f)
    BY <1>0, <1>1, <1>3 DEF Becomes
  <2> HIDE DEF new, t, f
  <2> QED BY <1>1, <2>1, <2>2, <2>3, <2>4, LocalKeeps
<1> QED BY <1>2, <1>3 DEF Begin, external

LEMMA InlineKeeps ==
  ASSUME OfflineInv, NEW w \in Worker, Inline(w)
  PROVE  OfflineInv'
<1> DEFINE s == worker[w]
<1>0. /\ s \in WorkerRecord /\ task[w] \in TaskState /\ file[w] \in Files
      /\ Steady(s, task[w], file[w], Mode(w), handler[Owner(w)])
      /\ task = [task EXCEPT ![w] = task[w]] /\ file = [file EXCEPT ![w] = file[w]]
  BY Before
<1>1. s.pc = "call" /\ Mode(w) = "inline" /\ UNCHANGED <<process, request, slots>>
  BY DEF Inline, At
<1>2. CASE /\ Report(w, "ok")
           /\ UNCHANGED <<task, file>>
  <2> DEFINE new == [s EXCEPT !.pc = "report", !.result = "ok"]
             t == task[w]
             f == file[w]
  <2>1. new \in WorkerRecord /\ t \in TaskState /\ f \in Files
    BY <1>0, <1>1, <1>2 DEF WorkerRecord, Busy, Steady, Reading, Trying, Idle, TaskState, Files
  <2>2. Steady(new, t, f, Mode(w), handler[Owner(w)])
    BY <1>0, <1>1, <1>2 DEF WorkerRecord, Busy, Steady, Reading, Trying, Idle, TaskState, Files
  <2>3. (new.pc \in Busy <=> s.pc \in Busy) /\ s.pc \notin Idle
    BY <1>0, <1>1, <1>2 DEF WorkerRecord, Busy, Steady, Reading, Trying, Idle, TaskState, Files
  <2>4. Becomes(w, new, t, f)
    BY <1>0, <1>1, <1>2 DEF Becomes, Report
  <2> HIDE DEF new, t, f
  <2> QED BY <1>1, <2>1, <2>2, <2>3, <2>4, LocalKeeps
<1>3. CASE /\ Retry(w)
           /\ UNCHANGED <<task, file>>
  <2> DEFINE new == Again(s)
             t == task[w]
             f == file[w]
  <2>1. new \in WorkerRecord /\ t \in TaskState /\ f \in Files
    BY <1>0, <1>1, <1>3, AgainHas DEF WorkerRecord, Busy, Steady, Reading, Trying, Idle, TaskState, Files
  <2>2. Steady(new, t, f, Mode(w), handler[Owner(w)])
    BY <1>0, <1>1, <1>3, AgainHas DEF WorkerRecord, Busy, Steady, Reading, Trying, Idle, TaskState, Files
  <2>3. (new.pc \in Busy <=> s.pc \in Busy) /\ s.pc \notin Idle
    BY <1>0, <1>1, <1>3, AgainHas DEF WorkerRecord, Busy, Steady, Reading, Trying, Idle, TaskState, Files
  <2>4. Becomes(w, new, t, f)
    BY <1>0, <1>1, <1>3, AgainIs DEF Becomes
  <2> HIDE DEF new, t, f
  <2> QED BY <1>1, <2>1, <2>2, <2>3, <2>4, LocalKeeps
<1> QED BY <1>2, <1>3 DEF Inline, external

LEMMA UploadKeeps ==
  ASSUME OfflineInv, NEW w \in Worker, Upload(w)
  PROVE  OfflineInv'
<1> DEFINE s == worker[w]
<1>0. /\ s \in WorkerRecord /\ task[w] \in TaskState /\ file[w] \in Files
      /\ Steady(s, task[w], file[w], Mode(w), handler[Owner(w)])
      /\ task = [task EXCEPT ![w] = task[w]] /\ file = [file EXCEPT ![w] = file[w]]
  BY Before
<1>1. s.pc = "call" /\ Mode(w) # "inline" /\ UNCHANGED <<process, request, slots>>
  BY DEF Upload, At
<1>2. CASE /\ Mode(w) = "oss"
           /\ Goto(w, "submit")
           /\ UNCHANGED <<task, file>>
  <2> DEFINE new == [s EXCEPT !.pc = "submit"]
             t == task[w]
             f == file[w]
  <2>1. new \in WorkerRecord /\ t \in TaskState /\ f \in Files
    BY <1>0, <1>1, <1>2 DEF WorkerRecord, Busy, Steady, Reading, Trying, Idle, TaskState, Files
  <2>2. Steady(new, t, f, Mode(w), handler[Owner(w)])
    BY <1>0, <1>1, <1>2 DEF WorkerRecord, Busy, Steady, Reading, Trying, Idle, TaskState, Files
  <2>3. (new.pc \in Busy <=> s.pc \in Busy) /\ s.pc \notin Idle
    BY <1>0, <1>1, <1>2 DEF WorkerRecord, Busy, Steady, Reading, Trying, Idle, TaskState, Files
  <2>4. Becomes(w, new, t, f)
    BY <1>0, <1>1, <1>2 DEF Becomes, Goto
  <2> HIDE DEF new, t, f
  <2> QED BY <1>1, <2>1, <2>2, <2>3, <2>4, LocalKeeps
<1>3. CASE /\ Mode(w) = "webdav"
           /\ Goto(w, "submit")
           /\ Filed(w, "stored")
           /\ UNCHANGED task
  <2> DEFINE new == [s EXCEPT !.pc = "submit"]
             t == task[w]
             f == [file[w] EXCEPT ![s.attempt] = "stored"]
  <2>1. new \in WorkerRecord /\ t \in TaskState /\ f \in Files
    BY <1>0, <1>1, <1>3 DEF WorkerRecord, Busy, Steady, Reading, Trying, Idle, TaskState, Files
  <2>2. Steady(new, t, f, Mode(w), handler[Owner(w)])
    BY <1>0, <1>1, <1>3 DEF WorkerRecord, Busy, Steady, Reading, Trying, Idle, TaskState, Files
  <2>3. (new.pc \in Busy <=> s.pc \in Busy) /\ s.pc \notin Idle
    BY <1>0, <1>1, <1>3 DEF WorkerRecord, Busy, Steady, Reading, Trying, Idle, TaskState, Files
  <2>4. Becomes(w, new, t, f)
    BY <1>0, <1>1, <1>3 DEF Becomes, Goto, Filed
  <2> HIDE DEF new, t, f
  <2> QED BY <1>1, <2>1, <2>2, <2>3, <2>4, LocalKeeps
<1>4. CASE /\ Retry(w)
           /\ UNCHANGED <<task, file>>
  <2> DEFINE new == Again(s)
             t == task[w]
             f == file[w]
  <2>1. new \in WorkerRecord /\ t \in TaskState /\ f \in Files
    BY <1>0, <1>1, <1>4, AgainHas DEF WorkerRecord, Busy, Steady, Reading, Trying, Idle, TaskState, Files
  <2>2. Steady(new, t, f, Mode(w), handler[Owner(w)])
    BY <1>0, <1>1, <1>4, AgainHas DEF WorkerRecord, Busy, Steady, Reading, Trying, Idle, TaskState, Files
  <2>3. (new.pc \in Busy <=> s.pc \in Busy) /\ s.pc \notin Idle
    BY <1>0, <1>1, <1>4, AgainHas DEF WorkerRecord, Busy, Steady, Reading, Trying, Idle, TaskState, Files
  <2>4. Becomes(w, new, t, f)
    BY <1>0, <1>1, <1>4, AgainIs DEF Becomes
  <2> HIDE DEF new, t, f
  <2> QED BY <1>1, <2>1, <2>2, <2>3, <2>4, LocalKeeps
<1>5. CASE /\ Retry(w)
           /\ Filed(w, "unknown")
           /\ UNCHANGED task
  <2> DEFINE new == Again(s)
             t == task[w]
             f == [file[w] EXCEPT ![s.attempt] = "unknown"]
  <2>1. new \in WorkerRecord /\ t \in TaskState /\ f \in Files
    BY <1>0, <1>1, <1>5, AgainHas DEF WorkerRecord, Busy, Steady, Reading, Trying, Idle, TaskState, Files
  <2>2. Steady(new, t, f, Mode(w), handler[Owner(w)])
    BY <1>0, <1>1, <1>5, AgainHas DEF WorkerRecord, Busy, Steady, Reading, Trying, Idle, TaskState, Files
  <2>3. (new.pc \in Busy <=> s.pc \in Busy) /\ s.pc \notin Idle
    BY <1>0, <1>1, <1>5, AgainHas DEF WorkerRecord, Busy, Steady, Reading, Trying, Idle, TaskState, Files
  <2>4. Becomes(w, new, t, f)
    BY <1>0, <1>1, <1>5, AgainIs DEF Becomes, Filed
  <2> HIDE DEF new, t, f
  <2> QED BY <1>1, <2>1, <2>2, <2>3, <2>4, LocalKeeps
<1> QED BY <1>2, <1>3, <1>4, <1>5 DEF Upload, external

LEMMA SubmitKeeps ==
  ASSUME OfflineInv, NEW w \in Worker, Submit(w)
  PROVE  OfflineInv'
<1> DEFINE s == worker[w]
<1>0. /\ s \in WorkerRecord /\ task[w] \in TaskState /\ file[w] \in Files
      /\ Steady(s, task[w], file[w], Mode(w), handler[Owner(w)])
      /\ task = [task EXCEPT ![w] = task[w]] /\ file = [file EXCEPT ![w] = file[w]]
  BY Before
<1>1. s.pc = "submit" /\ UNCHANGED <<process, request, slots>>
  BY DEF Submit, At
<1>2. CASE /\ Goto(w, "poll")
           /\ task' = [task EXCEPT ![w] = "running"]
           /\ UNCHANGED file
  <2> DEFINE new == [s EXCEPT !.pc = "poll"]
             t == "running"
             f == file[w]
  <2>1. new \in WorkerRecord /\ t \in TaskState /\ f \in Files
    BY <1>0, <1>1, <1>2 DEF WorkerRecord, Busy, Steady, Reading, Trying, Idle, TaskState, Files
  <2>2. Steady(new, t, f, Mode(w), handler[Owner(w)])
    BY <1>0, <1>1, <1>2 DEF WorkerRecord, Busy, Steady, Reading, Trying, Idle, TaskState, Files
  <2>3. (new.pc \in Busy <=> s.pc \in Busy) /\ s.pc \notin Idle
    BY <1>0, <1>1, <1>2 DEF WorkerRecord, Busy, Steady, Reading, Trying, Idle, TaskState, Files
  <2>4. Becomes(w, new, t, f)
    BY <1>0, <1>1, <1>2 DEF Becomes, Goto
  <2> HIDE DEF new, t, f
  <2> QED BY <1>1, <2>1, <2>2, <2>3, <2>4, LocalKeeps
<1>3. CASE /\ Goto(w, "failed")
           /\ UNCHANGED <<task, file>>
  <2> DEFINE new == [s EXCEPT !.pc = "failed"]
             t == task[w]
             f == file[w]
  <2>1. new \in WorkerRecord /\ t \in TaskState /\ f \in Files
    BY <1>0, <1>1, <1>3 DEF WorkerRecord, Busy, Steady, Reading, Trying, Idle, TaskState, Files
  <2>2. Steady(new, t, f, Mode(w), handler[Owner(w)])
    BY <1>0, <1>1, <1>3 DEF WorkerRecord, Busy, Steady, Reading, Trying, Idle, TaskState, Files
  <2>3. (new.pc \in Busy <=> s.pc \in Busy) /\ s.pc \notin Idle
    BY <1>0, <1>1, <1>3 DEF WorkerRecord, Busy, Steady, Reading, Trying, Idle, TaskState, Files
  <2>4. Becomes(w, new, t, f)
    BY <1>0, <1>1, <1>3 DEF Becomes, Goto
  <2> HIDE DEF new, t, f
  <2> QED BY <1>1, <2>1, <2>2, <2>3, <2>4, LocalKeeps
<1> QED BY <1>2, <1>3 DEF Submit, external

LEMMA PollKeeps ==
  ASSUME OfflineInv, NEW w \in Worker, Poll(w)
  PROVE  OfflineInv'
<1> DEFINE s == worker[w]
<1>0. /\ s \in WorkerRecord /\ task[w] \in TaskState /\ file[w] \in Files
      /\ Steady(s, task[w], file[w], Mode(w), handler[Owner(w)])
      /\ task = [task EXCEPT ![w] = task[w]] /\ file = [file EXCEPT ![w] = file[w]]
  BY Before
<1>1. s.pc = "poll" /\ UNCHANGED <<process, request, slots>>
  BY DEF Poll, At
<1>2. CASE /\ Goto(w, "wait")
           /\ UNCHANGED <<task, file>>
  <2> DEFINE new == [s EXCEPT !.pc = "wait"]
             t == task[w]
             f == file[w]
  <2>1. new \in WorkerRecord /\ t \in TaskState /\ f \in Files
    BY <1>0, <1>1, <1>2 DEF WorkerRecord, Busy, Steady, Reading, Trying, Idle, TaskState, Files
  <2>2. Steady(new, t, f, Mode(w), handler[Owner(w)])
    BY <1>0, <1>1, <1>2 DEF WorkerRecord, Busy, Steady, Reading, Trying, Idle, TaskState, Files
  <2>3. (new.pc \in Busy <=> s.pc \in Busy) /\ s.pc \notin Idle
    BY <1>0, <1>1, <1>2 DEF WorkerRecord, Busy, Steady, Reading, Trying, Idle, TaskState, Files
  <2>4. Becomes(w, new, t, f)
    BY <1>0, <1>1, <1>2 DEF Becomes, Goto
  <2> HIDE DEF new, t, f
  <2> QED BY <1>1, <2>1, <2>2, <2>3, <2>4, LocalKeeps
<1>3. CASE /\ task[w] = "succeeded"
           /\ Goto(w, "collect")
           /\ UNCHANGED <<task, file>>
  <2> DEFINE new == [s EXCEPT !.pc = "collect"]
             t == task[w]
             f == file[w]
  <2>1. new \in WorkerRecord /\ t \in TaskState /\ f \in Files
    BY <1>0, <1>1, <1>3 DEF WorkerRecord, Busy, Steady, Reading, Trying, Idle, TaskState, Files
  <2>2. Steady(new, t, f, Mode(w), handler[Owner(w)])
    BY <1>0, <1>1, <1>3 DEF WorkerRecord, Busy, Steady, Reading, Trying, Idle, TaskState, Files
  <2>3. (new.pc \in Busy <=> s.pc \in Busy) /\ s.pc \notin Idle
    BY <1>0, <1>1, <1>3 DEF WorkerRecord, Busy, Steady, Reading, Trying, Idle, TaskState, Files
  <2>4. Becomes(w, new, t, f)
    BY <1>0, <1>1, <1>3 DEF Becomes, Goto
  <2> HIDE DEF new, t, f
  <2> QED BY <1>1, <2>1, <2>2, <2>3, <2>4, LocalKeeps
<1>4. CASE /\ Goto(w, "failed")
           /\ UNCHANGED <<task, file>>
  <2> DEFINE new == [s EXCEPT !.pc = "failed"]
             t == task[w]
             f == file[w]
  <2>1. new \in WorkerRecord /\ t \in TaskState /\ f \in Files
    BY <1>0, <1>1, <1>4 DEF WorkerRecord, Busy, Steady, Reading, Trying, Idle, TaskState, Files
  <2>2. Steady(new, t, f, Mode(w), handler[Owner(w)])
    BY <1>0, <1>1, <1>4 DEF WorkerRecord, Busy, Steady, Reading, Trying, Idle, TaskState, Files
  <2>3. (new.pc \in Busy <=> s.pc \in Busy) /\ s.pc \notin Idle
    BY <1>0, <1>1, <1>4 DEF WorkerRecord, Busy, Steady, Reading, Trying, Idle, TaskState, Files
  <2>4. Becomes(w, new, t, f)
    BY <1>0, <1>1, <1>4 DEF Becomes, Goto
  <2> HIDE DEF new, t, f
  <2> QED BY <1>1, <2>1, <2>2, <2>3, <2>4, LocalKeeps
<1> QED BY <1>2, <1>3, <1>4 DEF Poll, external

LEMMA PollAgainKeeps ==
  ASSUME OfflineInv, NEW w \in Worker, PollAgain(w)
  PROVE  OfflineInv'
<1> DEFINE s == worker[w]
<1>0. /\ s \in WorkerRecord /\ task[w] \in TaskState /\ file[w] \in Files
      /\ Steady(s, task[w], file[w], Mode(w), handler[Owner(w)])
      /\ task = [task EXCEPT ![w] = task[w]] /\ file = [file EXCEPT ![w] = file[w]]
  BY Before
<1>1. s.pc = "wait" /\ UNCHANGED <<process, request, slots>>
  BY DEF PollAgain, At
<1>2. CASE /\ Goto(w, "poll")
           /\ UNCHANGED <<task, file>>
  <2> DEFINE new == [s EXCEPT !.pc = "poll"]
             t == task[w]
             f == file[w]
  <2>1. new \in WorkerRecord /\ t \in TaskState /\ f \in Files
    BY <1>0, <1>1, <1>2 DEF WorkerRecord, Busy, Steady, Reading, Trying, Idle, TaskState, Files
  <2>2. Steady(new, t, f, Mode(w), handler[Owner(w)])
    BY <1>0, <1>1, <1>2 DEF WorkerRecord, Busy, Steady, Reading, Trying, Idle, TaskState, Files
  <2>3. (new.pc \in Busy <=> s.pc \in Busy) /\ s.pc \notin Idle
    BY <1>0, <1>1, <1>2 DEF WorkerRecord, Busy, Steady, Reading, Trying, Idle, TaskState, Files
  <2>4. Becomes(w, new, t, f)
    BY <1>0, <1>1, <1>2 DEF Becomes, Goto
  <2> HIDE DEF new, t, f
  <2> QED BY <1>1, <2>1, <2>2, <2>3, <2>4, LocalKeeps
<1> QED BY <1>2 DEF PollAgain, external

LEMMA StopWaitingKeeps ==
  ASSUME OfflineInv, NEW w \in Worker, StopWaiting(w)
  PROVE  OfflineInv'
<1> DEFINE s == worker[w]
<1>0. /\ s \in WorkerRecord /\ task[w] \in TaskState /\ file[w] \in Files
      /\ Steady(s, task[w], file[w], Mode(w), handler[Owner(w)])
      /\ task = [task EXCEPT ![w] = task[w]] /\ file = [file EXCEPT ![w] = file[w]]
  BY Before
<1>1. s.pc = "wait" /\ UNCHANGED <<process, request, slots>>
  BY DEF StopWaiting, At
<1>2. CASE /\ Goto(w, "failed")
           /\ UNCHANGED <<task, file>>
  <2> DEFINE new == [s EXCEPT !.pc = "failed"]
             t == task[w]
             f == file[w]
  <2>1. new \in WorkerRecord /\ t \in TaskState /\ f \in Files
    BY <1>0, <1>1, <1>2 DEF WorkerRecord, Busy, Steady, Reading, Trying, Idle, TaskState, Files
  <2>2. Steady(new, t, f, Mode(w), handler[Owner(w)])
    BY <1>0, <1>1, <1>2 DEF WorkerRecord, Busy, Steady, Reading, Trying, Idle, TaskState, Files
  <2>3. (new.pc \in Busy <=> s.pc \in Busy) /\ s.pc \notin Idle
    BY <1>0, <1>1, <1>2 DEF WorkerRecord, Busy, Steady, Reading, Trying, Idle, TaskState, Files
  <2>4. Becomes(w, new, t, f)
    BY <1>0, <1>1, <1>2 DEF Becomes, Goto
  <2> HIDE DEF new, t, f
  <2> QED BY <1>1, <2>1, <2>2, <2>3, <2>4, LocalKeeps
<1> QED BY <1>2 DEF StopWaiting, external

LEMMA CollectKeeps ==
  ASSUME OfflineInv, NEW w \in Worker, Collect(w)
  PROVE  OfflineInv'
<1> DEFINE s == worker[w]
<1>0. /\ s \in WorkerRecord /\ task[w] \in TaskState /\ file[w] \in Files
      /\ Steady(s, task[w], file[w], Mode(w), handler[Owner(w)])
      /\ task = [task EXCEPT ![w] = task[w]] /\ file = [file EXCEPT ![w] = file[w]]
  BY Before
<1>1. s.pc = "collect" /\ UNCHANGED <<process, request, slots>>
  BY DEF Collect, At
<1>2. CASE /\ Goto(w, "transcribed")
           /\ UNCHANGED <<task, file>>
  <2> DEFINE new == [s EXCEPT !.pc = "transcribed"]
             t == task[w]
             f == file[w]
  <2>1. new \in WorkerRecord /\ t \in TaskState /\ f \in Files
    BY <1>0, <1>1, <1>2 DEF WorkerRecord, Busy, Steady, Reading, Trying, Idle, TaskState, Files
  <2>2. Steady(new, t, f, Mode(w), handler[Owner(w)])
    BY <1>0, <1>1, <1>2 DEF WorkerRecord, Busy, Steady, Reading, Trying, Idle, TaskState, Files
  <2>3. (new.pc \in Busy <=> s.pc \in Busy) /\ s.pc \notin Idle
    BY <1>0, <1>1, <1>2 DEF WorkerRecord, Busy, Steady, Reading, Trying, Idle, TaskState, Files
  <2>4. Becomes(w, new, t, f)
    BY <1>0, <1>1, <1>2 DEF Becomes, Goto
  <2> HIDE DEF new, t, f
  <2> QED BY <1>1, <2>1, <2>2, <2>3, <2>4, LocalKeeps
<1>3. CASE /\ Goto(w, "failed")
           /\ UNCHANGED <<task, file>>
  <2> DEFINE new == [s EXCEPT !.pc = "failed"]
             t == task[w]
             f == file[w]
  <2>1. new \in WorkerRecord /\ t \in TaskState /\ f \in Files
    BY <1>0, <1>1, <1>3 DEF WorkerRecord, Busy, Steady, Reading, Trying, Idle, TaskState, Files
  <2>2. Steady(new, t, f, Mode(w), handler[Owner(w)])
    BY <1>0, <1>1, <1>3 DEF WorkerRecord, Busy, Steady, Reading, Trying, Idle, TaskState, Files
  <2>3. (new.pc \in Busy <=> s.pc \in Busy) /\ s.pc \notin Idle
    BY <1>0, <1>1, <1>3 DEF WorkerRecord, Busy, Steady, Reading, Trying, Idle, TaskState, Files
  <2>4. Becomes(w, new, t, f)
    BY <1>0, <1>1, <1>3 DEF Becomes, Goto
  <2> HIDE DEF new, t, f
  <2> QED BY <1>1, <2>1, <2>2, <2>3, <2>4, LocalKeeps
<1> QED BY <1>2, <1>3 DEF Collect, external

LEMMA TryAgainKeeps ==
  ASSUME OfflineInv, NEW w \in Worker, TryAgain(w)
  PROVE  OfflineInv'
<1> DEFINE s == worker[w]
<1>0. /\ s \in WorkerRecord /\ task[w] \in TaskState /\ file[w] \in Files
      /\ Steady(s, task[w], file[w], Mode(w), handler[Owner(w)])
      /\ task = [task EXCEPT ![w] = task[w]] /\ file = [file EXCEPT ![w] = file[w]]
  BY Before
<1>1. s.pc = "backoff" /\ UNCHANGED <<process, request, slots>>
  BY DEF TryAgain, At
<1>2. CASE /\ worker' = [worker EXCEPT ![w].pc = "call", ![w].attempt = @ + 1]
           /\ task' = [task EXCEPT ![w] = "none"]
           /\ UNCHANGED file
  <2> DEFINE new == [s EXCEPT !.pc = "call", !.attempt = @ + 1]
             t == "none"
             f == file[w]
  <2>1. new \in WorkerRecord /\ t \in TaskState /\ f \in Files
    BY <1>0, <1>1, <1>2, Attempts DEF WorkerRecord, Busy, Steady, Reading, Trying, Idle, TaskState, Files
  <2>2. Steady(new, t, f, Mode(w), handler[Owner(w)])
    BY <1>0, <1>1, <1>2, Attempts DEF WorkerRecord, Busy, Steady, Reading, Trying, Idle, TaskState, Files
  <2>3. (new.pc \in Busy <=> s.pc \in Busy) /\ s.pc \notin Idle
    BY <1>0, <1>1, <1>2, Attempts DEF WorkerRecord, Busy, Steady, Reading, Trying, Idle, TaskState, Files
  <2>4. Becomes(w, new, t, f)
    BY <1>0, <1>1, <1>2 DEF Becomes
  <2> HIDE DEF new, t, f
  <2> QED BY <1>1, <2>1, <2>2, <2>3, <2>4, LocalKeeps
<1> QED BY <1>2 DEF TryAgain, external

LEMMA StopTryingKeeps ==
  ASSUME OfflineInv, NEW w \in Worker, StopTrying(w)
  PROVE  OfflineInv'
<1> DEFINE s == worker[w]
<1>0. /\ s \in WorkerRecord /\ task[w] \in TaskState /\ file[w] \in Files
      /\ Steady(s, task[w], file[w], Mode(w), handler[Owner(w)])
      /\ task = [task EXCEPT ![w] = task[w]] /\ file = [file EXCEPT ![w] = file[w]]
  BY Before
<1>1. s.pc = "backoff" /\ UNCHANGED <<process, request, slots>>
  BY DEF StopTrying, At
<1>2. CASE /\ Report(w, "error")
           /\ UNCHANGED <<task, file>>
  <2> DEFINE new == [s EXCEPT !.pc = "report", !.result = "error"]
             t == task[w]
             f == file[w]
  <2>1. new \in WorkerRecord /\ t \in TaskState /\ f \in Files
    BY <1>0, <1>1, <1>2 DEF WorkerRecord, Busy, Steady, Reading, Trying, Idle, TaskState, Files
  <2>2. Steady(new, t, f, Mode(w), handler[Owner(w)])
    BY <1>0, <1>1, <1>2 DEF WorkerRecord, Busy, Steady, Reading, Trying, Idle, TaskState, Files
  <2>3. (new.pc \in Busy <=> s.pc \in Busy) /\ s.pc \notin Idle
    BY <1>0, <1>1, <1>2 DEF WorkerRecord, Busy, Steady, Reading, Trying, Idle, TaskState, Files
  <2>4. Becomes(w, new, t, f)
    BY <1>0, <1>1, <1>2 DEF Becomes, Report
  <2> HIDE DEF new, t, f
  <2> QED BY <1>1, <2>1, <2>2, <2>3, <2>4, LocalKeeps
<1> QED BY <1>2 DEF StopTrying, external

LEMMA TaskEndsKeeps ==
  ASSUME OfflineInv, NEW w \in Worker, TaskEnds(w)
  PROVE  OfflineInv'
<1> DEFINE s == worker[w]
<1>0. /\ s \in WorkerRecord /\ task[w] \in TaskState /\ file[w] \in Files
      /\ Steady(s, task[w], file[w], Mode(w), handler[Owner(w)])
      /\ worker = [worker EXCEPT ![w] = s] /\ file = [file EXCEPT ![w] = file[w]]
  BY Before
<1>1. s.pc \in {"poll", "wait"} /\ UNCHANGED <<process, request, slots, worker, file>>
  BY DEF TaskEnds, At
<1>2. PICK t \in {"succeeded", "failed"} : task' = [task EXCEPT ![w] = t]
  BY DEF TaskEnds
<1>3. t \in TaskState /\ Steady(s, t, file[w], Mode(w), handler[Owner(w)])
  BY <1>0, <1>1 DEF TaskState, Steady, Idle, Trying, Reading
<1>4. Becomes(w, s, t, file[w])
  BY <1>0, <1>1, <1>2 DEF Becomes
<1>5. s.pc \notin Idle
  BY <1>1 DEF Idle
<1> HIDE DEF s
<1> QED BY <1>0, <1>1, <1>3, <1>4, <1>5, LocalKeeps DEF s

\* After its task, a file is removed or kept; nobody reads it any more.
LEMMA CleanupKeeps ==
  ASSUME OfflineInv, NEW w \in Worker, Cleanup(w)
  PROVE  OfflineInv'
<1> DEFINE s == worker[w]
           new == IF s.pc = "transcribed" THEN [s EXCEPT !.pc = "report", !.result = "ok"]
                  ELSE Again(s)
<1>0. /\ s \in WorkerRecord /\ task[w] \in TaskState /\ file[w] \in Files
      /\ Steady(s, task[w], file[w], Mode(w), handler[Owner(w)])
      /\ task = [task EXCEPT ![w] = task[w]] /\ file = [file EXCEPT ![w] = file[w]]
  BY Before
<1>1. s.pc \in {"transcribed", "failed"} /\ UNCHANGED <<process, request, slots, task>>
  BY DEF Cleanup, At
<1>2. worker' = [worker EXCEPT ![w] = new]
  <2>1. CASE s.pc = "transcribed"
    BY <1>1, <2>1 DEF Cleanup, At, Report
  <2>2. CASE s.pc # "transcribed"
    BY <2>2, AgainIs DEF Cleanup, At
  <2> QED BY <2>1, <2>2
<1>3. /\ new \in WorkerRecord /\ new.pc \in {"report", "backoff"}
      /\ new.pc = "report" => new.result \in {"ok", "error"}
      /\ new.pc = "backoff" => new.result = "none" /\ new.attempt \in Attempt /\ Another(new)
      /\ new.result = "ok" => task[w] = "succeeded" /\ new.attempt = s.attempt /\ s.attempt \in Attempt
  <2>1. CASE s.pc = "transcribed"
    BY <1>0, <2>1 DEF WorkerRecord, Busy, Steady, Trying, Reading
  <2>2. CASE s.pc = "failed"
    BY <1>0, <2>2, AgainHas DEF Steady, Trying, Reading
  <2> QED BY <1>1, <2>1, <2>2
<1>4. PICK f \in Files : /\ file' = [file EXCEPT ![w] = f]
                         /\ \A a \in Attempt : f[a] = "stored" => file[w][a] = "stored"
                         /\ Mode(w) = "webdav" => f[s.attempt] \in {"none", "kept"}
  <2>0. s.attempt \in Attempt
    BY <1>0, <1>1 DEF Steady, Trying, Reading
  <2>1. ASSUME NEW x \in {"none", "kept"}, Filed(w, x)
        PROVE  \E f \in Files : /\ file' = [file EXCEPT ![w] = f]
                                /\ \A a \in Attempt : f[a] = "stored" => file[w][a] = "stored"
                                /\ Mode(w) = "webdav" => f[s.attempt] \in {"none", "kept"}
    <3> DEFINE f == [file[w] EXCEPT ![s.attempt] = x]
    <3>1. f \in Files /\ f[s.attempt] = x /\ \A a \in Attempt : a # s.attempt => f[a] = file[w][a]
      BY <1>0, <2>0 DEF Files
    <3>2. file' = [file EXCEPT ![w] = f]
      BY <2>1 DEF Filed
    <3> HIDE DEF f
    <3> QED BY <3>1, <3>2
  <2>2. CASE Mode(w) # "webdav"
    BY <1>0, <2>2 DEF Cleanup
  <2>3. CASE Mode(w) = "webdav"
    BY <2>1, <2>3 DEF Cleanup
  <2> QED BY <2>2, <2>3
<1>5. Becomes(w, new, task[w], f)
  BY <1>0, <1>1, <1>2, <1>4 DEF Becomes
<1> HIDE DEF new
<1>6. \A a \in Attempt : f[a] = "stored" => Mode(w) = "webdav" /\ handler[Owner(w)] = "lost"
  BY <1>0, <1>1, <1>4 DEF Steady, Trying, Reading
<1>7. Steady(new, task[w], f, Mode(w), handler[Owner(w)])
  BY <1>0, <1>1, <1>3, <1>4, <1>6 DEF Steady, Trying, Reading, Idle
<1>8. (new.pc \in Busy <=> s.pc \in Busy) /\ s.pc \notin Idle
  BY <1>1, <1>3 DEF Busy, Idle
<1> QED BY <1>0, <1>1, <1>3, <1>5, <1>7, <1>8, LocalKeeps

\* A slot is taken ...
LEMMA AcquireKeeps ==
  ASSUME OfflineInv, NEW w \in Worker, Acquire(w)
  PROVE  OfflineInv'
<1> DEFINE s == worker[w]
           new == [s EXCEPT !.pc = "begin"]
<1>0. /\ s \in WorkerRecord /\ task[w] \in TaskState /\ file[w] \in Files
      /\ Steady(s, task[w], file[w], Mode(w), handler[Owner(w)])
      /\ task = [task EXCEPT ![w] = task[w]] /\ file = [file EXCEPT ![w] = file[w]]
  BY Before
<1>1. s.pc = "queued" /\ slots < Concurrency /\ slots' = slots + 1
  BY DEF Acquire, At
<1>2. new \in WorkerRecord /\ Steady(new, task[w], file[w], Mode(w), handler[Owner(w)])
  BY <1>0, <1>1 DEF WorkerRecord, Busy, Steady, Reading, Trying, Idle
<1>3. Becomes(w, new, task[w], file[w])
  BY <1>0 DEF Acquire, Goto, Becomes, external
<1>4. s.pc \notin Idle /\ s.pc \notin Busy /\ new.pc \in Busy
  BY <1>0, <1>1 DEF Idle, Busy, WorkerRecord
<1> HIDE DEF new
<1>5. slots \in 0 .. Concurrency /\ slots' \in 0 .. Concurrency
  BY <1>1, Types, Assumed DEF OfflineInv
<1>6. /\ TypeOK' /\ (\A v \in Worker : SteadyAt(v)') /\ Settled'
      /\ \A v \in Worker : worker'[v] = IF v = w THEN new ELSE worker[v]
  BY <1>0, <1>2, <1>3, <1>4, <1>5, BecomesKeeps
<1>7. w \notin BusyWorkers /\ BusyWorkers' = BusyWorkers \cup {w}
  BY <1>4, <1>6 DEF BusyWorkers
<1>8. Cardinality(BusyWorkers') = Cardinality(BusyWorkers) + 1
  BY <1>7, BusyFinite, FS_AddElement
<1> QED BY <1>1, <1>6, <1>8 DEF OfflineInv, Counted

\* ... and given back.
LEMMA ReleaseKeeps ==
  ASSUME OfflineInv, NEW w \in Worker, Release(w)
  PROVE  OfflineInv'
<1> DEFINE s == worker[w]
           new == [s EXCEPT !.pc = "done"]
<1>0. /\ s \in WorkerRecord /\ task[w] \in TaskState /\ file[w] \in Files
      /\ Steady(s, task[w], file[w], Mode(w), handler[Owner(w)])
      /\ task = [task EXCEPT ![w] = task[w]] /\ file = [file EXCEPT ![w] = file[w]]
  BY Before
<1>1. s.pc = "report" /\ slots' = slots - 1
  BY DEF Release, At
<1>2. new \in WorkerRecord /\ Steady(new, task[w], file[w], Mode(w), handler[Owner(w)])
  BY <1>0, <1>1 DEF WorkerRecord, Busy, Steady, Reading, Trying, Idle
<1>3. Becomes(w, new, task[w], file[w])
  BY <1>0 DEF Release, Goto, Becomes, external
<1>4. s.pc \notin Idle /\ s.pc \in Busy /\ new.pc \notin Busy
  BY <1>0, <1>1 DEF Idle, Busy, WorkerRecord
<1> HIDE DEF new
<1>5. w \in BusyWorkers /\ Cardinality(BusyWorkers \ {w}) = slots - 1
      /\ Cardinality(BusyWorkers \ {w}) \in Nat
  <2>1. w \in BusyWorkers
    BY <1>4 DEF BusyWorkers
  <2>2. IsFiniteSet(BusyWorkers \ {w}) /\ Cardinality(BusyWorkers \ {w}) = Cardinality(BusyWorkers) - 1
    BY <2>1, BusyFinite, FS_RemoveElement
  <2> QED BY <2>1, <2>2, FS_CardinalityType DEF OfflineInv, Counted
<1>6. slots' \in 0 .. Concurrency
  BY <1>1, <1>5, Types, Assumed DEF OfflineInv
<1>7. /\ TypeOK' /\ (\A v \in Worker : SteadyAt(v)') /\ Settled'
      /\ \A v \in Worker : worker'[v] = IF v = w THEN new ELSE worker[v]
  BY <1>0, <1>2, <1>3, <1>4, <1>6, BecomesKeeps
<1>8. BusyWorkers' = BusyWorkers \ {w}
  BY <1>4, <1>7 DEF BusyWorkers
<1> QED BY <1>1, <1>5, <1>7, <1>8 DEF OfflineInv, Counted

-----------------------------------------------------------------------------
(* Steps of the handler of a request.                                      *)

\* A handler that moves on while none of its goroutines runs.
LEMMA HandlerKeeps ==
  ASSUME OfflineInv, NEW r \in Request, NEW to \in HandlerState,
         handler' = [handler EXCEPT ![r] = to], handler[r] # "lost",
         UNCHANGED <<process, mode, slots, worker, external>>,
         \A w \in Worker : Owner(w) = r => worker[w].pc \in Idle
  PROVE  (\A w \in Worker : SteadyAt(w)') /\ Counted' /\ handler' \in [Request -> HandlerState]
<1>1. handler \in [Request -> HandlerState] /\ UNCHANGED <<worker, task, file, mode, slots>>
  BY Types DEF OfflineInv, external
<1>2. ASSUME NEW w \in Worker PROVE SteadyAt(w)'
  <2>1. SteadyAt(w) /\ Owner(w) \in Request /\ Mode(w)' = Mode(w)
    BY <1>1, Owners DEF OfflineInv, Mode
  <2>2. CASE Owner(w) # r
    BY <1>1, <2>1, <2>2 DEF SteadyAt
  <2>3. CASE Owner(w) = r
    <3>1. worker[w].pc \in Idle /\ handler[Owner(w)] # "lost"
      BY <2>3
    <3> QED BY <1>1, <2>1, <3>1 DEF SteadyAt, Steady, Idle, Reading
  <2> QED BY <2>2, <2>3
<1>3. Counted'
  BY <1>1 DEF OfflineInv, Counted, BusyWorkers
<1> QED BY <1>1, <1>2, <1>3

LEMMA IdleWorkers ==
  ASSUME OfflineInv, NEW w \in Worker, handler[Owner(w)] # "recognize"
  PROVE  worker[w].pc \in Idle
BY DEF OfflineInv, SteadyAt, Steady

LEMMA ReceiveKeeps == ASSUME OfflineInv, NEW r \in Request, Receive(r) PROVE OfflineInv'
<1>1. /\ up /\ handler[r] = "idle" /\ handler' = [handler EXCEPT ![r] = "prepare"]
      /\ dir' = dir \cup {r}
      /\ UNCHANGED <<up, crashes, mode, cancelled, outcome, slots, worker, task, file>>
  BY DEF Receive, Handling, process, external
<1>2. (\A w \in Worker : SteadyAt(w)') /\ Counted' /\ handler' \in [Request -> HandlerState]
  BY <1>1, IdleWorkers, HandlerKeeps DEF HandlerState, process, external
<1>3. TypeOK'
  BY <1>1, <1>2 DEF OfflineInv, TypeOK, HandlerState
<1>4. \A q \in Request : handler'[q] = IF q = r THEN "prepare" ELSE handler[q]
  BY <1>1, Types DEF OfflineInv
<1>5. Settled'
  BY <1>1, <1>4, Owners DEF OfflineInv, Settled, Dirs
<1> QED BY <1>2, <1>3, <1>5 DEF OfflineInv

LEMMA PrepareFailsKeeps == ASSUME OfflineInv, NEW r \in Request, PrepareFails(r) PROVE OfflineInv'
<1>1. /\ up /\ handler[r] = "prepare" /\ handler' = [handler EXCEPT ![r] = "discard"]
      /\ outcome' = [outcome EXCEPT ![r] = "error"]
      /\ UNCHANGED <<up, crashes, mode, cancelled, dir, slots, worker, task, file>>
  BY DEF PrepareFails, Handling, process, external
<1>2. (\A w \in Worker : SteadyAt(w)') /\ Counted' /\ handler' \in [Request -> HandlerState]
  BY <1>1, IdleWorkers, HandlerKeeps DEF HandlerState, process, external
<1>3. TypeOK'
  BY <1>1, <1>2 DEF OfflineInv, TypeOK, HandlerState
<1>4. \A q \in Request : /\ handler'[q] = IF q = r THEN "discard" ELSE handler[q]
                         /\ outcome'[q] = IF q = r THEN "error" ELSE outcome[q]
  BY <1>1, Types DEF OfflineInv
<1>5. Settled'
  BY <1>1, <1>4, Owners DEF OfflineInv, Settled, Dirs
<1> QED BY <1>2, <1>3, <1>5 DEF OfflineInv

LEMMA AssembleKeeps == ASSUME OfflineInv, NEW r \in Request, Assemble(r) PROVE OfflineInv'
<1> DEFINE res == IF \E w \in Started(r) : worker[w].result = "error" THEN "error" ELSE "ok"
<1>1. /\ up /\ handler[r] = "recognize" /\ handler' = [handler EXCEPT ![r] = "discard"]
      /\ \A w \in Started(r) : worker[w].pc = "done"
      /\ outcome' = [outcome EXCEPT ![r] = res]
      /\ UNCHANGED <<up, crashes, mode, cancelled, dir, slots, worker, task, file>>
  BY DEF Assemble, Handling, process, external
<1>2. \A w \in Worker : Owner(w) = r => worker[w].pc \in Idle
  BY <1>1 DEF Started, Idle
<1>3. (\A w \in Worker : SteadyAt(w)') /\ Counted' /\ handler' \in [Request -> HandlerState]
  BY <1>1, <1>2, HandlerKeeps DEF HandlerState, process, external
<1>4. res \in {"ok", "error"}
  OBVIOUS
<1>5. ASSUME NEW w \in Worker, Owner(w) = r, res = "ok"
      PROVE  worker[w].pc = "none" \/ worker[w].result = "ok"
  <2>1. CASE worker[w].pc # "none"
    <3>1. w \in Started(r)
      BY <1>5, <2>1 DEF Started
    <3>2. worker[w].pc = "done" /\ worker[w].result # "error"
      BY <1>1, <1>5, <3>1
    <3> QED BY <3>2 DEF OfflineInv, SteadyAt, Steady
  <2> QED BY <2>1
<1> HIDE DEF res
<1>6. TypeOK'
  BY <1>1, <1>3, <1>4 DEF OfflineInv, TypeOK, HandlerState
<1>7. \A q \in Request : /\ handler'[q] = IF q = r THEN "discard" ELSE handler[q]
                         /\ outcome'[q] = IF q = r THEN res ELSE outcome[q]
  BY <1>1, Types DEF OfflineInv
<1>8. Settled'
  <2>1. dir' = Dirs'
    BY <1>1, <1>7 DEF OfflineInv, Settled, Dirs
  <2>2. ASSUME NEW w \in Worker, outcome'[Owner(w)] = "ok",
               handler'[Owner(w)] \in {"discard", "respond", "returned"}
        PROVE  worker'[w].pc = "none" \/ worker'[w].result = "ok"
    <3>1. CASE Owner(w) = r
      BY <1>1, <1>5, <1>7, <2>2, <3>1
    <3>2. CASE Owner(w) # r
      BY <1>1, <1>7, <2>2, <3>2, Owners DEF OfflineInv, Settled
    <3> QED BY <3>1, <3>2
  <2> QED BY <1>1, <2>1, <2>2 DEF Settled
<1> QED BY <1>3, <1>6, <1>8 DEF OfflineInv

LEMMA DiscardKeeps == ASSUME OfflineInv, NEW r \in Request, Discard(r) PROVE OfflineInv'
<1>1. /\ up /\ handler[r] = "discard" /\ handler' = [handler EXCEPT ![r] = "respond"]
      /\ dir' = dir \ {r}
      /\ UNCHANGED <<up, crashes, mode, cancelled, outcome, slots, worker, task, file>>
  BY DEF Discard, Handling, process, external
<1>2. (\A w \in Worker : SteadyAt(w)') /\ Counted' /\ handler' \in [Request -> HandlerState]
  BY <1>1, IdleWorkers, HandlerKeeps DEF HandlerState, process, external
<1>3. TypeOK'
  BY <1>1, <1>2 DEF OfflineInv, TypeOK, HandlerState
<1>4. \A q \in Request : handler'[q] = IF q = r THEN "respond" ELSE handler[q]
  BY <1>1, Types DEF OfflineInv
<1>5. Settled'
  BY <1>1, <1>4, Owners DEF OfflineInv, Settled, Dirs
<1> QED BY <1>2, <1>3, <1>5 DEF OfflineInv

LEMMA RespondKeeps == ASSUME OfflineInv, NEW r \in Request, Respond(r) PROVE OfflineInv'
<1>1. /\ up /\ handler[r] = "respond" /\ handler' = [handler EXCEPT ![r] = "returned"]
      /\ UNCHANGED <<up, crashes, mode, cancelled, dir, outcome, slots, worker, task, file>>
  BY DEF Respond, Handling, process, external
<1>2. (\A w \in Worker : SteadyAt(w)') /\ Counted' /\ handler' \in [Request -> HandlerState]
  BY <1>1, IdleWorkers, HandlerKeeps DEF HandlerState, process, external
<1>3. TypeOK'
  BY <1>1, <1>2 DEF OfflineInv, TypeOK, HandlerState
<1>4. \A q \in Request : handler'[q] = IF q = r THEN "returned" ELSE handler[q]
  BY <1>1, Types DEF OfflineInv
<1>5. Settled'
  BY <1>1, <1>4, Owners DEF OfflineInv, Settled, Dirs
<1> QED BY <1>2, <1>3, <1>5 DEF OfflineInv

LEMMA UnbornIs ==
  /\ Unborn \in WorkerRecord /\ [Unborn EXCEPT !.pc = "queued"] \in WorkerRecord
  /\ Unborn.pc = "none" /\ Unborn.result = "none"
BY Assumed DEF Unborn, WorkerRecord

LEMMA StartWorkersKeeps == ASSUME OfflineInv, NEW r \in Request, StartWorkers(r) PROVE OfflineInv'
<1>0. PICK n \in Segment :
        worker' = [w \in Worker |-> IF Owner(w) = r /\ w[2] <= n
                                    THEN [Unborn EXCEPT !.pc = "queued"] ELSE worker[w]]
  BY DEF StartWorkers
<1>1. /\ up /\ handler[r] = "prepare" /\ handler' = [handler EXCEPT ![r] = "recognize"]
      /\ UNCHANGED <<up, crashes, mode, cancelled, dir, outcome, slots, task, file>>
  BY DEF StartWorkers, Handling, process, external
<1>2. \A w \in Worker :
        \/ Owner(w) = r /\ worker'[w].pc = "queued" /\ worker'[w].result = "none"
             /\ worker'[w] \in WorkerRecord
        \/ worker'[w] = worker[w]
  BY <1>0, UnbornIs DEF Unborn
<1>3. \A q \in Request : handler'[q] = IF q = r THEN "recognize" ELSE handler[q]
  BY <1>1, Types DEF OfflineInv
<1>4. worker' \in [Worker -> WorkerRecord]
  BY <1>0, UnbornIs, Types DEF OfflineInv
<1>5. TypeOK'
  BY <1>1, <1>4 DEF OfflineInv, TypeOK
<1>6. ASSUME NEW w \in Worker PROVE SteadyAt(w)' /\ (worker'[w].pc \in Busy <=> worker[w].pc \in Busy)
  <2>1. SteadyAt(w) /\ Owner(w) \in Request /\ Mode(w)' = Mode(w)
    BY <1>1, Owners DEF OfflineInv, Mode
  <2>2. CASE Owner(w) # r
    BY <1>1, <1>2, <1>3, <2>1, <2>2 DEF SteadyAt
  <2>3. CASE Owner(w) = r
    <3>1. worker[w].pc \in Idle /\ handler[Owner(w)] = "prepare"
      BY <1>1, <2>3, IdleWorkers
    <3>2. /\ \A a \in Attempt : file[w][a] # "stored"
          /\ worker[w].pc \notin Busy
      BY <2>1, <3>1 DEF SteadyAt, Steady, Idle, Reading, Busy
    <3>3. CASE worker'[w] = worker[w]
      BY <1>1, <2>1, <3>1, <3>2, <3>3 DEF SteadyAt, Steady, Idle, Reading
    <3>4. CASE worker'[w].pc = "queued" /\ worker'[w].result = "none"
      <4>1. handler'[Owner(w)] = "recognize"
        BY <1>3, <2>1, <2>3
      <4>2. SteadyAt(w)'
        BY <1>1, <3>2, <3>4, <4>1 DEF SteadyAt, Steady, Idle, Reading, Trying
      <4> QED BY <3>2, <3>4, <4>2 DEF Busy
    <3> QED BY <1>2, <3>3, <3>4
  <2> QED BY <2>2, <2>3
<1>7. BusyWorkers' = BusyWorkers
  BY <1>6 DEF BusyWorkers
<1>8. Settled'
  BY <1>1, <1>2, <1>3, Owners DEF OfflineInv, Settled, Dirs
<1> QED BY <1>1, <1>5, <1>6, <1>7, <1>8 DEF OfflineInv, Counted

-----------------------------------------------------------------------------
(* The client, and the process itself.                                     *)

LEMMA CancelKeeps == ASSUME OfflineInv, NEW r \in Request, Cancel(r) PROVE OfflineInv'
<1>1. /\ cancelled' = cancelled \cup {r}
      /\ UNCHANGED <<up, crashes, handler, mode, dir, outcome, slots, worker, task, file>>
  BY DEF Cancel, process, external
<1>2. TypeOK'
  BY <1>1 DEF OfflineInv, TypeOK
<1> QED BY <1>1, <1>2 DEF OfflineInv, SteadyAt, Mode, Settled, Dirs, Counted, BusyWorkers

LEMMA CrashKeeps == ASSUME OfflineInv, Crash PROVE OfflineInv'
<1>1. /\ up' = FALSE /\ crashes' = crashes + 1 /\ crashes < MaxCrashes
      /\ handler' = [r \in Request |-> IF handler[r] \in {"idle", "returned"} THEN handler[r]
                                       ELSE "lost"]
      /\ slots' = 0 /\ worker' = [w \in Worker |-> Unborn]
      /\ UNCHANGED <<mode, cancelled, dir, outcome, task, file>>
  BY DEF Crash, external
<1>2. \A w \in Worker : worker'[w] = Unborn
  BY <1>1
<1>3. \A r \in Request : /\ handler'[r] \in {"idle", "returned", "lost"}
                         /\ handler[r] \in {"recognize", "lost"} => handler'[r] = "lost"
  BY <1>1
<1>4. TypeOK'
  <2>1. crashes' \in 0 .. MaxCrashes /\ slots' \in 0 .. Concurrency
    BY <1>1, Assumed DEF OfflineInv, TypeOK
  <2>2. worker' \in [Worker -> WorkerRecord]
    BY <1>1, UnbornIs
  <2>3. handler' \in [Request -> {"idle", "prepare", "recognize", "discard", "respond",
                                  "returned", "lost"}]
    BY <1>1, <1>3
  <2> QED BY <1>1, <2>1, <2>2, <2>3 DEF OfflineInv, TypeOK
<1>5. ASSUME NEW w \in Worker PROVE SteadyAt(w)'
  <2>1. SteadyAt(w) /\ Owner(w) \in Request /\ Mode(w)' = Mode(w)
    BY <1>1, Owners DEF OfflineInv, Mode
  <2>2. \A a \in Attempt : file'[w][a] = "stored" => Mode(w) = "webdav" /\ handler'[Owner(w)] = "lost"
    BY <1>1, <1>3, <2>1 DEF SteadyAt, Steady, Reading, Idle
  <2> QED BY <1>2, <2>1, <2>2, UnbornIs DEF SteadyAt, Steady, Idle, Trying, Reading
<1>6. BusyWorkers' = {}
  BY <1>2, UnbornIs DEF BusyWorkers, Busy
<1>7. Counted'
  BY <1>1, <1>6, FS_EmptySet DEF Counted
<1>8. Settled'
  BY <1>1, <1>2, <1>3, UnbornIs DEF Settled
<1> QED BY <1>4, <1>5, <1>7, <1>8 DEF OfflineInv

LEMMA RestartKeeps == ASSUME OfflineInv, Restart PROVE OfflineInv'
<1>1. /\ ~up /\ up' = TRUE /\ dir' = {}
      /\ UNCHANGED <<crashes, handler, mode, cancelled, outcome, slots, worker, task, file>>
  BY DEF Restart, external
<1>2. TypeOK'
  BY <1>1 DEF OfflineInv, TypeOK
<1>3. Settled'
  <2>1. Dirs' = {}
    BY <1>1 DEF OfflineInv, Settled, Dirs
  <2> QED BY <1>1, <2>1 DEF OfflineInv, Settled
<1> QED BY <1>1, <1>2, <1>3 DEF OfflineInv, SteadyAt, Mode, Counted, BusyWorkers

-----------------------------------------------------------------------------
(* The theorems.                                                           *)

LEMMA InitInv == Init => OfflineInv
<1> SUFFICES ASSUME Init PROVE OfflineInv
  OBVIOUS
<1>1. /\ up = TRUE /\ crashes = 0 /\ slots = 0 /\ cancelled = {} /\ dir = {}
      /\ \A r \in Request : handler[r] = "idle" /\ outcome[r] = "none"
      /\ \A w \in Worker : worker[w] = Unborn /\ task[w] = "none"
      /\ \A w \in Worker : \A a \in Attempt : file[w][a] = "none"
  BY DEF Init
<1>2. TypeOK
  <2>1. 0 \in 0 .. MaxCrashes /\ 0 \in 0 .. Concurrency
    BY Assumed
  <2>2. worker \in [Worker -> WorkerRecord]
    BY UnbornIs DEF Init
  <2>3. file \in [Worker -> [Attempt -> {"none", "stored", "unknown", "kept"}]]
    BY DEF Init
  <2> QED BY <2>1, <2>2, <2>3 DEF Init, TypeOK
<1>3. ASSUME NEW w \in Worker PROVE SteadyAt(w)
  BY <1>1, UnbornIs DEF SteadyAt, Steady, Idle, Trying, Reading
<1>4. Settled
  BY <1>1, Owners DEF Settled, Dirs
<1>5. BusyWorkers = {}
  BY <1>1, UnbornIs DEF BusyWorkers, Busy
<1>6. Counted
  BY <1>1, <1>5, FS_EmptySet DEF Counted
<1> QED BY <1>2, <1>3, <1>4, <1>6 DEF OfflineInv

LEMMA StepInv == OfflineInv /\ [Next]_vars => OfflineInv'
<1> SUFFICES ASSUME OfflineInv, [Next]_vars PROVE OfflineInv'
  OBVIOUS
<1>1. ASSUME NEW r \in Request, Handler(r) \/ Cancel(r) PROVE OfflineInv'
  BY <1>1, ReceiveKeeps, PrepareFailsKeeps, StartWorkersKeeps, AssembleKeeps, DiscardKeeps,
     RespondKeeps, CancelKeeps DEF Handler
<1>2. ASSUME NEW w \in Worker, Goroutine(w) \/ TaskEnds(w) PROVE OfflineInv'
  <2>1. CASE Call(w)
    BY <2>1, InlineKeeps, UploadKeeps, SubmitKeeps, PollKeeps, CollectKeeps, CleanupKeeps DEF Call
  <2>2. CASE Timer(w)
    BY <2>2, PollAgainKeeps, TryAgainKeeps DEF Timer
  <2> QED BY <1>2, <2>1, <2>2, AcquireKeeps, GiveUpKeeps, BeginKeeps, StopWaitingKeeps,
             StopTryingKeeps, ReleaseKeeps, TaskEndsKeeps DEF Goroutine
<1>3. CASE Crash
  BY <1>3, CrashKeeps
<1>4. CASE Restart
  BY <1>4, RestartKeeps
<1>5. CASE UNCHANGED vars
  <2>1. UNCHANGED <<up, crashes, handler, mode, cancelled, dir, outcome, slots, worker, task, file>>
    BY <1>5 DEF vars, process, request, external
  <2> QED BY <2>1 DEF OfflineInv, TypeOK, SteadyAt, Mode, Settled, Dirs, Counted, BusyWorkers
<1>6. CASE Terminated
  BY <1>5, <1>6 DEF Terminated
<1> QED BY <1>1, <1>2, <1>3, <1>4, <1>5, <1>6 DEF Next

LEMMA Invariant == Spec => []OfflineInv
BY InitInv, StepInv, PTL DEF Spec

\* The slots taken are those of the segments being transcribed, for any number
\* of requests and after any number of crashes.
THEOREM SlotsAccountedHolds == Spec => []SlotsAccounted
<1>1. OfflineInv => SlotsAccounted
  BY DEF OfflineInv, Counted, BusyWorkers, SlotsAccounted
<1> QED BY <1>1, Invariant, PTL

\* A file whose PUT was answered is stored exactly while the attempt that
\* stored it may be reading it, unless its DELETE failed or the process
\* crashed; a segment is transcribed only after that DELETE.
THEOREM FileLifetimeHolds == Spec => []FileLifetime
<1>1. OfflineInv => FileLifetime
  <2> SUFFICES ASSUME OfflineInv, NEW w \in Worker, NEW a \in Attempt
               PROVE  LET mine    == worker[w].attempt = a
                          reading == mine /\ worker[w].pc \in Reading
                      IN  /\ Mode(w) = "webdav" /\ reading => file[w][a] = "stored"
                          /\ file[w][a] = "stored" => reading \/ handler[Owner(w)] = "lost"
                          /\ Mode(w) = "webdav" /\ mine /\ worker[w].result = "ok" =>
                               file[w][a] \in {"none", "kept"}
    BY DEF FileLifetime, Reading
  <2> QED BY DEF OfflineInv, SteadyAt, Steady
<1> QED BY <1>1, Invariant, PTL

\* A request succeeds only if each of its segments has, and an asynchronous
\* segment only if the task of its last attempt has.
THEOREM SuccessIsEarnedHolds == Spec => []SuccessIsEarned
<1>1. OfflineInv => SuccessIsEarned
  <2> SUFFICES ASSUME OfflineInv, NEW r \in Request, up, outcome[r] = "ok",
                      handler[r] \in {"discard", "respond", "returned"}, NEW w \in Started(r)
               PROVE  /\ worker[w].result = "ok"
                      /\ mode[r] # "inline" => task[w] = "succeeded"
    BY DEF SuccessIsEarned
  <2>1. w \in Worker /\ Owner(w) = r /\ worker[w].pc # "none"
    BY DEF Started
  <2>2. worker[w].result = "ok"
    BY <2>1 DEF OfflineInv, Settled
  <2> QED BY <2>1, <2>2 DEF OfflineInv, SteadyAt, Steady, Mode
<1> QED BY <1>1, Invariant, PTL

\* While the process runs, the directories are those of the requests being
\* handled, and no goroutine outlives the one its segment is in.
THEOREM DirsAccountedHolds == Spec => []DirsAccounted
<1>1. OfflineInv => DirsAccounted
  <2> SUFFICES ASSUME OfflineInv PROVE DirsAccounted
    OBVIOUS
  <2>1. up => dir = Dirs
    BY DEF OfflineInv, Settled
  <2>2. ASSUME NEW w \in Worker, worker[w].pc \notin Idle PROVE Owner(w) \in dir
    <3>1. up /\ handler[Owner(w)] = "recognize"
      BY <2>2 DEF OfflineInv, SteadyAt, Steady, Settled, Idle
    <3> QED BY <2>1, <3>1, Owners DEF Dirs
  <2> QED BY <2>1, <2>2 DEF DirsAccounted, Dirs, Idle
<1> QED BY <1>1, Invariant, PTL

=============================================================================
