---------------------------- MODULE UpstreamSession ----------------------------
(***************************************************************************)
(* The goroutines of one upstream task (session in                         *)
(* internal/realtime/client.go, shared with qwen.go), and the one that     *)
(* startTurn of the bridge leaves behind to forward its events.            *)
(*                                                                         *)
(*   caller    SendAudio and Finish, which write under the lock            *)
(*   closer    Close, which must not wait for a blocked write              *)
(*   reader    readLoop / readQwen; its deferred calls are Close too       *)
(*   timer     the finish timer, which cuts the connection                 *)
(*   hook      context.AfterFunc, which cuts it when the task is cancelled *)
(*   forwarder from the events of the task to the inbox of the bridge      *)
(*                                                                         *)
(* What an event says is in QwenAdapter and in WsBridge; here it is a      *)
(* result or the end of the task.  Op_Variant: see WsBridge.               *)
(***************************************************************************)
EXTENDS Integers, Sequences

CONSTANTS EventsCap, \* capacity of the channel of the task
          InboxCap   \* capacity of b.events

ASSUME SessionAssumption == {EventsCap, InboxCap} \subseteq Nat \ {0}

Closers == {"closer", "reader"}
EndKind == {"finished", "err"}
Kind    == EndKind \cup {"result"}

VARIABLES
  mu,        \* who holds s.mu: "free", "caller"
  conn,      \* the connection is open
  turnDone,  \* the context of the turn is cancelled
  taskDone,  \* the context of the task, a child of it, is cancelled
  hook,      \* the AfterFunc is registered and has not run
  finishing, closed, \* s.finishing, s.closed
  timer,     \* s.finishTimer: "none", "armed", "fired" or "stopped"
  caller,    \* "idle", waiting for the lock ("audio", "finish") or "writing"
  closing,   \* of each closer, the next step of Close: "none", "conn", "lock", "done"
  reader,    \* "read", "ask", "emit", "close" or "ended"
  next,      \* the event that the reader emits
  events, eventsClosed, \* the channel of the task
  forwarder, \* "wait", "put" or "ended"
  carry,     \* the event that it passes on
  inbox,     \* b.events, as far as this turn is concerned
  ends       \* history: the end events that were passed on

ctxs  == <<turnDone, taskDone>>
calls == <<finishing, caller>>
chan  == <<events, eventsClosed>>
fwd   == <<forwarder, carry, inbox, ends>>
vars  == <<mu, conn, ctxs, hook, calls, closed, timer, closing, reader, next, chan, fwd>>

Init ==
  /\ mu = "free" /\ conn = TRUE /\ turnDone = FALSE /\ taskDone = FALSE /\ hook = TRUE
  /\ finishing = FALSE /\ closed = FALSE /\ timer = "none"
  /\ caller = "idle" /\ closing = [p \in Closers |-> "none"]
  /\ reader = "read" /\ next = "result" /\ events = <<>> /\ eventsClosed = FALSE
  /\ forwarder = "wait" /\ carry = "result" /\ inbox = <<>> /\ ends = <<>>

-----------------------------------------------------------------------------
(* SendAudio and Finish.                                                   *)

Call ==
  /\ caller = "idle"
  /\ caller' \in {"audio", "finish"}
  /\ UNCHANGED <<mu, conn, ctxs, hook, finishing, closed, timer, closing, reader, next, chan, fwd>>

\* After the input has ended both are refused.
CallRefused ==
  /\ caller \in {"audio", "finish"} /\ mu = "free"
  /\ closed \/ finishing
  /\ caller' = "idle"
  /\ UNCHANGED <<mu, conn, ctxs, hook, finishing, closed, timer, closing, reader, next, chan, fwd>>

SendLocked ==
  /\ caller = "audio" /\ mu = "free" /\ ~closed /\ ~finishing
  /\ mu' = "caller" /\ caller' = "writing"
  /\ UNCHANGED <<conn, ctxs, hook, finishing, closed, timer, closing, reader, next, chan, fwd>>

FinishLocked_Open ==
  /\ caller = "finish" /\ mu = "free" /\ ~finishing
  /\ mu' = "caller" /\ caller' = "writing"
  /\ finishing' = TRUE /\ timer' = "armed"
  /\ UNCHANGED <<conn, ctxs, hook, closed, closing, reader, next, chan, fwd>>
FinishLocked_Untimed ==
  /\ caller = "finish" /\ mu = "free" /\ ~closed /\ ~finishing
  /\ mu' = "caller" /\ caller' = "writing"
  /\ finishing' = TRUE
  /\ UNCHANGED <<conn, ctxs, hook, closed, timer, closing, reader, next, chan, fwd>>

FinishLocked ==
  /\ caller = "finish" /\ mu = "free" /\ ~closed /\ ~finishing
  /\ mu' = "caller" /\ caller' = "writing"
  /\ finishing' = TRUE /\ timer' = "armed"
  /\ UNCHANGED <<conn, ctxs, hook, closed, closing, reader, next, chan, fwd>>

\* The write succeeds, or fails by its deadline or for a closed connection.
\* A service that does not read may keep it until then.
WriteReturns ==
  /\ caller = "writing"
  /\ caller' = "idle" /\ mu' = "free"
  /\ UNCHANGED <<conn, ctxs, hook, finishing, closed, timer, closing, reader, next, chan, fwd>>

-----------------------------------------------------------------------------
(* Close, which the owner and the reader may both be in.                   *)

\* s.cancel()
CloseCancels(p) ==
  /\ closing[p] = "none" /\ (p = "reader" => reader = "close")
  /\ taskDone' = TRUE /\ closing' = [closing EXCEPT ![p] = "conn"]
  /\ UNCHANGED <<mu, conn, turnDone, hook, calls, closed, timer, reader, next, chan, fwd>>

\* s.conn.Close(), before the lock: a write that holds it returns.
CloseConn_Late(p) ==
  /\ closing[p] = "conn" /\ mu = "free"
  /\ conn' = FALSE /\ closing' = [closing EXCEPT ![p] = "lock"]
  /\ UNCHANGED <<mu, ctxs, hook, calls, closed, timer, reader, next, chan, fwd>>
CloseConn(p) ==
  /\ closing[p] = "conn"
  /\ conn' = FALSE /\ closing' = [closing EXCEPT ![p] = "lock"]
  /\ UNCHANGED <<mu, ctxs, hook, calls, closed, timer, reader, next, chan, fwd>>

CloseLocked(p) ==
  /\ closing[p] = "lock" /\ mu = "free"
  /\ closed' = TRUE /\ hook' = FALSE
  /\ timer' = IF timer = "armed" THEN "stopped" ELSE timer
  /\ closing' = [closing EXCEPT ![p] = "done"]
  /\ UNCHANGED <<mu, conn, ctxs, calls, reader, next, chan, fwd>>

\* turn.cancel(), or the end of the session: the parent of both contexts.
CancelTurn ==
  /\ ~turnDone
  /\ turnDone' = TRUE /\ taskDone' = TRUE
  /\ UNCHANGED <<mu, conn, hook, calls, closed, timer, closing, reader, next, chan, fwd>>

\* context.AfterFunc
Hook ==
  /\ hook /\ taskDone
  /\ hook' = FALSE /\ conn' = FALSE
  /\ UNCHANGED <<mu, ctxs, calls, closed, timer, closing, reader, next, chan, fwd>>

FinishTimer ==
  /\ timer = "armed"
  /\ timer' = "fired" /\ conn' = FALSE
  /\ UNCHANGED <<mu, ctxs, hook, calls, closed, closing, reader, next, chan, fwd>>

-----------------------------------------------------------------------------
(* readLoop.                                                               *)

Read(to, e) ==
  /\ reader = "read"
  /\ reader' = to /\ next' = e
  /\ UNCHANGED <<mu, conn, ctxs, hook, calls, closed, timer, closing, chan, fwd>>

\* Messages that arrived before the connection was closed may still be read.
ReadResult   == Read("emit", "result")
ReadFinished == Read("ask", "finished")
ReadFails    == Read("emit", "err")

AskFinishing_Trusting ==
  /\ reader = "ask" /\ mu = "free"
  /\ reader' = "emit"
  /\ UNCHANGED <<mu, conn, ctxs, hook, calls, closed, timer, closing, next, chan, fwd>>

\* The end of the task counts only after Finish.
AskFinishing ==
  /\ reader = "ask" /\ mu = "free"
  /\ reader' = "emit" /\ next' = IF finishing THEN "finished" ELSE "err"
  /\ UNCHANGED <<mu, conn, ctxs, hook, calls, closed, timer, closing, chan, fwd>>

EmitPut ==
  /\ reader = "emit" /\ Len(events) < EventsCap
  /\ events' = Append(events, next)
  /\ reader' = IF next \in EndKind THEN "close" ELSE "read"
  /\ UNCHANGED <<mu, conn, ctxs, hook, calls, closed, timer, closing, next, eventsClosed, fwd>>

EmitDrop ==
  /\ reader = "emit" /\ taskDone
  /\ reader' = "close"
  /\ UNCHANGED <<mu, conn, ctxs, hook, calls, closed, timer, closing, next, chan, fwd>>

\* After its own Close: close(s.events).
CloseEvents ==
  /\ reader = "close" /\ closing["reader"] = "done"
  /\ reader' = "ended" /\ eventsClosed' = TRUE
  /\ UNCHANGED <<mu, conn, ctxs, hook, calls, closed, timer, closing, next, events, fwd>>

-----------------------------------------------------------------------------
(* The goroutine of startTurn.                                             *)

Forwarding == UNCHANGED <<mu, conn, ctxs, hook, calls, closed, timer, closing, reader, next>>

ForwardTakes ==
  /\ forwarder = "wait" /\ forwarder' = "put"
  /\ \/ events # <<>> /\ carry' = Head(events) /\ events' = Tail(events)
     \/ events = <<>> /\ eventsClosed /\ carry' = "err" /\ UNCHANGED events
  /\ UNCHANGED <<eventsClosed, inbox, ends>> /\ Forwarding

ForwardPuts_On ==
  /\ forwarder = "put" /\ Len(inbox) < InboxCap
  /\ inbox' = Append(inbox, carry)
  /\ ends' = IF carry \in EndKind THEN Append(ends, carry) ELSE ends
  /\ forwarder' = IF eventsClosed /\ events = <<>> THEN "ended" ELSE "wait"
  /\ UNCHANGED <<chan, carry>> /\ Forwarding
ForwardPuts ==
  /\ forwarder = "put" /\ Len(inbox) < InboxCap
  /\ inbox' = Append(inbox, carry)
  /\ ends' = IF carry \in EndKind THEN Append(ends, carry) ELSE ends
  /\ forwarder' = IF carry \in EndKind THEN "ended" ELSE "wait"
  /\ UNCHANGED <<chan, carry>> /\ Forwarding

ForwardStops ==
  /\ forwarder \in {"wait", "put"} /\ turnDone
  /\ forwarder' = "ended"
  /\ UNCHANGED <<chan, carry, inbox, ends>> /\ Forwarding

\* The loop of the bridge.
LoopTakes ==
  /\ inbox # <<>>
  /\ inbox' = Tail(inbox)
  /\ UNCHANGED <<mu, conn, ctxs, hook, calls, closed, timer, closing, reader, next, chan,
                 forwarder, carry, ends>>

Caller    == Call \/ CallRefused \/ SendLocked \/ FinishLocked \/ WriteReturns
CloseStep(p) == CloseCancels(p) \/ CloseConn(p) \/ CloseLocked(p)
Reader    == ReadResult \/ ReadFinished \/ ReadFails \/ AskFinishing \/ EmitPut \/ EmitDrop
               \/ CloseEvents
Forwarder == ForwardTakes \/ ForwardPuts \/ ForwardStops

Next ==
  \/ Caller \/ Reader \/ Forwarder
  \/ \E p \in Closers : CloseStep(p)
  \/ CancelTurn \/ Hook \/ FinishTimer \/ LoopTakes

Spec == Init /\ [][Next]_vars

\* Steps that each goroutine takes at most once.
Once ==
  \/ CloseCancels("reader") \/ CloseEvents \/ Hook \/ FinishTimer
  \/ \E p \in Closers : CloseConn(p)

\* Goroutines run, and the lock is handed over fairly (a waiter of sync.Mutex
\* starves for a millisecond at most).  A read from a closed connection fails
\* once its buffer is empty, a write to one fails at once: nothing here relies
\* on the write deadline.  The owner need not call anything, and the loop
\* takes events while the session lasts.
Fairness ==
  /\ WF_vars(Once)
  /\ SF_vars(\E p \in Closers : CloseLocked(p))
  /\ WF_vars(WriteReturns /\ ~conn)
  /\ SF_vars(ReadFails /\ ~conn)
  /\ SF_vars(AskFinishing)
  /\ WF_vars(EmitPut \/ EmitDrop)
  /\ WF_vars(Forwarder)
  /\ WF_vars(~turnDone /\ LoopTakes)

FairSpec == Spec /\ Fairness

-----------------------------------------------------------------------------
(* Properties.                                                             *)

TypeOK ==
  /\ mu \in {"free", "caller"} /\ conn \in BOOLEAN
  /\ turnDone \in BOOLEAN /\ taskDone \in BOOLEAN /\ hook \in BOOLEAN
  /\ finishing \in BOOLEAN /\ closed \in BOOLEAN
  /\ timer \in {"none", "armed", "fired", "stopped"}
  /\ caller \in {"idle", "audio", "finish", "writing"}
  /\ closing \in [Closers -> {"none", "conn", "lock", "done"}]
  /\ reader \in {"read", "ask", "emit", "close", "ended"} /\ next \in Kind
  /\ events \in Seq(Kind) /\ Len(events) <= EventsCap /\ eventsClosed \in BOOLEAN
  /\ forwarder \in {"wait", "put", "ended"} /\ carry \in Kind
  /\ inbox \in Seq(Kind) /\ Len(inbox) <= InboxCap
  /\ ends \in Seq(EndKind)

\* After Close no finish timer is left behind to fire, and nothing arms one,
\* in whichever order Finish, Close and the end of the reader take the lock.
NoTimerLeft == closed => timer # "armed"

\* The bridge hears of the end of a task once: the end event the reader gave,
\* or an error if the channel was closed without one, never both.
OneEnd == Len(ends) <= 1

Passed(e) ==
  \/ reader = "emit" /\ next = e
  \/ forwarder = "put" /\ carry = e
  \/ \E n \in DOMAIN events : events[n] = e
  \/ \E n \in DOMAIN ends : ends[n] = e

\* A task that ends before the input did is an error, although the service
\* calls it a success, and a write of the caller may be under way meanwhile.
FinishedIsGenuine == Passed("finished") => finishing

\* Close returns although a write that holds the lock is blocked, and without
\* waiting for that write's deadline; the reader of a cancelled task ends, and
\* the goroutine of a turn does not outlive it, even if the loop of the bridge
\* has stopped taking events.
GoroutinesEnd ==
  /\ \A p \in Closers : closing[p] = "conn" ~> closing[p] = "done"
  /\ taskDone ~> reader = "ended"
  /\ turnDone ~> forwarder = "ended"

\* After Finish the bridge is told of an end, at the latest by the finish
\* timer, unless it has given up the turn.  WsBridge relies on it (TaskEnds).
FinishEnds == finishing ~> (ends # <<>> \/ turnDone)

=============================================================================
