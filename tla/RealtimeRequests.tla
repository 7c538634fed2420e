--------------------------- MODULE RealtimeRequests ---------------------------
(***************************************************************************)
(* The requests that use realtime recognition, and the slots they share:   *)
(* handleRealtime of internal/httpapi/realtime_ws.go with its reader       *)
(* goroutine, transcribeRealtimeFile of realtime_file.go, and the          *)
(* handshake of a task, Start in internal/realtime/client.go and           *)
(* startQwen in qwen.go.                                                   *)
(*                                                                         *)
(* A WebSocket session is served by its loop; another goroutine reads its  *)
(* messages, and is the only one to notice that the client has gone.  The  *)
(* loop may be waiting for the service, or for a client that does not      *)
(* read, at that time.  What a message does is in WsBridge, the response   *)
(* of a file in FileResponse, a task once it has started in                *)
(* UpstreamSession.  Op_Variant: see WsBridge.                             *)
(***************************************************************************)
EXTENDS Integers, FiniteSets

CONSTANTS Request,  \* the requests of the clients
          Capacity, \* of realtimeSem: RealtimeConcurrency
          InputCap, \* capacity of the channel input
          MaxTasks  \* maxPendingTurns

ASSUME RequestsAssumption ==
  /\ IsFiniteSet(Request)
  /\ {Capacity, InputCap, MaxTasks} \subseteq Nat \ {0}

VARIABLES slots, \* len(s.realtimeSem)
          kind,  \* of each request: "session" or "file"
          state  \* of each request, a record:
                 \*   at      where its handler is
                 \*   reader  where its reader goroutine is
                 \*   input   messages in the channel
                 \*   done    its context is done
                 \*   client  the client is there
                 \*   conn    the WebSocket is open
                 \*   starting  the connection of the task that is being started
                 \*   tasks   how many tasks it has
                 \*   audio   the decoder of its file is open

vars == <<slots, kind, state>>

Fresh ==
  [at |-> "idle", reader |-> "none", input |-> 0, done |-> FALSE, client |-> TRUE,
   conn |-> FALSE, starting |-> "none", tasks |-> 0, audio |-> FALSE]

Init ==
  /\ slots = 0 /\ kind \in [Request -> {"session", "file"}]
  /\ state = [r \in Request |-> Fresh]

At(r, k, pc) == kind[r] \in k /\ state[r].at = pc
Both == {"session", "file"}
Set(r, new) == state' = [state EXCEPT ![r] = new]
Same == UNCHANGED <<slots, kind>>

-----------------------------------------------------------------------------
(* The slot, and what is opened under it.                                  *)

\* A request that is not valid, or has no slot: 400 or 429.
Refused(r) ==
  /\ At(r, Both, "idle") /\ Set(r, [state[r] EXCEPT !.at = "returned"]) /\ Same

Acquire(r) ==
  /\ At(r, Both, "idle") /\ slots < Capacity
  /\ slots' = slots + 1 /\ Set(r, [state[r] EXCEPT !.at = "open"])
  /\ UNCHANGED kind

\* The upgrade of a session, or the decoder of a file, fails.
OpenFails_Kept(r) ==
  /\ At(r, Both, "open") /\ Set(r, [state[r] EXCEPT !.at = "returned"]) /\ Same
OpenFails(r) ==
  /\ At(r, Both, "open") /\ Set(r, [state[r] EXCEPT !.at = "release"]) /\ Same

Upgrade(r) ==
  /\ At(r, {"session"}, "open")
  /\ Set(r, [state[r] EXCEPT !.at = "reply", !.conn = TRUE, !.reader = "read"])
  /\ Same

Decode(r) ==
  /\ At(r, {"file"}, "open")
  /\ Set(r, [state[r] EXCEPT !.at = "dial", !.audio = TRUE]) /\ Same

-----------------------------------------------------------------------------
(* Start: a connection to the service and its first messages.              *)

Dial(r) ==
  /\ At(r, Both, "dial") /\ ~state[r].done
  /\ Set(r, [state[r] EXCEPT !.at = "handshake", !.starting = "open"]) /\ Same

\* Where the handler goes when a task cannot be started.
Failing(r) == IF kind[r] = "session" THEN "fail" ELSE "close"

DialFails(r) ==
  /\ At(r, Both, "dial") /\ Set(r, [state[r] EXCEPT !.at = Failing(r)]) /\ Same

\* The service has said task-started, or session.updated.  The audio that a
\* session sends at once may fail.
Started(r) ==
  /\ At(r, Both, "handshake") /\ state[r].starting = "open"
  /\ \E pc \in IF kind[r] = "session" THEN {"select", "fail"} ELSE {"serve"} :
       Set(r, [state[r] EXCEPT !.at = pc, !.starting = "none", !.tasks = @ + 1])
  /\ Same

\* Any other message, no message in time, or a connection that is gone.
HandshakeFails(r) ==
  /\ At(r, Both, "handshake")
  /\ Set(r, [state[r] EXCEPT !.at = Failing(r), !.starting = "none"]) /\ Same

\* context.AfterFunc of the task.
CutStart_Never(r) == FALSE /\ UNCHANGED vars
CutStart(r) ==
  /\ state[r].done /\ state[r].starting = "open"
  /\ Set(r, [state[r] EXCEPT !.starting = "cut"]) /\ Same

-----------------------------------------------------------------------------
(* The loop of a session.                                                  *)

\* A message is answered, starts a task, goes to one, ends one (a clear) or
\* ends the session.
HandleMessage(r) ==
  /\ At(r, {"session"}, "select") /\ state[r].input > 0
  /\ \/ \E pc \in {"reply", "select", "fail"} :
          Set(r, [state[r] EXCEPT !.at = pc, !.input = @ - 1])
     \/ /\ state[r].tasks < MaxTasks
        /\ Set(r, [state[r] EXCEPT !.at = "dial", !.input = @ - 1])
     \/ /\ state[r].tasks > 0
        /\ Set(r, [state[r] EXCEPT !.at = "reply", !.input = @ - 1, !.tasks = @ - 1])
  /\ Same

\* The end of a task.
EndTask(r) ==
  /\ At(r, {"session"}, "select") /\ state[r].tasks > 0
  /\ Set(r, [state[r] EXCEPT !.at = "reply", !.tasks = @ - 1]) /\ Same

HandleEvent(r) ==
  /\ At(r, {"session"}, "select") /\ state[r].tasks > 0
  /\ \E pc \in {"reply", "fail"} : Set(r, [state[r] EXCEPT !.at = pc])
  /\ Same

SeeDone(r) ==
  /\ At(r, {"session"}, "select") /\ state[r].done
  /\ Set(r, [state[r] EXCEPT !.at = "unwind"]) /\ Same

\* A write to the client, which may not read.
Reply(r) ==
  /\ At(r, {"session"}, "reply") /\ state[r].conn
  /\ Set(r, [state[r] EXCEPT !.at = "select"]) /\ Same

\* It fails, or it was the report of a fatal error.
ReplyFails(r) ==
  /\ At(r, {"session"}, "reply") \/ At(r, {"session"}, "fail")
  /\ Set(r, [state[r] EXCEPT !.at = "unwind"]) /\ Same

-----------------------------------------------------------------------------
(* The reader goroutine, and the client.                                   *)

Read(r) ==
  /\ state[r].reader = "read" /\ state[r].client /\ state[r].conn
  /\ Set(r, [state[r] EXCEPT !.reader = "put"]) /\ Same

\* The client has gone, is idle for too long or breaks the protocol, or the
\* connection was closed.
ReadFails(r) ==
  /\ state[r].reader = "read" /\ Set(r, [state[r] EXCEPT !.reader = "leave"]) /\ Same

Put(r) ==
  /\ state[r].reader = "put" /\ state[r].input < InputCap
  /\ Set(r, [state[r] EXCEPT !.reader = "read", !.input = @ + 1]) /\ Same

PutStops(r) ==
  /\ state[r].reader = "put" /\ state[r].done
  /\ Set(r, [state[r] EXCEPT !.reader = "leave"]) /\ Same

ReaderEnds_Silent(r) ==
  /\ state[r].reader = "leave"
  /\ Set(r, [state[r] EXCEPT !.reader = "ended"]) /\ Same
\* defer cancel()
ReaderEnds(r) ==
  /\ state[r].reader = "leave"
  /\ Set(r, [state[r] EXCEPT !.reader = "ended", !.done = TRUE]) /\ Same

\* context.AfterFunc of the session.
CutSession(r) ==
  /\ state[r].done /\ state[r].conn
  /\ Set(r, [state[r] EXCEPT !.conn = FALSE]) /\ Same

Leave(r) ==
  /\ state[r].client /\ Set(r, [state[r] EXCEPT !.client = FALSE]) /\ Same

\* net/http cancels the context of a request whose client has gone, but not
\* of a connection that was taken over.
ServerNotices(r) ==
  /\ kind[r] = "file" /\ ~state[r].client /\ ~state[r].done
  /\ state[r].at \notin {"idle", "returned"}
  /\ Set(r, [state[r] EXCEPT !.done = TRUE]) /\ Same

-----------------------------------------------------------------------------
(* The deferred calls.                                                     *)

Respond(r) ==
  /\ At(r, {"file"}, "serve") /\ Set(r, [state[r] EXCEPT !.at = "close"]) /\ Same

Unwind(r) ==
  /\ At(r, {"session"}, "unwind")
  /\ Set(r, [state[r] EXCEPT !.at = "join", !.done = TRUE, !.conn = FALSE]) /\ Same

Join_Not(r) ==
  /\ At(r, {"session"}, "join")
  /\ Set(r, [state[r] EXCEPT !.at = "close"]) /\ Same
\* <-readerDone
Join(r) ==
  /\ At(r, {"session"}, "join") /\ state[r].reader = "ended"
  /\ Set(r, [state[r] EXCEPT !.at = "close"]) /\ Same

\* Every task is closed, and the decoder.
Close(r) ==
  /\ At(r, Both, "close")
  /\ Set(r, [state[r] EXCEPT !.at = "release", !.done = TRUE, !.tasks = 0, !.audio = FALSE])
  /\ Same

Release(r) ==
  /\ At(r, Both, "release")
  /\ slots' = slots - 1 /\ Set(r, [state[r] EXCEPT !.at = "returned"])
  /\ UNCHANGED kind

Open(r)   == Refused(r) \/ Acquire(r) \/ OpenFails(r) \/ Upgrade(r) \/ Decode(r)
Start(r)  == Dial(r) \/ DialFails(r) \/ Started(r) \/ HandshakeFails(r)
Serve(r)  == HandleMessage(r) \/ EndTask(r) \/ HandleEvent(r) \/ SeeDone(r)
               \/ Reply(r) \/ ReplyFails(r) \/ Respond(r)
Reader(r) == Read(r) \/ ReadFails(r) \/ Put(r) \/ PutStops(r) \/ ReaderEnds(r)
Hooks(r)  == CutStart(r) \/ CutSession(r) \/ ServerNotices(r)
Unwinding(r) == Unwind(r) \/ Join(r) \/ Close(r) \/ Release(r)

Terminated ==
  /\ \A r \in Request : state[r].at = "returned" /\ ~state[r].client
  /\ UNCHANGED vars

Next ==
  \/ \E r \in Request : Open(r) \/ Start(r) \/ Serve(r) \/ Reader(r) \/ Leave(r)
                          \/ Hooks(r) \/ Unwinding(r)
  \/ Terminated

Spec == Init /\ [][Next]_vars

\* Goroutines run, a closed connection fails its readers and writers, a dial
\* ends with its context, select does not pass over a context that is done,
\* and the response of a file whose context is done ends (FileResponse).
\* Nothing here relies on a timeout, on the service or on the client.
Fairness ==
  \A r \in Request :
    /\ WF_vars(Unwinding(r)) /\ WF_vars(Hooks(r))
    /\ WF_vars(Put(r) \/ PutStops(r)) /\ WF_vars(ReaderEnds(r))
    /\ WF_vars(ReadFails(r) /\ ~(state[r].client /\ state[r].conn))
    /\ WF_vars((OpenFails(r) \/ DialFails(r)) /\ state[r].done)
    /\ WF_vars(HandshakeFails(r) /\ state[r].starting = "cut")
    /\ WF_vars(ReplyFails(r) /\ ~state[r].conn)
    /\ WF_vars(Respond(r) /\ state[r].done)
    /\ SF_vars(SeeDone(r))

FairSpec == Spec /\ Fairness

\* The upgrade, the start of a task and every write have a timeout, and the
\* loop takes the messages it is given.
Timeouts ==
  \A r \in Request :
    /\ WF_vars(OpenFails(r) \/ Upgrade(r) \/ Decode(r))
    /\ WF_vars(Start(r)) /\ WF_vars(Reply(r) \/ ReplyFails(r))
    /\ SF_vars(HandleMessage(r))

-----------------------------------------------------------------------------
(* Properties.                                                             *)

Holding(r) == state[r].at \notin {"idle", "returned"}
Upstream(r) == state[r].tasks > 0 \/ state[r].starting = "open" \/ state[r].audio

\* The slots taken are those of the requests that are being served, on every
\* way out; and only these have a connection to the service or a decoder, so
\* that the capacity bounds what all requests use together.
SlotsAccounted ==
  /\ slots = Cardinality({r \in Request : Holding(r)}) /\ slots <= Capacity
  /\ \A r \in Request : Upstream(r) => Holding(r) /\ state[r].at # "release"

\* A request that has returned leaves nothing: no reader, which would write
\* to a channel and a connection that nobody serves, no open connection to
\* the client or to the service, and no decoder.
NothingLeft ==
  \A r \in Request : state[r].at \in {"release", "returned"} =>
    /\ state[r].reader \in {"none", "ended"} /\ ~state[r].conn
    /\ ~Upstream(r)

\* A request whose context is done returns, wherever it is: in the handshake
\* of a task with a service that does not answer, in a write to a client that
\* does not read, or between the two goroutines of a session.
DoneReturns == \A r \in Request : state[r].done ~> state[r].at = "returned"

\* The README on disconnections: a client that goes away ends its session,
\* which cancels its tasks.  The reader notices it, unless it waits for the
\* loop, which waits for the service: then the timeouts of Start are needed.
DisconnectEnds ==
  Timeouts => \A r \in Request :
    ~state[r].client /\ Holding(r) ~> state[r].at = "returned"

=============================================================================
