------------------------- MODULE UpstreamSessionProofs -------------------------
(***************************************************************************)
(* Proofs about UpstreamSession for every capacity of its channels: the    *)
(* type invariant, and the three safety properties of a task's end.        *)
(*                                                                         *)
(* NoTimerLeft is inductive with the types.  OneEnd needs that nothing was *)
(* passed on as an end while the forwarder runs, FinishedIsGenuine that    *)
(* finishing is never taken back.                                          *)
(***************************************************************************)
EXTENDS UpstreamSession, TLAPS

-----------------------------------------------------------------------------
(* The type invariant.                                                     *)

LEMMA Capacities == EventsCap \in Nat /\ InboxCap \in Nat
BY SessionAssumption DEF SessionAssumption

LEMMA TypeInit == Init => TypeOK
<1> SUFFICES ASSUME Init PROVE TypeOK
  OBVIOUS
<1>1. closing \in [Closers -> {"none", "conn", "lock", "done"}]
  BY DEF Init
<1>2. events \in Seq(Kind) /\ Len(events) <= EventsCap
  BY Capacities DEF Init
<1>3. inbox \in Seq(Kind) /\ Len(inbox) <= InboxCap
  BY Capacities DEF Init
<1>4. ends \in Seq(EndKind)
  BY DEF Init
<1>5. next \in Kind /\ carry \in Kind
  BY DEF Init, Kind
<1>6. /\ conn \in BOOLEAN /\ turnDone \in BOOLEAN /\ taskDone \in BOOLEAN /\ hook \in BOOLEAN
      /\ finishing \in BOOLEAN /\ closed \in BOOLEAN /\ eventsClosed \in BOOLEAN
  BY DEF Init
<1>7. /\ mu \in {"free", "caller"} /\ timer \in {"none", "armed", "fired", "stopped"}
      /\ caller \in {"idle", "audio", "finish", "writing"}
      /\ reader \in {"read", "ask", "emit", "close", "ended"}
      /\ forwarder \in {"wait", "put", "ended"}
  BY DEF Init
<1> QED BY <1>1, <1>2, <1>3, <1>4, <1>5, <1>6, <1>7 DEF TypeOK

\* Steps that only move a flag and the place of a closer.
LEMMA CancelsTypes ==
  ASSUME TypeOK, NEW p \in Closers, CloseCancels(p) PROVE TypeOK'
BY DEF TypeOK, CloseCancels, ctxs, calls, chan, fwd

LEMMA CutsTypes ==
  ASSUME TypeOK, NEW p \in Closers, CloseConn(p) PROVE TypeOK'
<1>1. closing' \in [Closers -> {"none", "conn", "lock", "done"}]
  BY DEF TypeOK, CloseConn
<1>2. conn' \in BOOLEAN
  BY DEF CloseConn
<1> QED BY <1>1, <1>2 DEF TypeOK, CloseConn, ctxs, calls, chan, fwd

LEMMA LocksTypes ==
  ASSUME TypeOK, NEW p \in Closers, CloseLocked(p) PROVE TypeOK'
<1>1. closing' \in [Closers -> {"none", "conn", "lock", "done"}]
  BY DEF TypeOK, CloseLocked
<1>2. /\ closed' \in BOOLEAN /\ hook' \in BOOLEAN
      /\ timer' \in {"none", "armed", "fired", "stopped"}
  BY DEF TypeOK, CloseLocked
<1> QED BY <1>1, <1>2 DEF TypeOK, CloseLocked, ctxs, calls, chan, fwd

LEMMA TimerTypes == TypeOK /\ FinishTimer => TypeOK'
<1> SUFFICES ASSUME TypeOK, FinishTimer PROVE TypeOK'
  OBVIOUS
<1>1. conn' \in BOOLEAN /\ timer' \in {"none", "armed", "fired", "stopped"}
  BY DEF FinishTimer
<1> QED BY <1>1 DEF TypeOK, FinishTimer, ctxs, calls, chan, fwd

LEMMA CancelTurnTypes == TypeOK /\ CancelTurn => TypeOK'
<1> SUFFICES ASSUME TypeOK, CancelTurn PROVE TypeOK'
  OBVIOUS
<1>1. turnDone' \in BOOLEAN /\ taskDone' \in BOOLEAN
  BY DEF CancelTurn
<1> QED BY <1>1 DEF TypeOK, CancelTurn, ctxs, calls, chan, fwd

LEMMA HookTypes == TypeOK /\ Hook => TypeOK'
<1> SUFFICES ASSUME TypeOK, Hook PROVE TypeOK'
  OBVIOUS
<1>1. conn' \in BOOLEAN /\ hook' \in BOOLEAN
  BY DEF Hook
<1> QED BY <1>1 DEF TypeOK, Hook, ctxs, calls, chan, fwd

LEMMA TypeNext == TypeOK /\ [Next]_vars => TypeOK'
<1> SUFFICES ASSUME TypeOK, [Next]_vars PROVE TypeOK'
  OBVIOUS
<1>1. CASE Call
  BY <1>1 DEF TypeOK, Call, ctxs, calls, chan, fwd
<1>2. CASE CallRefused
  BY <1>2 DEF TypeOK, CallRefused, ctxs, calls, chan, fwd
<1>3. CASE SendLocked
  BY <1>3 DEF TypeOK, SendLocked, ctxs, calls, chan, fwd
<1>4. CASE FinishLocked
  BY <1>4 DEF TypeOK, FinishLocked, ctxs, calls, chan, fwd
<1>5. CASE WriteReturns
  BY <1>5 DEF TypeOK, WriteReturns, ctxs, calls, chan, fwd
<1>6. CASE \E p \in Closers : CloseCancels(p)
  BY <1>6, CancelsTypes
<1>7. CASE \E p \in Closers : CloseConn(p)
  BY <1>7, CutsTypes
<1>8. CASE \E p \in Closers : CloseLocked(p)
  BY <1>8, LocksTypes
<1>9. CASE CancelTurn
  BY <1>9, CancelTurnTypes
<1>10. CASE Hook
  BY <1>10, HookTypes
<1>11. CASE FinishTimer
  BY <1>11, TimerTypes
<1>12. CASE ReadResult
  BY <1>12 DEF TypeOK, ReadResult, ctxs, calls, chan, fwd, Read, Kind, EndKind
<1>13. CASE ReadFinished
  BY <1>13 DEF TypeOK, ReadFinished, ctxs, calls, chan, fwd, Read, Kind, EndKind
<1>14. CASE ReadFails
  BY <1>14 DEF TypeOK, ReadFails, ctxs, calls, chan, fwd, Read, Kind, EndKind
<1>15. CASE AskFinishing
  BY <1>15 DEF TypeOK, AskFinishing, ctxs, calls, chan, fwd, Kind, EndKind
<1>16. CASE EmitPut
  <2>1. Append(events, next) \in Seq(Kind) /\ Len(Append(events, next)) = Len(events) + 1
        /\ Len(events) \in Nat
    BY DEF TypeOK
  <2> QED BY <1>16, <2>1, Capacities DEF TypeOK, EmitPut, ctxs, calls, chan, fwd
<1>17. CASE EmitDrop
  BY <1>17 DEF TypeOK, EmitDrop, ctxs, calls, chan, fwd
<1>18. CASE CloseEvents
  BY <1>18 DEF TypeOK, CloseEvents, ctxs, calls, chan, fwd
<1>19. CASE ForwardTakes
  <2>1. events # <<>> => Head(events) \in Kind /\ Tail(events) \in Seq(Kind)
                         /\ Len(Tail(events)) = Len(events) - 1 /\ Len(events) \in Nat
    BY DEF TypeOK
  <2>2. "err" \in Kind
    BY DEF Kind, EndKind
  <2>3. carry' \in Kind /\ events' \in Seq(Kind) /\ Len(events') <= EventsCap
    <3>1. CASE events # <<>> /\ carry' = Head(events) /\ events' = Tail(events)
      <4>1. Len(events) <= EventsCap
        BY DEF TypeOK
      <4> QED BY <3>1, <4>1, <2>1, Capacities
    <3>2. CASE carry' = "err" /\ events' = events
      BY <3>2, <2>2 DEF TypeOK
    <3> QED BY <1>19, <3>1, <3>2 DEF ForwardTakes
  <2> QED BY <1>19, <2>3 DEF ForwardTakes, Forwarding, TypeOK, ctxs, calls
<1>20. CASE ForwardPuts
  <2>1. Append(inbox, carry) \in Seq(Kind) /\ Len(Append(inbox, carry)) = Len(inbox) + 1
        /\ Len(inbox) \in Nat
    BY DEF TypeOK
  <2>2. carry \in EndKind => Append(ends, carry) \in Seq(EndKind)
    BY DEF TypeOK
  <2>3. inbox' \in Seq(Kind) /\ Len(inbox') <= InboxCap /\ ends' \in Seq(EndKind)
    BY <1>20, <2>1, <2>2, Capacities DEF ForwardPuts, TypeOK
  <2> QED BY <1>20, <2>3 DEF ForwardPuts, Forwarding, TypeOK, ctxs, calls, chan
<1>21. CASE ForwardStops
  BY <1>21 DEF TypeOK, ForwardStops, ctxs, calls, chan, fwd, Forwarding
<1>22. CASE LoopTakes
  <2>1. inbox # <<>> => Tail(inbox) \in Seq(Kind) /\ Len(Tail(inbox)) = Len(inbox) - 1
                        /\ Len(inbox) \in Nat
    BY DEF TypeOK
  <2> QED BY <1>22, <2>1, Capacities DEF TypeOK, LoopTakes, ctxs, calls, chan
<1>23. CASE UNCHANGED vars
  BY <1>23 DEF TypeOK, vars, ctxs, calls, chan, fwd
<1> QED
  BY <1>1, <1>2, <1>3, <1>4, <1>5, <1>6, <1>7, <1>8, <1>9, <1>10, <1>11, <1>12, <1>13, <1>14, <1>15, <1>16, <1>17, <1>18, <1>19, <1>20, <1>21, <1>22, <1>23
  DEF Next, Caller, CloseStep, Reader, Forwarder

\* Every variable keeps its type; the channels keep to their capacities.
THEOREM SessionTypes == Spec => []TypeOK
<1>1. Init => TypeOK
  BY TypeInit
<1>2. TypeOK /\ [Next]_vars => TypeOK'
  BY TypeNext
<1> QED BY <1>1, <1>2, PTL DEF Spec

-----------------------------------------------------------------------------
(* The finish timer.                                                       *)

\* No finish timer is armed after Close, in whichever order Finish, the two
\* calls of Close and the timer itself run: Finish looks at closed under the
\* lock under which Close sets it and stops the timer.
THEOREM TimerStopped == Spec => []NoTimerLeft
<1>1. Init => NoTimerLeft
  BY DEF Init, NoTimerLeft
<1>2. NoTimerLeft /\ [Next]_vars => NoTimerLeft'
  <2> SUFFICES ASSUME NoTimerLeft, [Next]_vars PROVE NoTimerLeft'
    OBVIOUS
  <2> USE DEF NoTimerLeft
  <2>1. CASE Caller
    BY <2>1 DEF Caller, Call, CallRefused, SendLocked, FinishLocked, WriteReturns
  <2>2. CASE \E p \in Closers : CloseStep(p)
    BY <2>2 DEF CloseStep, CloseCancels, CloseConn, CloseLocked
  <2>3. CASE CancelTurn \/ Hook \/ FinishTimer \/ LoopTakes
    BY <2>3 DEF CancelTurn, Hook, FinishTimer, LoopTakes
  <2>4. CASE Reader
    BY <2>4 DEF Reader, ReadResult, ReadFinished, ReadFails, Read, AskFinishing, EmitPut,
                EmitDrop, CloseEvents
  <2>5. CASE Forwarder
    BY <2>5 DEF Forwarder, ForwardTakes, ForwardPuts, ForwardStops, Forwarding
  <2>6. CASE UNCHANGED vars
    BY <2>6 DEF vars
  <2> QED BY <2>1, <2>2, <2>3, <2>4, <2>5, <2>6 DEF Next
<1> QED BY <1>1, <1>2, PTL DEF Spec

-----------------------------------------------------------------------------
(* The end that the bridge hears of.                                       *)

\* The strengthening of OneEnd: a forwarder that runs has passed on no end.
Running == forwarder # "ended" => ends = <<>>

LEMMA EndsNext == TypeOK /\ OneEnd /\ Running /\ [Next]_vars => (OneEnd /\ Running)'
<1> SUFFICES ASSUME TypeOK, OneEnd, Running, [Next]_vars PROVE (OneEnd /\ Running)'
  OBVIOUS
<1> USE DEF OneEnd, Running
<1>1. CASE ForwardPuts
  <2>1. ends = <<>> /\ forwarder = "put"
    BY <1>1 DEF ForwardPuts
  <2>2. Len(<<>>) = 0 /\ Len(Append(<<>>, carry)) = 1
    OBVIOUS
  <2> QED BY <1>1, <2>1, <2>2 DEF ForwardPuts
<1>2. CASE ForwardTakes \/ ForwardStops
  BY <1>2 DEF ForwardTakes, ForwardStops, Forwarding
<1>3. CASE UNCHANGED <<forwarder, ends>>
  BY <1>3
<1>4. CASE Caller
  BY <1>3, <1>4 DEF Caller, Call, CallRefused, SendLocked, FinishLocked, WriteReturns, fwd
<1>5. CASE \E p \in Closers : CloseStep(p)
  BY <1>3, <1>5 DEF CloseStep, CloseCancels, CloseConn, CloseLocked, fwd
<1>6. CASE CancelTurn \/ Hook \/ FinishTimer \/ LoopTakes
  BY <1>3, <1>6 DEF CancelTurn, Hook, FinishTimer, LoopTakes, fwd
<1>7. CASE Reader
  BY <1>3, <1>7 DEF Reader, ReadResult, ReadFinished, ReadFails, Read, AskFinishing, EmitPut,
                    EmitDrop, CloseEvents, fwd
<1>8. CASE UNCHANGED vars
  BY <1>3, <1>8 DEF vars, fwd
<1> QED BY <1>1, <1>2, <1>4, <1>5, <1>6, <1>7, <1>8 DEF Next, Forwarder

\* The bridge is told of the end of a task at most once.
THEOREM EndsOnce == Spec => []OneEnd
<1>1. Init => OneEnd /\ Running
  BY DEF Init, OneEnd, Running
<1>2. TypeOK /\ OneEnd /\ Running /\ [Next]_vars => (OneEnd /\ Running)'
  BY EndsNext
<1> QED BY <1>1, <1>2, SessionTypes, PTL DEF Spec

-----------------------------------------------------------------------------
(* A normal end.                                                           *)

LEMMA GenuineNext == TypeOK /\ FinishedIsGenuine /\ [Next]_vars => FinishedIsGenuine'
<1> SUFFICES ASSUME TypeOK, FinishedIsGenuine, [Next]_vars, Passed("finished")'
             PROVE  finishing'
  BY DEF FinishedIsGenuine
<1>1. finishing => finishing'
  BY DEF Next, vars, Caller, Call, CallRefused, SendLocked, FinishLocked, WriteReturns, CloseStep,
         CloseCancels, CloseConn, CloseLocked, CancelTurn, Hook, FinishTimer, LoopTakes, Reader,
         ReadResult, ReadFinished, ReadFails, Read, AskFinishing, EmitPut, EmitDrop, CloseEvents,
         Forwarder, ForwardTakes, ForwardPuts, ForwardStops, Forwarding, calls
<1>2. CASE finishing
  BY <1>1, <1>2
<1>3. CASE ~finishing
  <2>1. ~Passed("finished")
    BY <1>3 DEF FinishedIsGenuine
  <2> USE DEF Passed
  <2>2. CASE UNCHANGED <<reader, next, forwarder, carry, events, ends>>
    BY <2>1, <2>2
  <2>3. CASE Caller
    BY <2>2, <2>3 DEF Caller, Call, CallRefused, SendLocked, FinishLocked, WriteReturns, chan, fwd
  <2>4. CASE \E p \in Closers : CloseStep(p)
    BY <2>2, <2>4 DEF CloseStep, CloseCancels, CloseConn, CloseLocked, chan, fwd
  <2>5. CASE CancelTurn \/ Hook \/ FinishTimer \/ LoopTakes
    BY <2>2, <2>5 DEF CancelTurn, Hook, FinishTimer, LoopTakes, chan, fwd
  <2>6. CASE Reader
    <3>1. CASE ReadResult \/ ReadFinished \/ ReadFails \/ AskFinishing \/ EmitDrop \/ CloseEvents
      BY <1>3, <2>1, <3>1 DEF ReadResult, ReadFinished, ReadFails, Read, AskFinishing, EmitDrop,
                              CloseEvents, chan, fwd
    <3>2. CASE EmitPut
      <4>1. next # "finished"
        BY <2>1, <3>2 DEF EmitPut
      <4>2. \A n \in DOMAIN events' : events'[n] = next \/ (n \in DOMAIN events /\ events'[n] = events[n])
        BY <3>2 DEF EmitPut, TypeOK
      <4> QED BY <2>1, <3>2, <4>1, <4>2 DEF EmitPut, fwd
    <3> QED BY <2>6, <3>1, <3>2 DEF Reader
  <2>7. CASE ForwardTakes
    <3>1. CASE events # <<>>
      <4>1. events \in Seq(Kind)
        BY DEF TypeOK
      <4>2. /\ 1 \in DOMAIN events /\ Head(events) = events[1]
            /\ \A n \in DOMAIN Tail(events) : n + 1 \in DOMAIN events /\ Tail(events)[n] = events[n + 1]
        BY <3>1, <4>1
      <4> QED BY <2>1, <2>7, <3>1, <4>2 DEF ForwardTakes, Forwarding
    <3>2. CASE events = <<>>
      BY <2>1, <2>7, <3>2 DEF ForwardTakes, Forwarding
    <3> QED BY <3>1, <3>2
  <2>8. CASE ForwardPuts
    <3>1. carry # "finished"
      BY <2>1, <2>8 DEF ForwardPuts
    <3>2. \A n \in DOMAIN ends' : ends'[n] = carry \/ (n \in DOMAIN ends /\ ends'[n] = ends[n])
      BY <2>8 DEF ForwardPuts, TypeOK
    <3> QED BY <2>1, <2>8, <3>1, <3>2 DEF ForwardPuts, Forwarding, chan
  <2>9. CASE ForwardStops
    BY <2>1, <2>9 DEF ForwardStops, Forwarding, chan
  <2>10. CASE UNCHANGED vars
    BY <2>2, <2>10 DEF vars, chan, fwd
  <2> QED BY <2>3, <2>4, <2>5, <2>6, <2>7, <2>8, <2>9, <2>10 DEF Next, Forwarder
<1> QED BY <1>2, <1>3

\* A task that ends normally for the bridge has had its input finished.
THEOREM GenuineEnd == Spec => []FinishedIsGenuine
<1>1. Init => FinishedIsGenuine
  BY DEF Init, FinishedIsGenuine, Passed
<1>2. TypeOK /\ FinishedIsGenuine /\ [Next]_vars => FinishedIsGenuine'
  BY GenuineNext
<1> QED BY <1>1, <1>2, SessionTypes, PTL DEF Spec

=============================================================================
