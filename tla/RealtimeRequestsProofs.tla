------------------------ MODULE RealtimeRequestsProofs ------------------------
(***************************************************************************)
(* Proofs about RealtimeRequests for any number of requests and slots: a   *)
(* slot is held exactly while a request is served, and nothing of a        *)
(* request is left when it has returned.                                   *)
(*                                                                         *)
(* The inductive invariant is RequestsInv.  Sound is about one request: a  *)
(* task is being started only during the handshake, and on the way out the *)
(* connection goes before the handler waits for the reader, and everything *)
(* else before the slot.  Counted is about all of them.  Almost every step *)
(* changes one request and neither takes nor gives a slot: Local.          *)
(***************************************************************************)
EXTENDS RealtimeRequests, FiniteSetTheorems, TLAPS

Place == {"idle", "open", "dial", "handshake", "select", "reply", "fail", "serve",
          "unwind", "join", "close", "release", "returned"}

RequestState ==
  [at : Place, reader : {"none", "read", "put", "leave", "ended"}, input : Nat,
   done : BOOLEAN, client : BOOLEAN, conn : BOOLEAN,
   starting : {"none", "open", "cut"}, tasks : Nat, audio : BOOLEAN]

TypeOK ==
  /\ slots \in Int /\ kind \in [Request -> Both]
  /\ state \in [Request -> RequestState]

\* Nothing is open, and no goroutine runs.
Quiet(s) ==
  /\ s.reader \in {"none", "ended"} /\ ~s.conn
  /\ s.tasks = 0 /\ s.starting = "none" /\ ~s.audio

Sound(s, k) ==
  /\ s.at \in {"idle", "open", "release", "returned"} => Quiet(s)
  /\ s.starting # "none" => s.at = "handshake"
  /\ k = "file" => s.reader = "none" /\ ~s.conn
  /\ k = "session" => ~s.audio
  /\ s.at = "join" => ~s.conn
  /\ s.at = "close" => s.reader \in {"none", "ended"} /\ ~s.conn

Free(s) == s.at \in {"idle", "returned"}
Holders == {r \in Request : Holding(r)}
Counted == slots = Cardinality(Holders) /\ slots <= Capacity

RequestsInv ==
  TypeOK /\ (\A r \in Request : Sound(state[r], kind[r])) /\ Counted

LEMMA Assumed == IsFiniteSet(Request) /\ Capacity \in Nat \ {0}
BY RequestsAssumption DEF RequestsAssumption

LEMMA HoldersFinite == IsFiniteSet(Holders) /\ Cardinality(Holders) \in Nat
<1>1. Holders \subseteq Request
  BY DEF Holders
<1> QED BY <1>1, Assumed, FS_Subset, FS_CardinalityType

LEMMA HoldingIs == ASSUME NEW r \in Request PROVE Holding(r) <=> ~Free(state[r])
BY DEF Holding, Free

-----------------------------------------------------------------------------
(* Steps that change one request and no slot.                              *)

Local(r) ==
  \E new \in RequestState :
    /\ Set(r, new) /\ Same
    /\ Sound(new, kind[r])
    /\ Free(new) <=> Free(state[r])

LEMMA LocalKeeps ==
  ASSUME RequestsInv, NEW r \in Request, Local(r)
  PROVE  RequestsInv'
<1>1. PICK new \in RequestState : /\ state' = [state EXCEPT ![r] = new]
                                  /\ UNCHANGED <<slots, kind>>
                                  /\ Sound(new, kind[r])
                                  /\ Free(new) <=> Free(state[r])
  BY DEF Local, Set, Same
<1>2. TypeOK'
  BY <1>1 DEF RequestsInv, TypeOK
<1>3. \A q \in Request : state'[q] = IF q = r THEN new ELSE state[q]
  BY <1>1 DEF RequestsInv, TypeOK
<1>4. \A q \in Request : Sound(state'[q], kind'[q])
  BY <1>1, <1>3 DEF RequestsInv
<1>5. \A q \in Request : Holding(q)' <=> Holding(q)
  BY <1>1, <1>3 DEF Holding, Free
<1>6. Holders' = Holders
  BY <1>5 DEF Holders
<1>7. Counted'
  BY <1>1, <1>6 DEF RequestsInv, Counted
<1> QED BY <1>2, <1>4, <1>7 DEF RequestsInv

\* What is known of a request before a step of it.
LEMMA Before ==
  ASSUME RequestsInv, NEW r \in Request
  PROVE  state[r] \in RequestState /\ Sound(state[r], kind[r]) /\ kind[r] \in Both
BY DEF RequestsInv, TypeOK

\* Its counters stay natural numbers.
LEMMA Counters ==
  ASSUME NEW s \in RequestState
  PROVE  /\ s.input + 1 \in Nat /\ (s.input > 0 => s.input - 1 \in Nat)
         /\ s.tasks + 1 \in Nat /\ (s.tasks > 0 => s.tasks - 1 \in Nat)
<1>1. s.input \in Nat /\ s.tasks \in Nat
  BY DEF RequestState
<1> QED BY <1>1

LEMMA OpenLocal ==
  ASSUME RequestsInv, NEW r \in Request,
         Refused(r) \/ OpenFails(r) \/ Upgrade(r) \/ Decode(r)
  PROVE  Local(r)
<1> DEFINE s == state[r]
<1>0. s \in RequestState /\ Sound(s, kind[r]) /\ kind[r] \in Both
  BY Before
<1>1. CASE Refused(r)
  <2> DEFINE new == [s EXCEPT !.at = "returned"]
  <2>1. new \in RequestState /\ Sound(new, kind[r]) /\ (Free(new) <=> Free(s))
    BY <1>0, <1>1 DEF Refused, At, RequestState, Place, Sound, Quiet, Free
  <2> QED BY <1>1, <2>1 DEF Refused, Local
<1>2. CASE OpenFails(r)
  <2> DEFINE new == [s EXCEPT !.at = "release"]
  <2>1. new \in RequestState /\ Sound(new, kind[r]) /\ (Free(new) <=> Free(s))
    BY <1>0, <1>2 DEF OpenFails, At, RequestState, Place, Sound, Quiet, Free
  <2> QED BY <1>2, <2>1 DEF OpenFails, Local
<1>3. CASE Upgrade(r)
  <2> DEFINE new == [s EXCEPT !.at = "reply", !.conn = TRUE, !.reader = "read"]
  <2>1. new \in RequestState /\ Sound(new, kind[r]) /\ (Free(new) <=> Free(s))
    BY <1>0, <1>3 DEF Upgrade, At, RequestState, Place, Sound, Quiet, Free
  <2> QED BY <1>3, <2>1 DEF Upgrade, Local
<1>4. CASE Decode(r)
  <2> DEFINE new == [s EXCEPT !.at = "dial", !.audio = TRUE]
  <2>1. new \in RequestState /\ Sound(new, kind[r]) /\ (Free(new) <=> Free(s))
    BY <1>0, <1>4 DEF Decode, At, RequestState, Place, Sound, Quiet, Free
  <2> QED BY <1>4, <2>1 DEF Decode, Local
<1> QED BY <1>1, <1>2, <1>3, <1>4

LEMMA StartLocal ==
  ASSUME RequestsInv, NEW r \in Request,
         Dial(r) \/ DialFails(r) \/ Started(r) \/ HandshakeFails(r) \/ CutStart(r)
  PROVE  Local(r)
<1> DEFINE s == state[r]
<1>0. s \in RequestState /\ Sound(s, kind[r]) /\ kind[r] \in Both
  BY Before
<1>1. CASE Dial(r)
  <2> DEFINE new == [s EXCEPT !.at = "handshake", !.starting = "open"]
  <2>1. new \in RequestState /\ Sound(new, kind[r]) /\ (Free(new) <=> Free(s))
    BY <1>0, <1>1 DEF Dial, At, RequestState, Place, Sound, Quiet, Free
  <2> QED BY <1>1, <2>1 DEF Dial, Local
<1>2. CASE DialFails(r)
  <2> DEFINE new == [s EXCEPT !.at = Failing(r)]
  <2>1. new \in RequestState /\ Sound(new, kind[r]) /\ (Free(new) <=> Free(s))
    BY <1>0, <1>2 DEF DialFails, At, RequestState, Place, Sound, Quiet, Free, Failing, Both
  <2> QED BY <1>2, <2>1 DEF DialFails, Local
<1>3. CASE Started(r)
  <2>1. PICK pc \in Place : /\ Set(r, [s EXCEPT !.at = pc, !.starting = "none", !.tasks = @ + 1]) /\ Same
                            /\ pc = "serve" \/ (pc \in {"select", "fail"} /\ kind[r] = "session")
    BY <1>3 DEF Started, At, Place
  <2> DEFINE new == [s EXCEPT !.at = pc, !.starting = "none", !.tasks = @ + 1]
  <2>2. new \in RequestState /\ Sound(new, kind[r]) /\ (Free(new) <=> Free(s))
    BY <1>0, Counters, <1>3, <2>1 DEF Started, At, RequestState, Place, Sound, Quiet, Free
  <2> QED BY <2>1, <2>2 DEF Local
<1>4. CASE HandshakeFails(r)
  <2> DEFINE new == [s EXCEPT !.at = Failing(r), !.starting = "none"]
  <2>1. new \in RequestState /\ Sound(new, kind[r]) /\ (Free(new) <=> Free(s))
    BY <1>0, <1>4 DEF HandshakeFails, At, RequestState, Place, Sound, Quiet, Free, Failing, Both
  <2> QED BY <1>4, <2>1 DEF HandshakeFails, Local
<1>5. CASE CutStart(r)
  <2> DEFINE new == [s EXCEPT !.starting = "cut"]
  <2>1. new \in RequestState /\ Sound(new, kind[r]) /\ (Free(new) <=> Free(s))
    BY <1>0, <1>5 DEF CutStart, At, RequestState, Place, Sound, Quiet, Free
  <2> QED BY <1>5, <2>1 DEF CutStart, Local
<1> QED BY <1>1, <1>2, <1>3, <1>4, <1>5

LEMMA ServeLocal ==
  ASSUME RequestsInv, NEW r \in Request,
         HandleMessage(r) \/ EndTask(r) \/ HandleEvent(r) \/ SeeDone(r)
           \/ Reply(r) \/ ReplyFails(r) \/ Respond(r)
  PROVE  Local(r)
<1> DEFINE s == state[r]
<1>0. s \in RequestState /\ Sound(s, kind[r]) /\ kind[r] \in Both
  BY Before
<1>1. CASE HandleMessage(r)
  <2>0. s.at = "select" /\ kind[r] = "session" /\ s.input > 0 /\ Same
    BY <1>1 DEF HandleMessage, At
  <2>1. CASE \E pc \in {"reply", "select", "fail"} :
               Set(r, [s EXCEPT !.at = pc, !.input = @ - 1])
    <3>1. PICK pc \in {"reply", "select", "fail"} : Set(r, [s EXCEPT !.at = pc, !.input = @ - 1])
      BY <2>1
    <3> DEFINE new == [s EXCEPT !.at = pc, !.input = @ - 1]
    <3>2. new \in RequestState /\ Sound(new, kind[r]) /\ (Free(new) <=> Free(s))
      BY <1>0, Counters, <2>0 DEF RequestState, Place, Sound, Quiet, Free
    <3> QED BY <2>0, <3>1, <3>2 DEF Local
  <2>2. CASE Set(r, [s EXCEPT !.at = "dial", !.input = @ - 1])
    <3> DEFINE new == [s EXCEPT !.at = "dial", !.input = @ - 1]
    <3>1. new \in RequestState /\ Sound(new, kind[r]) /\ (Free(new) <=> Free(s))
      BY <1>0, Counters, <2>0 DEF RequestState, Place, Sound, Quiet, Free
    <3> QED BY <2>0, <2>2, <3>1 DEF Local
  <2>3. CASE s.tasks > 0 /\ Set(r, [s EXCEPT !.at = "reply", !.input = @ - 1, !.tasks = @ - 1])
    <3> DEFINE new == [s EXCEPT !.at = "reply", !.input = @ - 1, !.tasks = @ - 1]
    <3>1. new \in RequestState /\ Sound(new, kind[r]) /\ (Free(new) <=> Free(s))
      BY <1>0, Counters, <2>0, <2>3 DEF RequestState, Place, Sound, Quiet, Free
    <3> QED BY <2>0, <2>3, <3>1 DEF Local
  <2> QED BY <1>1, <2>1, <2>2, <2>3 DEF HandleMessage
<1>2. CASE EndTask(r)
  <2> DEFINE new == [s EXCEPT !.at = "reply", !.tasks = @ - 1]
  <2>1. new \in RequestState /\ Sound(new, kind[r]) /\ (Free(new) <=> Free(s))
    BY <1>0, Counters, <1>2 DEF EndTask, At, RequestState, Place, Sound, Quiet, Free
  <2> QED BY <1>2, <2>1 DEF EndTask, Local
<1>3. CASE HandleEvent(r)
  <2>1. PICK pc \in Place : /\ Set(r, [s EXCEPT !.at = pc]) /\ Same
                            /\ pc \in {"reply", "fail"}
    BY <1>3 DEF HandleEvent, At, Place
  <2> DEFINE new == [s EXCEPT !.at = pc]
  <2>2. new \in RequestState /\ Sound(new, kind[r]) /\ (Free(new) <=> Free(s))
    BY <1>0, <1>3, <2>1 DEF HandleEvent, At, RequestState, Place, Sound, Quiet, Free
  <2> QED BY <2>1, <2>2 DEF Local
<1>4. CASE SeeDone(r)
  <2> DEFINE new == [s EXCEPT !.at = "unwind"]
  <2>1. new \in RequestState /\ Sound(new, kind[r]) /\ (Free(new) <=> Free(s))
    BY <1>0, <1>4 DEF SeeDone, At, RequestState, Place, Sound, Quiet, Free
  <2> QED BY <1>4, <2>1 DEF SeeDone, Local
<1>5. CASE Reply(r)
  <2> DEFINE new == [s EXCEPT !.at = "select"]
  <2>1. new \in RequestState /\ Sound(new, kind[r]) /\ (Free(new) <=> Free(s))
    BY <1>0, <1>5 DEF Reply, At, RequestState, Place, Sound, Quiet, Free
  <2> QED BY <1>5, <2>1 DEF Reply, Local
<1>6. CASE ReplyFails(r)
  <2> DEFINE new == [s EXCEPT !.at = "unwind"]
  <2>1. new \in RequestState /\ Sound(new, kind[r]) /\ (Free(new) <=> Free(s))
    BY <1>0, <1>6 DEF ReplyFails, At, RequestState, Place, Sound, Quiet, Free
  <2> QED BY <1>6, <2>1 DEF ReplyFails, Local
<1>7. CASE Respond(r)
  <2> DEFINE new == [s EXCEPT !.at = "close"]
  <2>1. new \in RequestState /\ Sound(new, kind[r]) /\ (Free(new) <=> Free(s))
    BY <1>0, <1>7 DEF Respond, At, RequestState, Place, Sound, Quiet, Free
  <2> QED BY <1>7, <2>1 DEF Respond, Local
<1> QED BY <1>1, <1>2, <1>3, <1>4, <1>5, <1>6, <1>7

LEMMA ReaderLocal ==
  ASSUME RequestsInv, NEW r \in Request,
         Read(r) \/ ReadFails(r) \/ Put(r) \/ PutStops(r) \/ ReaderEnds(r)
  PROVE  Local(r)
<1> DEFINE s == state[r]
<1>0. s \in RequestState /\ Sound(s, kind[r]) /\ kind[r] \in Both
  BY Before
<1>1. CASE Read(r)
  <2> DEFINE new == [s EXCEPT !.reader = "put"]
  <2>1. new \in RequestState /\ Sound(new, kind[r]) /\ (Free(new) <=> Free(s))
    BY <1>0, <1>1 DEF Read, At, RequestState, Place, Sound, Quiet, Free
  <2> QED BY <1>1, <2>1 DEF Read, Local
<1>2. CASE ReadFails(r)
  <2> DEFINE new == [s EXCEPT !.reader = "leave"]
  <2>1. new \in RequestState /\ Sound(new, kind[r]) /\ (Free(new) <=> Free(s))
    BY <1>0, <1>2 DEF ReadFails, At, RequestState, Place, Sound, Quiet, Free
  <2> QED BY <1>2, <2>1 DEF ReadFails, Local
<1>3. CASE Put(r)
  <2> DEFINE new == [s EXCEPT !.reader = "read", !.input = @ + 1]
  <2>1. new \in RequestState /\ Sound(new, kind[r]) /\ (Free(new) <=> Free(s))
    BY <1>0, Counters, <1>3 DEF Put, At, RequestState, Place, Sound, Quiet, Free
  <2> QED BY <1>3, <2>1 DEF Put, Local
<1>4. CASE PutStops(r)
  <2> DEFINE new == [s EXCEPT !.reader = "leave"]
  <2>1. new \in RequestState /\ Sound(new, kind[r]) /\ (Free(new) <=> Free(s))
    BY <1>0, <1>4 DEF PutStops, At, RequestState, Place, Sound, Quiet, Free
  <2> QED BY <1>4, <2>1 DEF PutStops, Local
<1>5. CASE ReaderEnds(r)
  <2> DEFINE new == [s EXCEPT !.reader = "ended", !.done = TRUE]
  <2>1. new \in RequestState /\ Sound(new, kind[r]) /\ (Free(new) <=> Free(s))
    BY <1>0, <1>5 DEF ReaderEnds, At, RequestState, Place, Sound, Quiet, Free
  <2> QED BY <1>5, <2>1 DEF ReaderEnds, Local
<1> QED BY <1>1, <1>2, <1>3, <1>4, <1>5

LEMMA OutsideLocal ==
  ASSUME RequestsInv, NEW r \in Request,
         CutSession(r) \/ ServerNotices(r) \/ Leave(r)
  PROVE  Local(r)
<1> DEFINE s == state[r]
<1>0. s \in RequestState /\ Sound(s, kind[r]) /\ kind[r] \in Both
  BY Before
<1>1. CASE CutSession(r)
  <2> DEFINE new == [s EXCEPT !.conn = FALSE]
  <2>1. new \in RequestState /\ Sound(new, kind[r]) /\ (Free(new) <=> Free(s))
    BY <1>0, <1>1 DEF CutSession, At, RequestState, Place, Sound, Quiet, Free
  <2> QED BY <1>1, <2>1 DEF CutSession, Local
<1>2. CASE ServerNotices(r)
  <2> DEFINE new == [s EXCEPT !.done = TRUE]
  <2>1. new \in RequestState /\ Sound(new, kind[r]) /\ (Free(new) <=> Free(s))
    BY <1>0, <1>2 DEF ServerNotices, At, RequestState, Place, Sound, Quiet, Free
  <2> QED BY <1>2, <2>1 DEF ServerNotices, Local
<1>3. CASE Leave(r)
  <2> DEFINE new == [s EXCEPT !.client = FALSE]
  <2>1. new \in RequestState /\ Sound(new, kind[r]) /\ (Free(new) <=> Free(s))
    BY <1>0, <1>3 DEF Leave, At, RequestState, Place, Sound, Quiet, Free
  <2> QED BY <1>3, <2>1 DEF Leave, Local
<1> QED BY <1>1, <1>2, <1>3

LEMMA UnwindLocal ==
  ASSUME RequestsInv, NEW r \in Request,
         Unwind(r) \/ Join(r) \/ Close(r)
  PROVE  Local(r)
<1> DEFINE s == state[r]
<1>0. s \in RequestState /\ Sound(s, kind[r]) /\ kind[r] \in Both
  BY Before
<1>1. CASE Unwind(r)
  <2> DEFINE new == [s EXCEPT !.at = "join", !.done = TRUE, !.conn = FALSE]
  <2>1. new \in RequestState /\ Sound(new, kind[r]) /\ (Free(new) <=> Free(s))
    BY <1>0, <1>1 DEF Unwind, At, RequestState, Place, Sound, Quiet, Free
  <2> QED BY <1>1, <2>1 DEF Unwind, Local
<1>2. CASE Join(r)
  <2> DEFINE new == [s EXCEPT !.at = "close"]
  <2>1. new \in RequestState /\ Sound(new, kind[r]) /\ (Free(new) <=> Free(s))
    BY <1>0, <1>2 DEF Join, At, RequestState, Place, Sound, Quiet, Free
  <2> QED BY <1>2, <2>1 DEF Join, Local
<1>3. CASE Close(r)
  <2> DEFINE new == [s EXCEPT !.at = "release", !.done = TRUE, !.tasks = 0, !.audio = FALSE]
  <2>1. new \in RequestState /\ Sound(new, kind[r]) /\ (Free(new) <=> Free(s))
    BY <1>0, <1>3 DEF Close, At, RequestState, Place, Sound, Quiet, Free
  <2> QED BY <1>3, <2>1 DEF Close, Local
<1> QED BY <1>1, <1>2, <1>3

-----------------------------------------------------------------------------
(* The two steps that take and give a slot.                                *)

LEMMA SlotKeeps ==
  ASSUME RequestsInv, NEW r \in Request, Acquire(r) \/ Release(r)
  PROVE  RequestsInv'
<1> DEFINE s == state[r]
<1>0. s \in RequestState /\ Sound(s, kind[r]) /\ TypeOK /\ Counted
  BY Before DEF RequestsInv
<1>1. CASE Acquire(r)
  <2> DEFINE new == [s EXCEPT !.at = "open"]
  <2>1. new \in RequestState /\ Sound(new, kind[r]) /\ ~Free(new) /\ Free(s)
    BY <1>0, <1>1 DEF Acquire, At, RequestState, Place, Sound, Quiet, Free
  <2>2. state' = [state EXCEPT ![r] = new] /\ slots' = slots + 1 /\ kind' = kind /\ slots < Capacity
    BY <1>1 DEF Acquire, Set
  <2> HIDE DEF new
  <2>3. \A q \in Request : state'[q] = IF q = r THEN new ELSE state[q]
    BY <1>0, <2>2 DEF TypeOK
  <2>4. TypeOK'
    BY <1>0, <2>1, <2>2 DEF TypeOK
  <2>5. \A q \in Request : Sound(state'[q], kind'[q])
    BY <2>1, <2>2, <2>3 DEF RequestsInv
  <2>6. r \notin Holders /\ Holders' = Holders \cup {r}
    BY <2>1, <2>3 DEF Holders, Holding, Free
  <2>7. Cardinality(Holders') = Cardinality(Holders) + 1
    BY <2>6, HoldersFinite, FS_AddElement
  <2>8. Counted'
    BY <1>0, <2>2, <2>7, HoldersFinite, Assumed DEF Counted
  <2> QED BY <2>4, <2>5, <2>8 DEF RequestsInv
<1>2. CASE Release(r)
  <2> DEFINE new == [s EXCEPT !.at = "returned"]
  <2>1. new \in RequestState /\ Sound(new, kind[r]) /\ Free(new) /\ ~Free(s)
    BY <1>0, <1>2 DEF Release, At, RequestState, Place, Sound, Quiet, Free
  <2>2. state' = [state EXCEPT ![r] = new] /\ slots' = slots - 1 /\ kind' = kind
    BY <1>2 DEF Release, Set
  <2> HIDE DEF new
  <2>3. \A q \in Request : state'[q] = IF q = r THEN new ELSE state[q]
    BY <1>0, <2>2 DEF TypeOK
  <2>4. TypeOK'
    BY <1>0, <2>1, <2>2 DEF TypeOK
  <2>5. \A q \in Request : Sound(state'[q], kind'[q])
    BY <2>1, <2>2, <2>3 DEF RequestsInv
  <2>6. r \in Holders /\ Holders' = Holders \ {r}
    BY <2>1, <2>3 DEF Holders, Holding, Free
  <2>7. Cardinality(Holders') = Cardinality(Holders) - 1
    BY <2>6, HoldersFinite, FS_RemoveElement
  <2>8. Counted'
    BY <1>0, <2>2, <2>7, HoldersFinite, Assumed DEF Counted
  <2> QED BY <2>4, <2>5, <2>8 DEF RequestsInv
<1> QED BY <1>1, <1>2

LEMMA InitInv == Init => RequestsInv
<1> SUFFICES ASSUME Init PROVE RequestsInv
  OBVIOUS
<1>1. Fresh \in RequestState /\ \A k : Sound(Fresh, k)
  BY DEF Fresh, RequestState, Place, Sound, Quiet
<1>2. slots = 0 /\ kind \in [Request -> Both] /\ state = [r \in Request |-> Fresh]
  BY DEF Init, Both
<1>3. TypeOK /\ \A r \in Request : Sound(state[r], kind[r])
  BY <1>1, <1>2 DEF TypeOK
<1>4. Holders = {}
  BY <1>2 DEF Holders, Holding, Fresh
<1>5. Counted
  BY <1>2, <1>4, FS_EmptySet, Assumed DEF Counted
<1> QED BY <1>3, <1>5 DEF RequestsInv

LEMMA StepInv == RequestsInv /\ [Next]_vars => RequestsInv'
<1> SUFFICES ASSUME RequestsInv, [Next]_vars PROVE RequestsInv'
  OBVIOUS
<1>1. ASSUME NEW r \in Request, Open(r) PROVE RequestsInv'
  BY <1>1, OpenLocal, LocalKeeps, SlotKeeps DEF Open
<1>2. ASSUME NEW r \in Request, Start(r) PROVE RequestsInv'
  BY <1>2, StartLocal, LocalKeeps DEF Start
<1>3. ASSUME NEW r \in Request, Serve(r) PROVE RequestsInv'
  BY <1>3, ServeLocal, LocalKeeps DEF Serve
<1>4. ASSUME NEW r \in Request, Reader(r) \/ Leave(r) \/ Hooks(r) PROVE RequestsInv'
  BY <1>4, ReaderLocal, OutsideLocal, StartLocal, LocalKeeps DEF Reader, Hooks
<1>5. ASSUME NEW r \in Request, Unwinding(r) PROVE RequestsInv'
  BY <1>5, UnwindLocal, LocalKeeps, SlotKeeps DEF Unwinding
<1>6. CASE UNCHANGED vars
  BY <1>6 DEF vars, RequestsInv, TypeOK, Counted, Holders, Holding
<1>7. CASE Terminated
  BY <1>6, <1>7 DEF Terminated
<1> QED BY <1>1, <1>2, <1>3, <1>4, <1>5, <1>6, <1>7 DEF Next

LEMMA Invariant == Spec => []RequestsInv
BY InitInv, StepInv, PTL DEF Spec

\* However many requests there are, the slots taken are those of the requests
\* being served, never more than the capacity, and only these use the service.
THEOREM SlotsAccountedHolds == Spec => []SlotsAccounted
<1>1. RequestsInv => SlotsAccounted
  <2> SUFFICES ASSUME RequestsInv PROVE SlotsAccounted
    OBVIOUS
  <2>1. slots = Cardinality({r \in Request : Holding(r)}) /\ slots <= Capacity
    BY DEF RequestsInv, Counted, Holders
  <2>2. ASSUME NEW r \in Request, Upstream(r) PROVE Holding(r) /\ state[r].at # "release"
    BY <2>2, Before DEF Upstream, Holding, Sound, Quiet
  <2> QED BY <2>1, <2>2 DEF SlotsAccounted
<1> QED BY <1>1, Invariant, PTL

\* A request that gives its slot back, or has returned, has left no goroutine,
\* connection, task or decoder.
THEOREM NothingLeftHolds == Spec => []NothingLeft
<1>1. RequestsInv => NothingLeft
  <2> SUFFICES ASSUME RequestsInv, NEW r \in Request, state[r].at \in {"release", "returned"}
               PROVE  /\ state[r].reader \in {"none", "ended"} /\ ~state[r].conn
                      /\ ~Upstream(r)
    BY DEF NothingLeft
  <2>1. Quiet(state[r])
    BY Before DEF Sound
  <2> QED BY <2>1 DEF Quiet, Upstream
<1> QED BY <1>1, Invariant, PTL

=============================================================================
