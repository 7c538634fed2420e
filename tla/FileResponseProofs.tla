-------------------------- MODULE FileResponseProofs --------------------------
(***************************************************************************)
(* Proofs about FileResponse for any items, texts, limits and capacities:  *)
(* a success is complete, the handler never waits for a sender that is     *)
(* still reading audio, the text of the response is linear, and the text   *)
(* that waits is counted.                                                  *)
(*                                                                         *)
(* The first inductive invariant is FileInv.  Sending follows the outcome  *)
(* of the sender from where it is decided to where it is received.  Ending *)
(* ties the end of the task to what is in the channel: an end is the last  *)
(* event of it.  Hearing says, while the handler selects, that what it has *)
(* taken together with what is in the channel is all that the task has     *)
(* reported.  So when it takes the end, which empties the channel, it has  *)
(* heard of every item: Answering.                                         *)
(*                                                                         *)
(* The second one, TextInv, rests on it.  Flow: the events in the channel  *)
(* follow on what was heard, nothing of an item after its outcome and each *)
(* text an extension of the ones before.  Filed: the order is the end of   *)
(* the list of the items mentioned, from the first unfinished one on, and  *)
(* the items hold what was heard of them, of which only that of the first  *)
(* one was shown.  Counted and Written are the two properties.  An event   *)
(* that is accepted moves items from the order to the text: Reached, the   *)
(* text that should be there, grows by exactly Shown (TextBefore and       *)
(* TextAfter), and the count falls by exactly Freed (CountOn, CountFreed). *)
(* Both need sums and concatenations of lists of any length, whose laws    *)
(* come first: TotalShift, TotalSplit, FlatSplit, FlatFront.               *)
(***************************************************************************)
EXTENDS FileResponse, SequenceTheorems, WellFoundedInduction, TLAPS

AnEvent == [kind : Task!Kind \cup {"final", "none"}, id : Id \cup {Task!Nobody},
            delta : Seq(Nat), text : Seq(Nat)]

Settling == {"completed", "final", "failed"}

\* The items that a list of events mentions, and those that it settles.
Named(c)   == {i \in Id : \E n \in DOMAIN c : c[n].id = i /\ c[n].kind \notin Task!EndKind}
Settled(c) == {i \in Id : \E n \in DOMAIN c : c[n].id = i /\ c[n].kind \in Settling}

Types ==
  /\ text \in [Id -> Seq(Nat)] /\ open \in SUBSET Id /\ done \in SUBSET Id
  /\ event \in AnEvent /\ channel \in Seq(AnEvent)
  /\ heard.order \in Seq(Id) /\ heard.done \in SUBSET Id

Sending ==
  /\ sender \in {"read", "write", "pace", "report", "ended"} /\ reported \in BOOLEAN
  /\ sender \in {"report", "ended"} => outcome \in {"ok", "err"}
  /\ finishing => sender \in {"report", "ended"}
  /\ sent = <<>> \/ (sent = <<outcome>> /\ sender = "ended" /\ ~reported)
  /\ sender = "ended" => (reported <=> sent = <<>>)
  /\ reported => sender = "ended"
  /\ reported /\ pc = "select" => outcome = "ok"
  /\ answer = "done" => outcome = "ok" /\ pc \notin {"select", "await"}
  /\ pc = "await" => ~reported

Ending ==
  /\ event.kind \in Task!EndKind => over
  /\ event.kind = "finished" => finishing /\ open = {}
  /\ \A n \in DOMAIN channel :
       /\ channel[n].kind \in Task!EndKind => n = Len(channel) /\ over /\ event = channel[n]
       /\ channel[n].kind \notin Task!EndKind => channel[n].id \in Id

Hearing ==
  pc = "select" =>
    /\ event.kind # "err" => Range(heard.order) \cup Named(channel) = open \cup done
    /\ heard.done \cup Settled(channel) = done

Answering ==
  pc = "await" \/ answer = "done" =>
    /\ finishing /\ over /\ open = {}
    /\ heard.done = done /\ Range(heard.order) = done

FileInv == Types /\ Sending /\ Ending /\ Hearing /\ Answering

LEMMA TextTypes == \A t \in Texts : t \in Seq(Nat)
BY FileAssumption DEF FileAssumption

LEMMA Kinds ==
  /\ Task!EndKind = {"finished", "err"}
  /\ Task!Kind = {"started", "stopped", "committed", "delta", "completed", "failed", "finished", "err"}
  /\ Task!TextKind = {"delta", "completed"}
BY DEF Task!EndKind, Task!Kind, Task!StageKind, Task!TextKind

-----------------------------------------------------------------------------
(* Lists of events.                                                        *)

LEMMA RangeAppend ==
  ASSUME NEW S, NEW s \in Seq(S), NEW x \in S
  PROVE  Range(Append(s, x)) = Range(s) \cup {x} /\ Append(s, x) \in Seq(S)
<1>1. /\ DOMAIN Append(s, x) = 1 .. (Len(s) + 1) /\ DOMAIN s = 1 .. Len(s) /\ Len(s) \in Nat
      /\ Append(s, x)[Len(s) + 1] = x
      /\ \A n \in 1 .. Len(s) : Append(s, x)[n] = s[n]
  OBVIOUS
<1> QED BY <1>1 DEF Range

LEMMA Appended ==
  ASSUME NEW c \in Seq(AnEvent), NEW e \in AnEvent
  PROVE  /\ Append(c, e) \in Seq(AnEvent)
         /\ e.kind \in Task!EndKind => Named(Append(c, e)) = Named(c)
         /\ e.kind \notin Task!EndKind /\ e.id \in Id => Named(Append(c, e)) = Named(c) \cup {e.id}
         /\ e.kind \notin Settling => Settled(Append(c, e)) = Settled(c)
         /\ e.kind \in Settling /\ e.id \in Id => Settled(Append(c, e)) = Settled(c) \cup {e.id}
<1>1. /\ DOMAIN Append(c, e) = 1 .. (Len(c) + 1) /\ DOMAIN c = 1 .. Len(c) /\ Len(c) \in Nat
      /\ Append(c, e)[Len(c) + 1] = e /\ Append(c, e) \in Seq(AnEvent)
      /\ \A n \in 1 .. Len(c) : Append(c, e)[n] = c[n]
  OBVIOUS
<1>2. \A n : n \in DOMAIN Append(c, e) <=> n \in DOMAIN c \/ n = Len(c) + 1
  BY <1>1
<1> HIDE DEF AnEvent
<1>3. \A i : i \in Named(Append(c, e)) <=>
               i \in Named(c) \/ (i \in Id /\ e.id = i /\ e.kind \notin Task!EndKind)
  BY <1>1, <1>2 DEF Named
<1>4. \A i : i \in Settled(Append(c, e)) <=>
               i \in Settled(c) \/ (i \in Id /\ e.id = i /\ e.kind \in Settling)
  BY <1>1, <1>2 DEF Settled
<1> QED BY <1>1, <1>3, <1>4

LEMMA Taken ==
  ASSUME NEW c \in Seq(AnEvent), c # <<>>
  PROVE  /\ Head(c) = c[1] /\ 1 \in DOMAIN c /\ Tail(c) \in Seq(AnEvent) /\ Head(c) \in AnEvent
         /\ \A n \in DOMAIN Tail(c) : n + 1 \in DOMAIN c /\ Tail(c)[n] = c[n + 1]
         /\ Len(Tail(c)) = Len(c) - 1 /\ Len(c) \in Nat
         /\ Len(c) = 1 => Tail(c) = <<>>
         /\ Head(c).kind \notin Task!EndKind /\ Head(c).id \in Id =>
              Named(c) = Named(Tail(c)) \cup {Head(c).id}
         /\ Head(c).kind \notin Settling => Settled(c) = Settled(Tail(c))
         /\ Head(c).kind \in Settling /\ Head(c).id \in Id =>
              Settled(c) = Settled(Tail(c)) \cup {Head(c).id}
<1>1. /\ Head(c) = c[1] /\ 1 \in DOMAIN c /\ Tail(c) \in Seq(AnEvent) /\ Head(c) \in AnEvent
      /\ DOMAIN c = 1 .. Len(c) /\ DOMAIN Tail(c) = 1 .. (Len(c) - 1) /\ Len(c) \in Nat
      /\ Len(Tail(c)) = Len(c) - 1
      /\ \A n \in 1 .. (Len(c) - 1) : Tail(c)[n] = c[n + 1]
  OBVIOUS
<1>2. \A n \in DOMAIN Tail(c) : n + 1 \in DOMAIN c /\ Tail(c)[n] = c[n + 1]
  BY <1>1
<1>3. \A n \in DOMAIN c : n = 1 \/ (n - 1 \in DOMAIN Tail(c) /\ Tail(c)[n - 1] = c[n])
  BY <1>1
<1>4. Len(c) = 1 => Tail(c) = <<>>
  BY <1>1
<1> HIDE DEF AnEvent
<1>5. \A i : i \in Named(c) <=>
               i \in Named(Tail(c)) \/ (i \in Id /\ Head(c).id = i /\ Head(c).kind \notin Task!EndKind)
  <2>1. ASSUME NEW i \in Named(c)
        PROVE  i \in Named(Tail(c)) \/ (i \in Id /\ Head(c).id = i /\ Head(c).kind \notin Task!EndKind)
    <3>1. PICK n \in DOMAIN c : i \in Id /\ c[n].id = i /\ c[n].kind \notin Task!EndKind
      BY <2>1 DEF Named
    <3> QED BY <1>1, <1>3, <3>1 DEF Named
  <2>2. ASSUME NEW i \in Named(Tail(c)) PROVE i \in Named(c)
    <3>1. PICK n \in DOMAIN Tail(c) : i \in Id /\ Tail(c)[n].id = i /\ Tail(c)[n].kind \notin Task!EndKind
      BY <2>2 DEF Named
    <3> QED BY <1>2, <3>1 DEF Named
  <2>3. ASSUME NEW i \in Id, Head(c).id = i, Head(c).kind \notin Task!EndKind PROVE i \in Named(c)
    BY <1>1, <2>3 DEF Named
  <2> QED BY <2>1, <2>2, <2>3
<1>6. \A i : i \in Settled(c) <=>
               i \in Settled(Tail(c)) \/ (i \in Id /\ Head(c).id = i /\ Head(c).kind \in Settling)
  <2>1. ASSUME NEW i \in Settled(c)
        PROVE  i \in Settled(Tail(c)) \/ (i \in Id /\ Head(c).id = i /\ Head(c).kind \in Settling)
    <3>1. PICK n \in DOMAIN c : i \in Id /\ c[n].id = i /\ c[n].kind \in Settling
      BY <2>1 DEF Settled
    <3> QED BY <1>1, <1>3, <3>1 DEF Settled
  <2>2. ASSUME NEW i \in Settled(Tail(c)) PROVE i \in Settled(c)
    <3>1. PICK n \in DOMAIN Tail(c) : i \in Id /\ Tail(c)[n].id = i /\ Tail(c)[n].kind \in Settling
      BY <2>2 DEF Settled
    <3> QED BY <1>2, <3>1 DEF Settled
  <2>3. ASSUME NEW i \in Id, Head(c).id = i, Head(c).kind \in Settling PROVE i \in Settled(c)
    BY <1>1, <2>3 DEF Settled
  <2> QED BY <2>1, <2>2, <2>3
<1> QED BY <1>1, <1>2, <1>4, <1>5, <1>6

-----------------------------------------------------------------------------
(* The task.                                                               *)

\* What an event that is not the end does to the state of the task.
Mentions(i) ==
  /\ event' \in AnEvent /\ event'.kind \notin Task!EndKind /\ event'.id = i
  /\ text' \in [Id -> Seq(Nat)] /\ open' \in SUBSET Id
  /\ open' \cup done' = open \cup done \cup {i}
  /\ done' = IF event'.kind \in Settling THEN done \cup {i} ELSE done
  /\ UNCHANGED <<finishing, over>>

LEMMA ReportMentions ==
  ASSUME Types, NEW i \in Id, Task!Report(i)
  PROVE  Mentions(i)
<1>0. /\ text \in [Id -> Seq(Nat)] /\ open \in SUBSET Id /\ done \in SUBSET Id
      /\ text[i] \in Seq(Nat) /\ <<>> \in Seq(Nat)
  BY DEF Types
<1>1. ASSUME NEW k \in Task!StageKind, Task!Stage(i, k) PROVE Mentions(i)
  BY <1>0, <1>1, Kinds DEF Task!Stage, Task!Plain, Task!StageKind, Mentions, AnEvent, Settling
<1>2. ASSUME NEW t \in Texts, Task!Update(i, t) PROVE Mentions(i)
  <2>1. t \in Seq(Nat) /\ Task!Growth(t, text[i]) \in Seq(Nat)
    BY <1>0, TextTypes DEF Task!Growth
  <2>2. event' = [kind |-> "delta", id |-> i, delta |-> Task!Growth(t, text[i]), text |-> t]
    BY <1>2 DEF Task!Update
  <2>3. event' \in AnEvent /\ event'.kind = "delta" /\ event'.id = i
    BY <2>1, <2>2, Kinds DEF AnEvent
  <2>4. text' \in [Id -> Seq(Nat)] /\ open' = open \cup {i} /\ UNCHANGED <<done, finishing, over>>
    BY <1>0, <1>2, <2>1 DEF Task!Update
  <2> QED BY <1>0, <2>3, <2>4, Kinds DEF Mentions, Settling
<1>3. ASSUME NEW t \in Texts, Task!Complete(i, t) PROVE Mentions(i)
  <2>1. t \in Seq(Nat) /\ Task!Growth(t, text[i]) \in Seq(Nat)
    BY <1>0, TextTypes DEF Task!Growth
  <2>2. event' = [kind |-> "completed", id |-> i, delta |-> Task!Growth(t, text[i]), text |-> t]
    BY <1>3 DEF Task!Complete
  <2>3. event' \in AnEvent /\ event'.kind = "completed" /\ event'.id = i
    BY <2>1, <2>2, Kinds DEF AnEvent
  <2>4. /\ text' \in [Id -> Seq(Nat)] /\ open' = open \ {i} /\ done' = done \cup {i}
        /\ UNCHANGED <<finishing, over>>
    BY <1>0, <1>3, <2>1 DEF Task!Complete
  <2> QED BY <1>0, <2>3, <2>4, Kinds DEF Mentions, Settling
<1>4. ASSUME Task!Fail(i) PROVE Mentions(i)
  <2>1. event' \in AnEvent /\ event'.kind = "failed" /\ event'.id = i
    BY <1>0, <1>4, Kinds DEF Task!Fail, Task!Plain, AnEvent
  <2>2. /\ text' \in [Id -> Seq(Nat)] /\ open' = open \ {i} /\ done' = done \cup {i}
        /\ UNCHANGED <<finishing, over>>
    BY <1>0, <1>4 DEF Task!Fail
  <2> QED BY <1>0, <2>1, <2>2, Kinds DEF Mentions, Settling
<1> QED BY <1>1, <1>2, <1>3, <1>4 DEF Task!Report

LEMMA SentenceMentions ==
  ASSUME Types, NEW i \in Id, NEW t \in Texts, Sentence(i, t)
  PROVE  Mentions(i)
<1>1. event' \in AnEvent /\ event'.kind = "final" /\ event'.id = i
  BY TextTypes, Kinds DEF Sentence, AnEvent
<1>2. text \in [Id -> Seq(Nat)] /\ open \in SUBSET Id /\ done' = done \cup {i}
      /\ UNCHANGED <<text, open, finishing, over>>
  BY DEF Sentence, Types
<1> QED BY <1>1, <1>2, Kinds DEF Mentions, Settling

LEMMA TaskEventKeeps ==
  ASSUME FileInv, TaskEvent
  PROVE  FileInv'
<1>0. Types /\ Sending /\ Ending /\ Hearing /\ Answering /\ ~over
  BY DEF FileInv, TaskEvent
<1>1. PICK i \in Id : Mentions(i)
  BY <1>0, ReportMentions, SentenceMentions DEF TaskEvent
<1>2. /\ channel' = Append(channel, event') /\ channel \in Seq(AnEvent)
      /\ UNCHANGED <<sending, handler>>
  BY <1>0 DEF TaskEvent, Types
<1>3. /\ channel' \in Seq(AnEvent) /\ Named(channel') = Named(channel) \cup {i}
      /\ Settled(channel') = IF event'.kind \in Settling THEN Settled(channel) \cup {i}
                             ELSE Settled(channel)
  BY <1>1, <1>2, Appended DEF Mentions
<1>4. Types'
  BY <1>0, <1>1, <1>2, <1>3 DEF Types, Mentions, handler
<1>5. Sending'
  BY <1>0, <1>1, <1>2 DEF Sending, Mentions, handler, sending
<1>6. Ending'
  <2>1. /\ DOMAIN channel' = 1 .. (Len(channel) + 1) /\ Len(channel) \in Nat
        /\ DOMAIN channel = 1 .. Len(channel)
        /\ channel'[Len(channel) + 1] = event'
        /\ \A n \in 1 .. Len(channel) : channel'[n] = channel[n]
    BY <1>2
  <2>2. \A n \in DOMAIN channel' : channel'[n].kind \notin Task!EndKind /\ channel'[n].id \in Id
    <3>1. \A n \in DOMAIN channel : channel[n].kind \notin Task!EndKind /\ channel[n].id \in Id
      BY <1>0 DEF Ending
    <3> QED BY <1>1, <2>1, <3>1 DEF Mentions
  <2> QED BY <1>1, <2>2, Kinds DEF Ending, Mentions
<1>7. Hearing'
  <2>1. event.kind # "err"
    BY <1>0, Kinds DEF Ending
  <2> QED BY <1>0, <1>1, <1>2, <1>3, <2>1 DEF Hearing, Mentions, handler
<1>8. Answering'
  BY <1>0, <1>2 DEF Answering, handler
<1> QED BY <1>4, <1>5, <1>6, <1>7, <1>8 DEF FileInv

LEMMA TaskEndsKeeps ==
  ASSUME FileInv, TaskEnds
  PROVE  FileInv'
<1>0. Types /\ Sending /\ Ending /\ Hearing /\ Answering /\ ~over
  BY DEF FileInv, TaskEnds
<1>1. /\ event' \in AnEvent /\ event'.kind \in Task!EndKind /\ over'
      /\ event'.kind = "finished" => finishing /\ open = {} /\ open' = open
      /\ text' \in [Id -> Seq(Nat)] /\ open' \in SUBSET Id /\ UNCHANGED <<done, finishing>>
  <2>1. CASE Task!EndNormally
    BY <1>0, <2>1, Kinds DEF Task!EndNormally, Task!Plain, AnEvent, Types
  <2>2. CASE Task!EndInError
    BY <1>0, <2>2, Kinds DEF Task!EndInError, Task!Plain, AnEvent, Types
  <2> QED BY <2>1, <2>2 DEF TaskEnds
<1>2. /\ channel' = Append(channel, event') /\ channel \in Seq(AnEvent)
      /\ UNCHANGED <<sending, handler>>
  BY <1>0 DEF TaskEnds, Types
<1>3. /\ channel' \in Seq(AnEvent) /\ Named(channel') = Named(channel)
      /\ Settled(channel') = Settled(channel)
  BY <1>1, <1>2, Appended, Kinds DEF Settling
<1>4. Types'
  BY <1>0, <1>1, <1>2, <1>3 DEF Types, handler
<1>5. Sending'
  BY <1>0, <1>1, <1>2 DEF Sending, handler, sending
<1>6. Ending'
  <2>1. /\ DOMAIN channel' = 1 .. (Len(channel) + 1) /\ Len(channel) \in Nat
        /\ DOMAIN channel = 1 .. Len(channel) /\ Len(channel') = Len(channel) + 1
        /\ channel'[Len(channel) + 1] = event'
        /\ \A n \in 1 .. Len(channel) : channel'[n] = channel[n]
    BY <1>2
  <2>2. \A n \in DOMAIN channel : channel[n].kind \notin Task!EndKind /\ channel[n].id \in Id
    BY <1>0 DEF Ending
  <2> QED BY <1>1, <2>1, <2>2 DEF Ending
<1>7. Hearing'
  <2>1. event.kind # "err"
    BY <1>0, Kinds DEF Ending
  <2>2. event'.kind # "err" => open' = open
    BY <1>1, Kinds
  <2> QED BY <1>0, <1>1, <1>2, <1>3, <2>1, <2>2 DEF Hearing, handler
<1>8. Answering'
  BY <1>0, <1>2 DEF Answering, handler
<1> QED BY <1>4, <1>5, <1>6, <1>7, <1>8 DEF FileInv

-----------------------------------------------------------------------------
(* The goroutine that sends the audio.                                     *)

LEMMA SenderKeeps ==
  ASSUME FileInv, SenderStep
  PROVE  FileInv'
<1>0. Types /\ Sending /\ Ending /\ Hearing /\ Answering
  BY DEF FileInv
<1>1. UNCHANGED <<text, open, done, over, event, channel, handler>>
  BY DEF SenderStep, Sender, ReadAudio, Write, Pace, FinishInput, SenderFails, ReportOutcome
<1>2. finishing => finishing'
  BY <1>0 DEF SenderStep, Sender, ReadAudio, Write, Pace, FinishInput, SenderFails,
              ReportOutcome, Sending
<1>3. Sending'
  <2>1. UNCHANGED <<pc, reported, answer>>
    BY <1>1 DEF handler
  <2>2. CASE ReadAudio \/ Write \/ Pace
    BY <1>0, <2>1, <2>2 DEF Sending, ReadAudio, Write, Pace, Sender
  <2>3. CASE FinishInput
    <3>1. sender = "read" /\ sender' = "report" /\ outcome' \in {"ok", "err"} /\ sent' = sent
      BY <2>3 DEF FinishInput, Sender
    <3>2. answer # "done" /\ ~reported /\ sent = <<>>
      BY <1>0, <3>1 DEF Sending, Answering
    <3> QED BY <1>0, <2>1, <3>1, <3>2 DEF Sending
  <2>4. CASE SenderFails
    <3>1. /\ sender \in {"read", "write", "pace"} /\ sender' = "report"
          /\ outcome' \in {"ok", "err"} /\ sent' = sent
      BY <2>4 DEF SenderFails, Sender
    <3>2. answer # "done" /\ ~reported /\ sent = <<>>
      BY <1>0, <3>1 DEF Sending, Answering
    <3> QED BY <1>0, <2>1, <3>1, <3>2 DEF Sending
  <2>5. CASE ReportOutcome
    BY <1>0, <2>1, <2>5 DEF Sending, ReportOutcome, Sender
  <2> QED BY <2>2, <2>3, <2>4, <2>5 DEF SenderStep
<1>4. Types' /\ Ending' /\ Hearing' /\ Answering'
  BY <1>0, <1>1, <1>2 DEF Types, Ending, Hearing, Answering, handler
<1> QED BY <1>3, <1>4 DEF FileInv

-----------------------------------------------------------------------------
(* The handler.                                                            *)

\* It leaves the loop without a success.
Leaving ==
  /\ pc' = "cleanup" /\ answer' \in {"error", "lost"}
  /\ \/ UNCHANGED <<sent, reported>>
     \/ sent # <<>> /\ sent' = <<>> /\ reported' = TRUE
  /\ \/ channel' = channel
     \/ channel # <<>> /\ channel' = Tail(channel)
  /\ heard'.order \in Seq(Id) /\ heard'.done \in SUBSET Id
  /\ UNCHANGED <<task, sender, outcome>>

LEMMA TailEnding ==
  ASSUME FileInv, channel # <<>>, channel' = Tail(channel), UNCHANGED task
  PROVE  Ending' /\ channel' \in Seq(AnEvent)
<1>1. channel \in Seq(AnEvent) /\ UNCHANGED <<event, over, finishing, open>> /\ Ending
  BY DEF FileInv, Types, task
<1>2. /\ \A n \in DOMAIN channel' : n + 1 \in DOMAIN channel /\ channel'[n] = channel[n + 1]
      /\ Len(channel') = Len(channel) - 1 /\ Len(channel) \in Nat /\ channel' \in Seq(AnEvent)
  BY <1>1, Taken
<1>3. ASSUME NEW n \in DOMAIN channel'
      PROVE  /\ channel'[n].kind \in Task!EndKind => n = Len(channel') /\ over /\ event = channel'[n]
             /\ channel'[n].kind \notin Task!EndKind => channel'[n].id \in Id
  <2>1. n \in Int
    BY <1>2
  <2>2. channel'[n].kind \in Task!EndKind => n + 1 = Len(channel) /\ over /\ event = channel'[n]
    BY <1>1, <1>2 DEF Ending
  <2>3. channel'[n].kind \notin Task!EndKind => channel'[n].id \in Id
    BY <1>1, <1>2 DEF Ending
  <2> QED BY <1>2, <2>1, <2>2, <2>3
<1> QED BY <1>1, <1>2, <1>3, Kinds DEF Ending

LEMMA LeavingKeeps ==
  ASSUME FileInv, Leaving
  PROVE  FileInv'
<1>0. Types /\ Sending /\ Ending
  BY DEF FileInv
<1>1. /\ UNCHANGED <<text, open, done, finishing, over, event>>
      /\ UNCHANGED <<sender, outcome>> /\ UNCHANGED task
  BY DEF Leaving, task
<1>2. Ending' /\ channel' \in Seq(AnEvent)
  <2>1. CASE channel' = channel
    BY <1>0, <1>1, <2>1 DEF Ending, Types
  <2>2. CASE channel # <<>> /\ channel' = Tail(channel)
    BY <1>1, <2>2, TailEnding
  <2> QED BY <2>1, <2>2 DEF Leaving
<1>3. Types'
  BY <1>0, <1>1, <1>2 DEF Types, Leaving
<1>4. Sending'
  <2>1. pc' = "cleanup" /\ answer' # "done" /\ UNCHANGED <<sender, outcome, finishing>>
    BY <1>1 DEF Leaving
  <2>2. CASE UNCHANGED <<sent, reported>>
    BY <1>0, <2>1, <2>2 DEF Sending
  <2>3. CASE sent # <<>> /\ sent' = <<>> /\ reported' = TRUE
    <3>1. sender = "ended"
      BY <1>0, <2>3 DEF Sending
    <3> QED BY <1>0, <2>1, <2>3, <3>1 DEF Sending
  <2> QED BY <2>2, <2>3 DEF Leaving
<1>5. Hearing' /\ Answering'
  BY DEF Hearing, Answering, Leaving
<1> QED BY <1>2, <1>3, <1>4, <1>5 DEF FileInv

\* An event is heard, or the loop is left.
LEMMA HeardKeeps ==
  ASSUME FileInv, channel # <<>>, channel' = Tail(channel), pc = "select",
         UNCHANGED <<task, sender, outcome, sent, reported>>,
         Head(channel).kind \notin Task!EndKind, Head(channel).kind # "failed",
         Hear(Head(channel)), GoOn \/ (pc' = "cleanup" /\ answer' \in {"error", "lost"})
  PROVE  FileInv'
<1> DEFINE e == Head(channel)
<1>0. Types /\ Sending /\ Ending /\ Hearing /\ Answering /\ channel \in Seq(AnEvent)
  BY DEF FileInv, Types
<1>1. /\ e = channel[1] /\ 1 \in DOMAIN channel
      /\ e \in AnEvent /\ e.kind \notin Task!EndKind
  BY <1>0, Taken
<1>2. e.id \in Id
  BY <1>0, <1>1 DEF Ending
<1>3. /\ Named(channel) = Named(channel') \cup {e.id}
      /\ e.kind \notin Settling => Settled(channel) = Settled(channel')
      /\ e.kind \in Settling => Settled(channel) = Settled(channel') \cup {e.id}
  BY <1>0, <1>1, <1>2, Taken
<1>4. Head(channel).kind # "failed"
  OBVIOUS
<1>5. /\ heard'.order = IF e.id \in Range(heard.order) THEN heard.order ELSE Append(heard.order, e.id)
      /\ heard'.done = IF e.kind \in {"completed", "final"} THEN heard.done \cup {e.id} ELSE heard.done
  BY DEF Hear
<1> HIDE DEF e
<1>6. heard'.order \in Seq(Id) /\ Range(heard'.order) = Range(heard.order) \cup {e.id}
  <2>1. heard.order \in Seq(Id)
    BY <1>0 DEF Types
  <2>2. /\ Range(Append(heard.order, e.id)) = Range(heard.order) \cup {e.id}
        /\ Append(heard.order, e.id) \in Seq(Id)
    BY <1>2, <2>1, RangeAppend
  <2> QED BY <1>5, <2>1, <2>2
<1>7. heard'.done \in SUBSET Id
  BY <1>0, <1>2, <1>5 DEF Types
<1>8. CASE GoOn
  <2>0. UNCHANGED <<text, open, done, finishing, over, event, pc, answer>>
    BY <1>8 DEF task, GoOn
  <2>1. Ending' /\ channel' \in Seq(AnEvent)
    BY TailEnding
  <2>2. Types'
    BY <1>0, <1>6, <1>7, <2>0, <2>1 DEF Types
  <2>3. Sending'
    BY <1>0, <2>0 DEF Sending
  <2>4. e.kind \in Settling <=> e.kind \in {"completed", "final"}
    BY <1>4 DEF Settling, e
  <2>5. Hearing'
    <3>1. event.kind # "err" => Range(heard.order) \cup Named(channel) = open \cup done
      BY <1>0 DEF Hearing
    <3>2. heard.done \cup Settled(channel) = done
      BY <1>0 DEF Hearing
    <3>3. Range(heard'.order) \cup Named(channel') = Range(heard.order) \cup Named(channel)
      BY <1>3, <1>6
    <3>4. heard'.done \cup Settled(channel') = heard.done \cup Settled(channel)
      BY <1>3, <1>5, <2>4
    <3> QED BY <2>0, <3>1, <3>2, <3>3, <3>4 DEF Hearing
  <2>6. Answering'
    <3>1. pc' = "select" /\ answer' # "done"
      BY <1>0, <2>0 DEF Sending
    <3> QED BY <3>1 DEF Answering
  <2> QED BY <2>1, <2>2, <2>3, <2>5, <2>6 DEF FileInv
<1>9. CASE pc' = "cleanup" /\ answer' \in {"error", "lost"}
  <2>1. Leaving
    BY <1>6, <1>7, <1>9 DEF Leaving
  <2> QED BY <2>1, LeavingKeeps
<1> QED BY <1>8, <1>9

\* What the handler takes is the first event of the channel.  The end empties
\* it, and then all that the task has reported has been heard.
LEMMA EndHeard ==
  ASSUME FileInv, channel # <<>>, pc = "select", Head(channel).kind = "finished"
  PROVE  finishing /\ over /\ open = {} /\ heard.done = done /\ Range(heard.order) = done
<1>0. Types /\ Ending /\ Hearing /\ channel \in Seq(AnEvent)
  BY DEF FileInv, Types
<1>1. Head(channel) = channel[1] /\ 1 \in DOMAIN channel
  BY <1>0, Taken
<1>2. Len(channel) = 1 /\ over /\ event.kind = "finished"
  BY <1>0, <1>1, Kinds DEF Ending
<1>3. finishing /\ open = {}
  BY <1>0, <1>2 DEF Ending
<1>4. \A n \in DOMAIN channel : n = 1
  BY <1>0, <1>2
<1>5. Named(channel) = {}
  BY <1>1, <1>4, Kinds DEF Named
<1>6. Settled(channel) = {}
  BY <1>1, <1>4 DEF Settled, Settling
<1> QED BY <1>0, <1>2, <1>3, <1>5, <1>6 DEF Hearing

LEMMA FinishedKeeps ==
  ASSUME FileInv, channel # <<>>, channel' = Tail(channel), pc = "select",
         UNCHANGED <<task, sender, outcome, sent, reported>>,
         Head(channel).kind = "finished", Finished
  PROVE  FileInv'
<1>0. Types /\ Sending /\ Ending /\ heard' = heard
  BY DEF FileInv, Finished
<1>1. UNCHANGED <<text, open, done, finishing, over, event>>
  BY DEF task
<1>2. CASE pc' = "cleanup" /\ answer' \in {"error", "lost"}
  <2>1. Leaving
    BY <1>0, <1>2 DEF Leaving, Types
  <2> QED BY <2>1, LeavingKeeps
<1>3. CASE (reported /\ pc' = "cleanup" /\ answer' = "done") \/
           (~reported /\ pc' = "await" /\ answer' = answer)
  <2>1. Ending' /\ channel' \in Seq(AnEvent)
    BY TailEnding
  <2>2. Types'
    BY <1>0, <1>1, <2>1 DEF Types
  <2>3. answer # "done"
    BY <1>0 DEF Sending
  <2>4. Sending'
    BY <1>0, <1>1, <1>3, <2>3 DEF Sending
  <2>5. Hearing'
    BY <1>3 DEF Hearing
  <2>6. Answering'
    BY <1>0, <1>1, EndHeard DEF Answering
  <2> QED BY <2>1, <2>2, <2>4, <2>5, <2>6 DEF FileInv
<1>4. \/ pc' = "cleanup" /\ answer' \in {"error", "lost"}
      \/ reported /\ pc' = "cleanup" /\ answer' = "done"
      \/ ~reported /\ pc' = "await" /\ answer' = answer
  BY DEF Finished, Fail, Answer
<1> QED BY <1>2, <1>3, <1>4

LEMMA TakeEventKeeps ==
  ASSUME FileInv, TakeEvent
  PROVE  FileInv'
<1> DEFINE e == Head(channel)
<1>0. /\ channel # <<>> /\ channel' = Tail(channel) /\ pc = "select"
      /\ UNCHANGED <<task, sender, outcome, sent, reported>>
  BY DEF TakeEvent, Selecting, Elsewhere
<1>1. heard.order \in Seq(Id) /\ heard.done \in SUBSET Id
  BY DEF FileInv, Types
<1>2. CASE pc' = "cleanup" /\ answer' \in {"error", "lost"} /\ heard' = heard
  <2>1. Leaving
    BY <1>0, <1>1, <1>2 DEF Leaving
  <2> QED BY <2>1, LeavingKeeps
<1>3. CASE e.kind = "err" /\ Fail("task") /\ UNCHANGED <<files, started, heard>>
  BY <1>2, <1>3 DEF Fail
<1>4. ASSUME NEW d, Publish(d)
      PROVE  GoOn \/ (pc' = "cleanup" /\ answer' \in {"error", "lost"})
  BY <1>4 DEF Publish, Fail, Lost
<1>5. CASE AnItem(e) /\ AcceptItem(e)
  <2>1. e.kind \notin Task!EndKind
    BY <1>5 DEF AnItem
  <2>2. CASE Refusal(e) # "none"
    BY <1>2, <1>5, <2>2 DEF AcceptItem, Fail
  <2>3. CASE Refusal(e) = "none"
    <3>1. e.kind # "failed"
      BY <2>3 DEF Refusal
    <3>2. Hear(e) /\ \E d : Publish(d)
      BY <1>5, <2>3 DEF AcceptItem
    <3> QED BY <1>0, <1>4, <2>1, <3>1, <3>2, HeardKeeps
  <2> QED BY <2>2, <2>3
<1>6. CASE e.kind = "final" /\ Publish(Spell(e.id, e.text)) /\ Hear(e)
  BY <1>0, <1>4, <1>6, HeardKeeps, Kinds
<1>7. CASE e.kind = "finished" /\ Finished
  BY <1>0, <1>7, FinishedKeeps
<1> QED BY <1>3, <1>5, <1>6, <1>7 DEF TakeEvent

LEMMA ServeKeeps ==
  ASSUME FileInv, Serve
  PROVE  FileInv'
<1>0. Types /\ Sending /\ Ending /\ Hearing /\ Answering
  BY DEF FileInv
<1>1. heard.order \in Seq(Id) /\ heard.done \in SUBSET Id
  BY <1>0 DEF Types
<1>2. ASSUME pc' = "cleanup", answer' \in {"error", "lost"}, UNCHANGED <<heard, channel>>,
             UNCHANGED <<task, sender, outcome>>,
             UNCHANGED <<sent, reported>> \/ (sent # <<>> /\ sent' = <<>> /\ reported' = TRUE)
      PROVE  FileInv'
  <2>1. Leaving
    BY <1>1, <1>2 DEF Leaving
  <2> QED BY <2>1, LeavingKeeps
<1>3. CASE Heartbeat
  <2>1. CASE Lost
    BY <1>2, <1>3, <2>1 DEF Heartbeat, Lost, Elsewhere
  <2>2. CASE GoOn
    <3>1. UNCHANGED <<text, open, done, finishing, over, event, channel, sent, reported, heard,
                      sender, outcome, pc, answer>>
      BY <1>3, <2>2 DEF Heartbeat, GoOn, Elsewhere, task
    <3> QED BY <1>0, <3>1 DEF FileInv, Types, Sending, Ending, Hearing, Answering
  <2> QED BY <1>3, <2>1, <2>2 DEF Heartbeat
<1>4. CASE SeeCancelled
  BY <1>2, <1>4 DEF SeeCancelled, Fail, Elsewhere
<1>5. CASE ChannelClosed
  BY <1>2, <1>5 DEF ChannelClosed, Fail, Elsewhere
<1>6. CASE TakeOutcome
  <2>1. CASE Head(sent) # "ok"
    BY <1>2, <1>6, <2>1 DEF TakeOutcome, Fail, Elsewhere
  <2>2. CASE Head(sent) = "ok"
    <3>1. /\ UNCHANGED <<text, open, done, finishing, over, event, channel, heard,
                         sender, outcome, pc, answer>>
          /\ pc = "select" /\ sent # <<>> /\ sent' = <<>> /\ reported' = TRUE
      BY <1>6, <2>2 DEF TakeOutcome, Selecting, GoOn, Elsewhere, task
    <3>2. sent = <<outcome>> /\ sender = "ended" /\ outcome = "ok"
      BY <1>0, <2>2, <3>1 DEF Sending
    <3>3. Sending'
      BY <1>0, <3>1, <3>2 DEF Sending
    <3>4. Types' /\ Ending' /\ Hearing' /\ Answering'
      BY <1>0, <3>1 DEF Types, Ending, Hearing, Answering
    <3> QED BY <3>3, <3>4 DEF FileInv
  <2> QED BY <2>1, <2>2
<1>7. CASE TakeEvent
  BY <1>7, TakeEventKeeps
<1>8. CASE Await
  <2>0. /\ pc = "await" /\ sent # <<>> /\ sent' = <<>> /\ reported' = TRUE
        /\ UNCHANGED <<channel, heard>> /\ UNCHANGED <<task, sender, outcome>>
    BY <1>8 DEF Await, Elsewhere
  <2>1. CASE pc' = "cleanup" /\ answer' \in {"error", "lost"}
    BY <1>2, <2>0, <2>1
  <2>2. CASE Head(sent) = "ok" /\ pc' = "cleanup" /\ answer' = "done"
    <3>1. UNCHANGED <<text, open, done, finishing, over, event>>
      BY <2>0 DEF task
    <3>2. sent = <<outcome>> /\ sender = "ended" /\ outcome = "ok"
      BY <1>0, <2>0, <2>2 DEF Sending
    <3>3. Sending'
      BY <1>0, <2>0, <2>2, <3>1, <3>2 DEF Sending
    <3>4. Types' /\ Ending' /\ Hearing' /\ Answering'
      BY <1>0, <2>0, <2>2, <3>1 DEF Types, Ending, Hearing, Answering
    <3> QED BY <3>3, <3>4 DEF FileInv
  <2> QED BY <1>8, <2>1, <2>2 DEF Await, Answer, Fail
<1> QED BY <1>3, <1>4, <1>5, <1>6, <1>7, <1>8 DEF Serve

-----------------------------------------------------------------------------
(* A success is complete.                                                  *)

LEMMA FileInvInit == Init => FileInv
<1> SUFFICES ASSUME Init PROVE FileInv
  OBVIOUS
<1>1. /\ text = [i \in Id |-> <<>>] /\ open = {} /\ done = {} /\ finishing = FALSE
      /\ over = FALSE /\ event = Task!NoEvent
  BY DEF Init, Task!Init
<1>2. event \in AnEvent /\ event.kind = "none"
  BY <1>1 DEF Task!NoEvent, AnEvent
<1>3. Types
  BY <1>1, <1>2 DEF Init, Types
<1>4. Sending
  BY <1>1 DEF Init, Sending
<1>5. Ending
  BY <1>2, Kinds DEF Init, Ending
<1>6. Hearing
  BY <1>1 DEF Init, Hearing, Named, Settled, Range
<1>7. Answering
  BY DEF Init, Answering
<1> QED BY <1>3, <1>4, <1>5, <1>6, <1>7 DEF FileInv

LEMMA FileInvStep == FileInv /\ [Next]_vars => FileInv'
<1> SUFFICES ASSUME FileInv, [Next]_vars PROVE FileInv'
  OBVIOUS
<1>0. Types /\ Sending /\ Ending /\ Hearing /\ Answering
  BY DEF FileInv
<1>1. ASSUME UNCHANGED <<text, open, done, finishing, over, event, channel, heard, sender, outcome,
                        sent, reported, answer>>,
             pc' = pc \/ (pc' # "select" /\ pc' # "await")
      PROVE  FileInv'
  BY <1>0, <1>1 DEF FileInv, Types, Sending, Ending, Hearing, Answering
<1>2. CASE TaskStep
  <2>1. CASE TaskStops
    BY <1>1, <2>1 DEF TaskStops, task, sending, handler
  <2> QED BY <1>2, <2>1, TaskEventKeeps, TaskEndsKeeps DEF TaskStep
<1>3. CASE SenderStep
  BY <1>3, SenderKeeps
<1>4. CASE Serve
  BY <1>4, ServeKeeps
<1>5. CASE Leave
  BY <1>1, <1>5 DEF Leave, Cleanup, Return, task, sending
<1>6. CASE Cancel
  BY <1>1, <1>6 DEF Cancel, task, sending, handler
<1>7. CASE UNCHANGED vars
  BY <1>1, <1>7 DEF vars, task, sending, handler
<1> QED BY <1>2, <1>3, <1>4, <1>5, <1>6, <1>7 DEF Next, Terminated

LEMMA FileInvariant == Spec => []FileInv
BY FileInvInit, FileInvStep, PTL DEF Spec

\* A file that is answered with success was sent as a whole, and every item
\* the task mentioned is completed and was taken into the text; the handler
\* waits outside its select only for a report that is certain to come.
THEOREM SuccessIsCompleteHolds == Spec => []SuccessIsComplete
<1>1. FileInv => SuccessIsComplete
  BY DEF FileInv, Sending, Answering, SuccessIsComplete
<1> QED BY <1>1, FileInvariant, PTL

-----------------------------------------------------------------------------
(* Sums and concatenations of sequences of any length.  The provers have   *)
(* no induction over a predicate; that a set of numbers that is not empty  *)
(* has a least one takes its place.                                        *)

LEMMA Least ==
  ASSUME NEW T \in SUBSET Nat, T # {}
  PROVE  \E n \in T : \A m \in T : n <= m
<1> DEFINE R == {ss \in Nat \X Nat : ss[1] < ss[2]}
<1>1. IsWellFoundedOn(R, Nat)
  BY NatLessThanWellFounded DEF OpToRel
<1>2. \A m, n \in Nat : m < n => <<m, n>> \in R
  OBVIOUS
<1> HIDE DEF R
<1>3. PICK n \in T : \A m \in T : <<m, n>> \notin R
  BY <1>1, WFMin
<1>4. ASSUME NEW m \in T PROVE n <= m
  <2>1. m \in Nat /\ n \in Nat
    OBVIOUS
  <2>2. ~(m < n)
    BY <1>2, <1>3, <2>1
  <2> QED BY <2>1, <2>2
<1> QED BY <1>4

LEMMA Inductive ==
  ASSUME NEW T \in SUBSET Nat, 0 \in T, \A n \in T : n + 1 \in T
  PROVE  T = Nat
<1> SUFFICES ASSUME Nat \ T # {} PROVE FALSE
  OBVIOUS
<1>1. PICK n \in Nat \ T : \A m \in Nat \ T : n <= m
  BY Least
<1>2. n # 0 /\ n - 1 \in Nat /\ n - 1 \in T
  BY <1>1
<1>3. (n - 1) + 1 = n
  OBVIOUS
<1> QED BY <1>1, <1>2, <1>3

LEMMA MaxOf ==
  ASSUME NEW n \in Nat, NEW s \in SUBSET (1 .. n), s # {}
  PROVE  Max(s) \in s /\ \A x \in s : x <= Max(s)
<1> DEFINE T == {n - x : x \in s}
<1>1. T \in SUBSET Nat /\ T # {}
  <2>1. \A x \in s : x \in Nat /\ x <= n
    OBVIOUS
  <2>2. \A x \in s : n - x \in Nat
    BY <2>1
  <2>3. PICK x : x \in s
    OBVIOUS
  <2>4. n - x \in T
    BY <2>3
  <2> QED BY <2>2, <2>4
<1>2. PICK m \in T : \A y \in T : m <= y
  BY <1>1, Least
<1>3. PICK x \in s : m = n - x
  BY <1>2
<1>4. \A y \in s : x >= y
  <2> TAKE y \in s
  <2>1. n - y \in T
    OBVIOUS
  <2>2. m <= n - y
    BY <1>2, <2>1
  <2> QED BY <1>3, <2>2
<1>5. \E z \in s : \A y \in s : z >= y
  BY <1>4
<1>6. Max(s) \in s /\ \A y \in s : Max(s) >= y
  BY <1>5 DEF Max
<1>7. \A y \in s : y \in Int
  OBVIOUS
<1> QED BY <1>6, <1>7

\* h holds the sum of f over every set of numbers up to n, as FoldLeft takes
\* it apart.
Sums(h, f, n) ==
  \A s \in SUBSET (1 .. n) : h[s] = IF s = {} THEN 0 ELSE h[s \ {Max(s)}] + f[Max(s)]

LEMMA MaxOut ==
  ASSUME NEW n \in Nat, NEW s \in SUBSET (1 .. n + 1), s # {}
  PROVE  s \ {Max(s)} \in SUBSET (1 .. n)
<1>0. n + 1 \in Nat
  OBVIOUS
<1>1. Max(s) \in s /\ \A x \in s : x <= Max(s)
  BY <1>0, MaxOf
<1>2. ASSUME NEW x \in s, x # Max(s) PROVE x \in 1 .. n
  <2>1. x \in 1 .. n + 1 /\ Max(s) \in 1 .. n + 1 /\ x <= Max(s)
    BY <1>1
  <2> QED BY <1>2, <2>1
<1> QED BY <1>2

LEMMA SumsExist ==
  ASSUME NEW f, NEW n \in Nat
  PROVE  \E h : Sums(h, f, n)
<1> DEFINE T == {m \in Nat : \E h : Sums(h, f, m)}
<1>1. 0 \in T
  <2> DEFINE g == [s \in SUBSET (1 .. 0) |-> 0]
  <2>1. Sums(g, f, 0)
    BY DEF Sums
  <2> QED BY <2>1
<1>2. ASSUME NEW m \in T PROVE m + 1 \in T
  <2>1. PICK h : Sums(h, f, m)
    OBVIOUS
  <2> DEFINE g == [s \in SUBSET (1 .. m + 1) |->
                     IF s = {} THEN 0 ELSE h[s \ {Max(s)}] + f[Max(s)]]
  <2>2. ASSUME NEW s \in SUBSET (1 .. m) PROVE g[s] = h[s]
    <3>1. s \in SUBSET (1 .. m + 1)
      OBVIOUS
    <3>2. g[s] = IF s = {} THEN 0 ELSE h[s \ {Max(s)}] + f[Max(s)]
      BY <3>1
    <3> HIDE DEF g
    <3> QED BY <2>1, <3>2 DEF Sums
  <2>3. ASSUME NEW s \in SUBSET (1 .. m + 1), s # {}
        PROVE  g[s] = g[s \ {Max(s)}] + f[Max(s)]
    <3>1. s \ {Max(s)} \in SUBSET (1 .. m)
      BY <2>3, MaxOut
    <3>2. g[s] = h[s \ {Max(s)}] + f[Max(s)]
      BY <2>3
    <3> HIDE DEF g
    <3> QED BY <2>2, <3>1, <3>2
  <2>4. g[{}] = 0
    OBVIOUS
  <2> HIDE DEF g
  <2>5. Sums(g, f, m + 1)
    BY <2>3, <2>4 DEF Sums
  <2> QED BY <2>5
<1>3. T = Nat
  <2>1. T \in SUBSET Nat
    OBVIOUS
  <2> HIDE DEF T
  <2> QED BY <1>1, <1>2, <2>1, Inductive
<1>4. n \in T
  BY <1>3
<1> QED BY <1>4

\* The sums of the first numbers of s, added up one by one.
Running(h, s) ==
  /\ h[0] = 0
  /\ \A n \in 1 .. Len(s) : h[n] = h[n - 1] + s[n]

LEMMA TotalRuns ==
  ASSUME NEW s \in Seq(Nat)
  PROVE  \E h : Running(h, s) /\ Total(s) = h[Len(s)]
<1> DEFINE Is(h) == h = [u \in SUBSET DOMAIN s |-> IF u = {} THEN 0 ELSE h[u \ {Max(u)}] + s[Max(u)]]
<1>0. Len(s) \in Nat /\ DOMAIN s = 1 .. Len(s)
  OBVIOUS
<1>1. PICK g : Sums(g, s, Len(s))
  BY <1>0, SumsExist
<1> DEFINE r == [u \in SUBSET DOMAIN s |-> g[u]]
<1>3. Is(r)
  <2>1. \A u \in SUBSET DOMAIN s : g[u] = IF u = {} THEN 0 ELSE g[u \ {Max(u)}] + s[Max(u)]
    BY <1>0, <1>1 DEF Sums
  <2>2. \A u \in SUBSET DOMAIN s : r[u \ {Max(u)}] = g[u \ {Max(u)}]
    OBVIOUS
  <2> QED BY <2>1, <2>2
<1> DEFINE h == CHOOSE h : Is(h)
<1>4. Is(h)
  <2> HIDE DEF Is
  <2> QED BY <1>3
<1>5. Total(s) = h[DOMAIN s]
  BY DEF Total, FoldLeft, MapThenFoldSet
<1> HIDE DEF h
<1>6. \A u \in SUBSET DOMAIN s : h[u] = IF u = {} THEN 0 ELSE h[u \ {Max(u)}] + s[Max(u)]
  BY <1>4
<1> DEFINE k == [n \in 0 .. Len(s) |-> h[1 .. n]]
<1>7. k[0] = 0
  <2>1. 1 .. 0 = {} /\ 0 \in 0 .. Len(s)
    BY <1>0
  <2>2. h[{}] = 0
    BY <1>6
  <2> QED BY <2>1, <2>2
<1>8. ASSUME NEW n \in 1 .. Len(s) PROVE k[n] = k[n - 1] + s[n]
  <2>0. n \in Nat /\ n <= Len(s) /\ n \in 1 .. n
    BY <1>0
  <2>1. /\ 1 .. n \in SUBSET DOMAIN s /\ 1 .. n # {}
    <3>1. \A x \in 1 .. n : x \in 1 .. Len(s)
      BY <1>0, <2>0
    <3> QED BY <1>0, <2>0, <3>1
  <2>2. Max(1 .. n) = n
    <3>1. Max(1 .. n) \in 1 .. n /\ \A x \in 1 .. n : x <= Max(1 .. n)
      <4>1. 1 .. n \in SUBSET (1 .. n) /\ 1 .. n # {}
        BY <2>1
      <4> QED BY <2>0, <4>1, MaxOf
    <3> QED BY <2>0, <3>1
  <2>3. (1 .. n) \ {n} = 1 .. n - 1
    OBVIOUS
  <2>4. n \in 0 .. Len(s) /\ n - 1 \in 0 .. Len(s)
    BY <1>0, <2>0
  <2>5. h[1 .. n] = h[1 .. n - 1] + s[n]
    BY <1>6, <2>1, <2>2, <2>3
  <2> QED BY <2>4, <2>5
<1>9. Total(s) = k[Len(s)]
  BY <1>0, <1>5
<1> HIDE DEF k
<1> QED BY <1>7, <1>8, <1>9 DEF Running

\* One number of a list changes, and the total by as much.
Shift(r, s, j, d) ==
  Len(r) = Len(s) /\ \A n \in 1 .. Len(s) : r[n] = IF n = j THEN s[n] + d ELSE s[n]

LEMMA TotalShift ==
  ASSUME NEW r, NEW s, NEW j, NEW d, r \in Seq(Nat), s \in Seq(Nat), j \in 1 .. Len(s), d \in Int,
         Shift(r, s, j, d)
  PROVE  Total(s) \in Nat /\ Total(r) = Total(s) + d
<1>0. Len(s) \in Nat /\ j \in Nat /\ Len(r) = Len(s)
  BY DEF Shift
<1>s. \A n \in 1 .. Len(s) : r[n] = IF n = j THEN s[n] + d ELSE s[n]
  BY DEF Shift
<1>1. PICK h : Running(h, s) /\ Total(s) = h[Len(s)]
  BY TotalRuns
<1>2. PICK g : Running(g, r) /\ Total(r) = g[Len(r)]
  BY TotalRuns
<1> DEFINE T == {n \in Nat : n <= Len(s) =>
                   /\ h[n] \in Nat
                   /\ g[n] = IF 1 <= j /\ j <= n THEN h[n] + d ELSE h[n]}
<1>3. 0 \in T
  BY <1>0, <1>1, <1>2 DEF Running
<1>4. ASSUME NEW n \in T PROVE n + 1 \in T
  <2> SUFFICES ASSUME n + 1 <= Len(s)
               PROVE  /\ h[n + 1] \in Nat
                      /\ g[n + 1] = IF 1 <= j /\ j <= n + 1 THEN h[n + 1] + d ELSE h[n + 1]
    OBVIOUS
  <2>1. n \in Nat /\ n + 1 \in 1 .. Len(s) /\ (n + 1) - 1 = n
    BY <1>0
  <2>2. h[n] \in Nat /\ g[n] = IF 1 <= j /\ j <= n THEN h[n] + d ELSE h[n]
    BY <1>0, <2>1
  <2>3. h[n + 1] = h[n] + s[n + 1] /\ g[n + 1] = g[n] + r[n + 1]
    BY <1>0, <1>1, <1>2, <2>1 DEF Running
  <2>4. s[n + 1] \in Nat /\ r[n + 1] = IF n + 1 = j THEN s[n + 1] + d ELSE s[n + 1]
    BY <1>s, <2>1, SMTT(30)
  <2> DEFINE a == h[n]
             b == s[n + 1]
  <2>5. a \in Nat /\ b \in Nat /\ h[n + 1] = a + b
    BY <2>2, <2>3, <2>4
  <2>6. CASE j = n + 1
    <3>1. g[n + 1] = a + (b + d)
      BY <2>1, <2>2, <2>3, <2>4, <2>6
    <3> HIDE DEF a, b
    <3> QED BY <2>1, <2>5, <2>6, <3>1
  <2>7. CASE 1 <= j /\ j <= n
    <3>1. g[n + 1] = (a + d) + b
      BY <2>1, <2>2, <2>3, <2>4, <2>7
    <3> HIDE DEF a, b
    <3> QED BY <2>1, <2>5, <2>7, <3>1
  <2>8. CASE ~(1 <= j /\ j <= n + 1)
    <3>1. g[n + 1] = a + b
      BY <2>1, <2>2, <2>3, <2>4, <2>8
    <3> HIDE DEF a, b
    <3> QED BY <2>1, <2>5, <2>8, <3>1
  <2> QED BY <2>1, <2>6, <2>7, <2>8
<1>5. T = Nat
  <2>1. T \in SUBSET Nat
    OBVIOUS
  <2> HIDE DEF T
  <2> QED BY <1>3, <1>4, <2>1, Inductive
<1>6. Len(s) \in T
  BY <1>0, <1>5
<1> QED BY <1>0, <1>1, <1>2, <1>6

LEMMA TotalSplit ==
  ASSUME NEW s \in Seq(Nat), NEW m \in 0 .. Len(s)
  PROVE  LET a == SubSeq(s, 1, m)
             b == SubSeq(s, m + 1, Len(s))
         IN  Total(s) = Total(a) + Total(b) /\ Total(a) \in Nat /\ Total(b) \in Nat
<1> DEFINE a == SubSeq(s, 1, m)
           b == SubSeq(s, m + 1, Len(s))
<1>0. /\ m \in Nat /\ Len(s) \in Nat /\ m <= Len(s)
      /\ a \in Seq(Nat) /\ Len(a) = m /\ \A n \in 1 .. m : a[n] = s[n]
      /\ b \in Seq(Nat) /\ Len(b) = Len(s) - m /\ \A n \in 1 .. Len(s) - m : b[n] = s[m + n]
  OBVIOUS
<1> HIDE DEF a, b
<1>1. PICK h : Running(h, s) /\ Total(s) = h[Len(s)]
  BY TotalRuns
<1>2. PICK g : Running(g, a) /\ Total(a) = g[m]
  BY <1>0, TotalRuns
<1>3. PICK f : Running(f, b) /\ Total(b) = f[Len(s) - m]
  BY <1>0, TotalRuns
<1> DEFINE T == {n \in Nat : n <= m => g[n] \in Nat /\ h[n] = g[n]}
<1>4. T = Nat
  <2>1. 0 \in T
    BY <1>1, <1>2 DEF Running
  <2>2. ASSUME NEW n \in T PROVE n + 1 \in T
    <3> SUFFICES ASSUME n + 1 <= m PROVE g[n + 1] \in Nat /\ h[n + 1] = g[n + 1]
      OBVIOUS
    <3>1. n \in Nat /\ n + 1 \in 1 .. Len(s) /\ n + 1 \in 1 .. Len(a) /\ (n + 1) - 1 = n /\ n <= m
      BY <1>0
    <3>2. /\ h[n + 1] = h[n] + s[n + 1] /\ g[n + 1] = g[n] + a[n + 1]
          /\ a[n + 1] = s[n + 1] /\ s[n + 1] \in Nat
      BY <1>0, <1>1, <1>2, <3>1 DEF Running
    <3>3. g[n] \in Nat /\ h[n] = g[n]
      BY <3>1
    <3> QED BY <3>2, <3>3
  <2>3. T \in SUBSET Nat
    OBVIOUS
  <2> HIDE DEF T
  <2> QED BY <2>1, <2>2, <2>3, Inductive
<1>5. h[m] = g[m] /\ g[m] \in Nat
  <2>1. m \in T
    BY <1>0, <1>4
  <2> QED BY <1>0, <2>1
<1> DEFINE p == Len(s) - m
<1>p. p \in Nat /\ m + p = Len(s) /\ Len(b) = p /\ Total(b) = f[p] /\ \A n \in 1 .. p : b[n] = s[m + n]
  BY <1>0, <1>3
<1> HIDE DEF p
<1> DEFINE U == {n \in Nat : n <= p => f[n] \in Nat /\ h[m + n] = h[m] + f[n]}
<1>6. U = Nat
  <2>1. 0 \in U
    BY <1>0, <1>3, <1>5 DEF Running
  <2>2. ASSUME NEW n \in U PROVE n + 1 \in U
    <3> SUFFICES ASSUME n + 1 <= p
                 PROVE  f[n + 1] \in Nat /\ h[m + (n + 1)] = h[m] + f[n + 1]
      OBVIOUS
    <3> DEFINE o == m + (n + 1)
    <3>0. n \in Nat /\ n <= p
      BY <1>p
    <3>1. o \in 1 .. Len(s) /\ o - 1 = m + n
      BY <1>0, <1>p, <3>0
    <3>2. n + 1 \in 1 .. Len(b) /\ (n + 1) - 1 = n
      BY <1>0, <1>p, <3>0
    <3>3. b[n + 1] = s[o] /\ b[n + 1] \in Nat
      <4>1. n + 1 \in 1 .. p
        BY <1>p, <3>0
      <4>2. b[n + 1] = s[m + (n + 1)]
        BY <1>p, <4>1
      <4>3. b[n + 1] \in Nat
        BY <1>0, <3>2, SMTT(30)
      <4> QED BY <4>2, <4>3
    <3> HIDE DEF o
    <3>4. h[o] = h[m + n] + s[o]
      BY <1>1, <3>1 DEF Running
    <3>5. f[n + 1] = f[n] + b[n + 1]
      BY <1>3, <3>2 DEF Running
    <3>6. f[n] \in Nat /\ h[m + n] = h[m] + f[n]
      BY <3>0
    <3>7. f[n + 1] \in Nat /\ h[o] = h[m] + f[n + 1]
      <4>1. /\ h[m] \in Nat /\ f[n] \in Nat /\ b[n + 1] \in Nat
            /\ h[o] = (h[m] + f[n]) + b[n + 1] /\ f[n + 1] = f[n] + b[n + 1]
        BY <1>5, <3>3, <3>4, <3>5, <3>6
      <4> DEFINE x == h[m]
                 y == f[n]
                 z == b[n + 1]
      <4>2. x \in Nat /\ y \in Nat /\ z \in Nat /\ h[o] = (x + y) + z /\ f[n + 1] = y + z
        BY <4>1
      <4> HIDE DEF x, y, z
      <4>3. f[n + 1] \in Nat /\ h[o] = x + f[n + 1]
        BY <4>2
      <4> QED BY <4>3 DEF x
    <3> QED BY <3>7 DEF o
  <2>3. U \in SUBSET Nat
    OBVIOUS
  <2> HIDE DEF U
  <2> QED BY <2>1, <2>2, <2>3, Inductive
<1>7. f[p] \in Nat /\ h[m + p] = h[m] + f[p]
  <2>1. p \in U
    BY <1>p, <1>6
  <2> QED BY <1>p, <2>1
<1>8. m + p = Len(s)
  BY <1>p
<1> QED BY <1>p, <1>1, <1>2, <1>3, <1>5, <1>7, <1>8 DEF a, b

LEMMA TotalOne ==
  ASSUME NEW x \in Nat
  PROVE  Total(<<x>>) = x /\ Total(<<>>) = 0
<1>1. <<x>> \in Seq(Nat) /\ Len(<<x>>) = 1 /\ <<x>>[1] = x
  OBVIOUS
<1>2. PICK h : Running(h, <<x>>) /\ Total(<<x>>) = h[1]
  BY <1>1, TotalRuns
<1>3. h[0] = 0 /\ h[1] = h[0] + x
  <2>1. 1 \in 1 .. Len(<<x>>) /\ 1 - 1 = 0
    BY <1>1
  <2> QED BY <1>1, <1>2, <2>1 DEF Running
<1>4. <<>> \in Seq(Nat) /\ Len(<<>>) = 0
  OBVIOUS
<1>5. PICK g : Running(g, <<>>) /\ Total(<<>>) = g[0]
  BY <1>4, TotalRuns
<1> QED BY <1>2, <1>3, <1>5 DEF Running

-----------------------------------------------------------------------------
(* Concatenations.                                                         *)

\* The concatenations of the first parts of s, one after the other.
Joining(h, s) ==
  /\ h[0] = <<>>
  /\ \A n \in 1 .. Len(s) : h[n] = h[n - 1] \o s[n]

\* What FlattenSeq computes on the way.
Joined(h, s, m) == \A n \in 1 .. m : h[n] = IF n = 1 THEN s[n] ELSE h[n - 1] \o s[n]

LEMMA JoinedExist ==
  ASSUME NEW s, NEW m \in Nat
  PROVE  \E h : Joined(h, s, m)
<1> DEFINE T == {n \in Nat : \E h : Joined(h, s, n)}
<1>1. 0 \in T
  BY DEF Joined
<1>2. ASSUME NEW n \in T PROVE n + 1 \in T
  <2>1. PICK h : Joined(h, s, n)
    OBVIOUS
  <2>2. n \in Nat
    OBVIOUS
  <2> DEFINE g == [l \in 1 .. n + 1 |-> IF l = 1 THEN s[l] ELSE h[l - 1] \o s[l]]
  <2>3. ASSUME NEW l \in 1 .. n PROVE g[l] = h[l]
    <3>1. l \in 1 .. n + 1
      BY <2>2
    <3> QED BY <2>1, <3>1 DEF Joined
  <2>4. ASSUME NEW l \in 1 .. n + 1 PROVE g[l] = IF l = 1 THEN s[l] ELSE g[l - 1] \o s[l]
    <3>1. g[l] = IF l = 1 THEN s[l] ELSE h[l - 1] \o s[l]
      OBVIOUS
    <3>2. l = 1 \/ l - 1 \in 1 .. n
      BY <2>2
    <3> HIDE DEF g
    <3> QED BY <2>3, <3>1, <3>2
  <2> HIDE DEF g
  <2>5. Joined(g, s, n + 1)
    BY <2>4 DEF Joined
  <2> QED BY <2>2, <2>5
<1>3. T = Nat
  <2>1. T \in SUBSET Nat
    OBVIOUS
  <2> HIDE DEF T
  <2> QED BY <1>1, <1>2, <2>1, Inductive
<1>4. m \in T
  BY <1>3
<1> QED BY <1>4

LEMMA FlatJoins ==
  ASSUME NEW S, NEW s \in Seq(Seq(S))
  PROVE  \E h : Joining(h, s) /\ FlattenSeq(s) = h[Len(s)]
                /\ \A n \in 0 .. Len(s) : h[n] \in Seq(S)
<1> DEFINE Is(h) == h = [n \in 1 .. Len(s) |-> IF n = 1 THEN s[n] ELSE h[n - 1] \o s[n]]
           h == CHOOSE h : Is(h)
           k == [n \in 0 .. Len(s) |-> IF n = 0 THEN <<>> ELSE h[n]]
<1>0. Len(s) \in Nat /\ \A n \in 1 .. Len(s) : s[n] \in Seq(S)
  OBVIOUS
<1>1. PICK g : Joined(g, s, Len(s))
  BY <1>0, JoinedExist
<1> DEFINE r == [n \in 1 .. Len(s) |-> g[n]]
<1>2. Is(r)
  <2>1. \A n \in 1 .. Len(s) : r[n] = IF n = 1 THEN s[n] ELSE r[n - 1] \o s[n]
    <3> TAKE n \in 1 .. Len(s)
    <3>1. g[n] = IF n = 1 THEN s[n] ELSE g[n - 1] \o s[n]
      BY <1>1 DEF Joined
    <3>2. n = 1 \/ (n - 1 \in 1 .. Len(s) /\ r[n - 1] = g[n - 1])
      BY <1>0
    <3> QED BY <3>1, <3>2
  <2> QED BY <2>1
<1>3. Is(h)
  <2> HIDE DEF Is
  <2> QED BY <1>2
<1>4. Len(s) # 0 => FlattenSeq(s) = h[Len(s)]
  BY DEF FlattenSeq
<1>5. Len(s) = 0 => FlattenSeq(s) = <<>>
  BY DEF FlattenSeq
<1> HIDE DEF h
<1>6. \A n \in 1 .. Len(s) : h[n] = IF n = 1 THEN s[n] ELSE h[n - 1] \o s[n]
  BY <1>3
<1>7. k[0] = <<>> /\ \A n \in 1 .. Len(s) : k[n] = h[n]
  BY <1>0
<1> HIDE DEF k
<1> DEFINE T == {n \in Nat : n <= Len(s) => k[n] \in Seq(S)}
<1>8. \A n \in 1 .. Len(s) : k[n] = k[n - 1] \o s[n]
  <2> TAKE n \in 1 .. Len(s)
  <2>1. CASE n = 1
    <3>1. k[n] = s[n] /\ k[n - 1] = <<>> /\ s[n] \in Seq(S)
      BY <1>0, <1>6, <1>7, <2>1
    <3> QED BY <3>1
  <2>2. CASE n # 1
    <3>1. n - 1 \in 1 .. Len(s)
      BY <1>0, <2>2
    <3> QED BY <1>6, <1>7, <2>2, <3>1
  <2> QED BY <2>1, <2>2
<1>9. T = Nat
  <2>1. 0 \in T
    <3>1. <<>> \in Seq(S)
      OBVIOUS
    <3> QED BY <1>7, <3>1
  <2>2. ASSUME NEW n \in T PROVE n + 1 \in T
    <3> SUFFICES ASSUME n + 1 <= Len(s) PROVE k[n + 1] \in Seq(S)
      OBVIOUS
    <3>1. n \in Nat /\ n <= Len(s) /\ n + 1 \in 1 .. Len(s) /\ (n + 1) - 1 = n
      BY <1>0
    <3>2. k[n] \in Seq(S) /\ s[n + 1] \in Seq(S)
      BY <1>0, <3>1
    <3>3. k[n + 1] = k[n] \o s[n + 1]
      BY <1>8, <3>1
    <3> QED BY <3>2, <3>3
  <2>3. T \in SUBSET Nat
    OBVIOUS
  <2> HIDE DEF T
  <2> QED BY <2>1, <2>2, <2>3, Inductive
<1>10. \A n \in 0 .. Len(s) : k[n] \in Seq(S)
  BY <1>0, <1>9
<1>11. FlattenSeq(s) = k[Len(s)]
  BY <1>0, <1>4, <1>5, <1>7
<1> QED BY <1>7, <1>8, <1>10, <1>11 DEF Joining

LEMMA FlatOne ==
  ASSUME NEW S, NEW x \in Seq(S)
  PROVE  FlattenSeq(<<x>>) = x /\ FlattenSeq(<<>>) = <<>>
<1>1. <<x>> \in Seq(Seq(S)) /\ Len(<<x>>) = 1 /\ <<x>>[1] = x
  OBVIOUS
<1>2. PICK h : Joining(h, <<x>>) /\ FlattenSeq(<<x>>) = h[1]
  BY <1>1, FlatJoins
<1>3. h[1] = <<>> \o x
  <2>1. 1 \in 1 .. Len(<<x>>) /\ 1 - 1 = 0
    BY <1>1
  <2> QED BY <1>1, <1>2, <2>1 DEF Joining
<1>4. FlattenSeq(<<>>) = <<>>
  BY DEF FlattenSeq
<1> QED BY <1>2, <1>3, <1>4, ConcatEmptySeq

LEMMA FlatSplit ==
  ASSUME NEW S, NEW s \in Seq(Seq(S)), NEW m \in 0 .. Len(s)
  PROVE  LET a == SubSeq(s, 1, m)
             b == SubSeq(s, m + 1, Len(s))
         IN  /\ FlattenSeq(s) = FlattenSeq(a) \o FlattenSeq(b)
             /\ FlattenSeq(a) \in Seq(S) /\ FlattenSeq(b) \in Seq(S)
<1> DEFINE a == SubSeq(s, 1, m)
           b == SubSeq(s, m + 1, Len(s))
           p == Len(s) - m
<1>0. /\ m \in Nat /\ Len(s) \in Nat /\ m <= Len(s)
      /\ a \in Seq(Seq(S)) /\ Len(a) = m /\ \A n \in 1 .. m : a[n] = s[n]
      /\ b \in Seq(Seq(S)) /\ Len(b) = Len(s) - m /\ \A n \in 1 .. Len(s) - m : b[n] = s[m + n]
      /\ \A n \in 1 .. Len(s) : s[n] \in Seq(S)
  OBVIOUS
<1> HIDE DEF a, b
<1>p. p \in Nat /\ m + p = Len(s) /\ Len(b) = p /\ \A n \in 1 .. p : b[n] = s[m + n]
  BY <1>0
<1> HIDE DEF p
<1>1. PICK h : Joining(h, s) /\ FlattenSeq(s) = h[Len(s)] /\ \A n \in 0 .. Len(s) : h[n] \in Seq(S)
  BY FlatJoins
<1>2. PICK g : Joining(g, a) /\ FlattenSeq(a) = g[m] /\ \A n \in 0 .. m : g[n] \in Seq(S)
  BY <1>0, FlatJoins
<1>3. PICK f : Joining(f, b) /\ FlattenSeq(b) = f[p] /\ \A n \in 0 .. p : f[n] \in Seq(S)
  BY <1>0, <1>p, FlatJoins
<1> DEFINE T == {n \in Nat : n <= m => h[n] = g[n]}
<1>4. T = Nat
  <2>1. 0 \in T
    BY <1>1, <1>2 DEF Joining
  <2>2. ASSUME NEW n \in T PROVE n + 1 \in T
    <3> SUFFICES ASSUME n + 1 <= m PROVE h[n + 1] = g[n + 1]
      OBVIOUS
    <3>1. n \in Nat /\ n + 1 \in 1 .. Len(s) /\ n + 1 \in 1 .. Len(a) /\ (n + 1) - 1 = n /\ n <= m
      BY <1>0
    <3>2. h[n + 1] = h[n] \o s[n + 1] /\ g[n + 1] = g[n] \o a[n + 1] /\ a[n + 1] = s[n + 1]
      BY <1>0, <1>1, <1>2, <3>1 DEF Joining
    <3>3. h[n] = g[n]
      BY <3>1
    <3> QED BY <3>2, <3>3
  <2>3. T \in SUBSET Nat
    OBVIOUS
  <2> HIDE DEF T
  <2> QED BY <2>1, <2>2, <2>3, Inductive
<1>5. h[m] = g[m] /\ g[m] \in Seq(S)
  <2>1. m \in T /\ m \in 0 .. m
    BY <1>0, <1>4
  <2> QED BY <1>0, <1>2, <2>1
<1> DEFINE Eq(n) == h[m + n] = h[m] \o f[n]
           U == {n \in Nat : n <= p => Eq(n)}
<1> HIDE DEF Eq
<1>6. U = Nat
  <2>1. 0 \in U
    <3>1. f[0] = <<>> /\ m + 0 = m
      BY <1>0, <1>3 DEF Joining
    <3>2. h[m] \in Seq(S)
      BY <1>5
    <3> DEFINE x == h[m]
    <3>3. x \o <<>> = x
      <4> HIDE DEF x
      <4> QED BY <3>2, ConcatEmptySeq DEF x
    <3> QED BY <3>1, <3>3 DEF Eq
  <2>2. ASSUME NEW n \in U PROVE n + 1 \in U
    <3> SUFFICES ASSUME n + 1 <= p PROVE Eq(n + 1)
      OBVIOUS
    <3> DEFINE o == m + (n + 1)
    <3>0. n \in Nat /\ n <= p
      BY <1>p
    <3>1. o \in 1 .. Len(s) /\ o - 1 = m + n
      BY <1>0, <1>p, <3>0
    <3>2. n + 1 \in 1 .. Len(b) /\ (n + 1) - 1 = n /\ n + 1 \in 1 .. p /\ n \in 0 .. p
      BY <1>0, <1>p, <3>0
    <3>3. b[n + 1] = s[o] /\ s[o] \in Seq(S)
      BY <1>0, <1>p, <3>0, <3>1, <3>2
    <3> HIDE DEF o
    <3>4. h[o] = h[m + n] \o s[o]
      BY <1>1, <3>1 DEF Joining
    <3>5. f[n + 1] = f[n] \o b[n + 1] /\ f[n] \in Seq(S)
      BY <1>3, <3>2 DEF Joining
    <3>6. h[m + n] = h[m] \o f[n] /\ h[m] \in Seq(S)
      BY <1>5, <3>0 DEF Eq
    <3> DEFINE x == h[m]
               y == f[n]
               z == s[o]
    <3>7. /\ x \in Seq(S) /\ y \in Seq(S) /\ z \in Seq(S)
          /\ h[o] = (x \o y) \o z /\ f[n + 1] = y \o z
      BY <3>3, <3>4, <3>5, <3>6
    <3> HIDE DEF x, y, z
    <3>8. h[o] = x \o f[n + 1]
      <4>1. x \in Seq(S)
        BY <3>7
      <4>2. y \in Seq(S)
        BY <3>7
      <4>3. z \in Seq(S)
        BY <3>7
      <4>4. h[o] = (x \o y) \o z
        BY <3>7
      <4>5. f[n + 1] = y \o z
        BY <3>7
      <4>6. (x \o y) \o z = x \o (y \o z)
        BY <4>1, <4>2, <4>3, ConcatAssociative, SMTT(30)
      <4> QED BY <4>4, <4>5, <4>6, Zenon
    <3> QED BY <3>8 DEF o, x, Eq
  <2>3. U \in SUBSET Nat
    OBVIOUS
  <2> HIDE DEF U
  <2> QED BY <2>1, <2>2, <2>3, Inductive
<1>7. h[m + p] = h[m] \o f[p] /\ f[p] \in Seq(S)
  <2>1. p \in U /\ p \in 0 .. p
    BY <1>p, <1>6
  <2>2. Eq(p)
    BY <1>p, <2>1
  <2>3. f[p] \in Seq(S)
    BY <1>3, <2>1
  <2> QED BY <2>2, <2>3 DEF Eq
<1>8. m + p = Len(s)
  BY <1>p
<1> QED BY <1>p, <1>1, <1>2, <1>3, <1>5, <1>7, <1>8 DEF a, b

LEMMA First ==
  ASSUME NEW S, NEW c \in Seq(S), Len(c) # 0
  PROVE  SubSeq(c, 1, 1) = <<c[1]>>
<1> DEFINE w == SubSeq(c, 1, 1)
           v == <<c[1]>>
<1>0. Len(c) \in Nat /\ 1 \in 1 .. Len(c) /\ c[1] \in S
  OBVIOUS
<1>1. w \in Seq(S)
  BY <1>0
<1>2. Len(w) = 1
  BY <1>0
<1>3. w[1] = c[1]
  BY <1>0
<1>4. v \in Seq(S) /\ Len(v) = 1 /\ v[1] = c[1]
  BY <1>0
<1> HIDE DEF w, v
<1>5. \A n \in 1 .. Len(w) : w[n] = v[n]
  BY <1>2, <1>3, <1>4
<1>6. w = v
  BY <1>1, <1>2, <1>4, <1>5, SeqEqual
<1> QED BY <1>6 DEF w, v

\* d is c with x in front of its first part.
Fronted(d, c, x) ==
  /\ Len(c) = Len(d) /\ Len(c) # 0 /\ d[1] = x \o c[1]
  /\ \A n \in 2 .. Len(c) : d[n] = c[n]

LEMMA FlatFront ==
  ASSUME NEW S, NEW c \in Seq(Seq(S)), NEW d \in Seq(Seq(S)), NEW x \in Seq(S), Fronted(d, c, x)
  PROVE  FlattenSeq(d) = x \o FlattenSeq(c)
<1> DEFINE a == SubSeq(c, 2, Len(c))
           b == SubSeq(d, 2, Len(d))
<1>0. /\ Len(c) \in Nat /\ 1 \in 0 .. Len(c) /\ 1 \in 0 .. Len(d) /\ c[1] \in Seq(S) /\ d[1] \in Seq(S)
      /\ Len(c) = Len(d) /\ Len(c) # 0 /\ d[1] = x \o c[1] /\ \A n \in 2 .. Len(c) : d[n] = c[n]
  BY DEF Fronted
<1>1. SubSeq(c, 1, 1) = <<c[1]>> /\ SubSeq(d, 1, 1) = <<d[1]>>
  BY <1>0, First
<1>2. a = b
  BY <1>0
<1>3. 1 + 1 = 2
  OBVIOUS
<1> HIDE DEF a, b
<1>4. FlattenSeq(c) = FlattenSeq(<<c[1]>>) \o FlattenSeq(a) /\ FlattenSeq(a) \in Seq(S)
  BY <1>0, <1>1, <1>3, FlatSplit DEF a
<1>5. FlattenSeq(d) = FlattenSeq(<<d[1]>>) \o FlattenSeq(b)
  BY <1>0, <1>1, <1>3, FlatSplit DEF b
<1> DEFINE y == c[1]
           z == FlattenSeq(a)
<1>6. y \in Seq(S)
  BY <1>0
<1>7. z \in Seq(S)
  BY <1>4
<1>8. FlattenSeq(<<c[1]>>) = y /\ FlattenSeq(<<d[1]>>) = x \o y
  BY <1>0, FlatOne
<1>9. FlattenSeq(c) = y \o z
  BY <1>4, <1>8
<1>10. FlattenSeq(d) = (x \o y) \o z
  BY <1>2, <1>5, <1>8
<1> HIDE DEF y, z
<1>11. (x \o y) \o z = x \o (y \o z)
  <2>1. x \in Seq(S)
    OBVIOUS
  <2>2. y \in Seq(S)
    BY <1>6
  <2>3. z \in Seq(S)
    BY <1>7
  <2> QED BY <2>1, <2>2, <2>3, ConcatAssociative, SMTT(30)
<1> QED BY <1>9, <1>10, <1>11, Zenon

LEMMA MinOf ==
  ASSUME NEW u \in SUBSET Nat, u # {}
  PROVE  Min(u) \in u /\ \A x \in u : Min(u) <= x
BY Least DEF Min

-----------------------------------------------------------------------------
(* The texts of the items.                                                 *)

Letters == Id \X Nat

LEMMA SpellTyped ==
  ASSUME NEW i \in Id, NEW t \in Seq(Nat)
  PROVE  Spell(i, t) \in Seq(Letters) /\ Len(Spell(i, t)) = Len(t)
BY DEF Spell, Letters

LEMMA SpellGrows ==
  ASSUME NEW i \in Id, NEW t \in Seq(Nat), NEW s \in Seq(Nat), Task!Extends(t, s)
  PROVE  Spell(i, t) = Spell(i, s) \o Spell(i, SubSeq(t, Len(s) + 1, Len(t)))
<1> DEFINE g == SubSeq(t, Len(s) + 1, Len(t))
<1>0. /\ Len(s) \in Nat /\ Len(t) \in Nat /\ Len(s) <= Len(t)
      /\ \A n \in 1 .. Len(s) : t[n] = s[n]
  <2>1. Len(s) \in Nat /\ Len(t) \in Nat /\ Len(s) <= Len(t) /\ SubSeq(t, 1, Len(s)) = s
    BY DEF Task!Extends
  <2>2. \A n \in 1 .. Len(s) : SubSeq(t, 1, Len(s))[n] = t[n]
    BY <2>1
  <2> QED BY <2>1, <2>2
<1>1. /\ g \in Seq(Nat) /\ Len(g) = Len(t) - Len(s)
      /\ \A n \in 1 .. Len(t) - Len(s) : g[n] = t[Len(s) + n]
  BY <1>0
<1> HIDE DEF g
<1> DEFINE l == Spell(i, t)
           a == Spell(i, s)
           b == Spell(i, g)
<1>2. l \in Seq(Letters)
  BY SpellTyped
<1>3. a \in Seq(Letters)
  BY SpellTyped
<1>4. b \in Seq(Letters)
  BY <1>1, SpellTyped
<1>5. Len(l) = Len(t) /\ \A n \in 1 .. Len(t) : l[n] = <<i, t[n]>>
  BY <1>0, SpellTyped DEF Spell
<1>6. Len(a) = Len(s) /\ \A n \in 1 .. Len(s) : a[n] = <<i, s[n]>>
  BY <1>0, SpellTyped DEF Spell
<1>7. Len(b) = Len(g) /\ \A n \in 1 .. Len(g) : b[n] = <<i, g[n]>>
  BY <1>0, <1>1, SpellTyped, SMTT(30) DEF Spell
<1> HIDE DEF l, a, b
<1>8. /\ Len(a \o b) = Len(a) + Len(b)
      /\ \A n \in 1 .. Len(a) + Len(b) : (a \o b)[n] = IF n <= Len(a) THEN a[n] ELSE b[n - Len(a)]
  BY <1>3, <1>4, ConcatProperties
<1>9. Len(a) + Len(b) = Len(t)
  BY <1>0, <1>1, <1>6, <1>7
<1>10. ASSUME NEW n \in 1 .. Len(t) PROVE (a \o b)[n] = l[n]
  <2>1. CASE n <= Len(s)
    <3>1. n \in 1 .. Len(s)
      BY <1>0, <2>1
    <3>2. (a \o b)[n] = a[n]
      BY <1>6, <1>8, <1>9, <2>1
    <3> QED BY <1>0, <1>5, <1>6, <3>1, <3>2
  <2>2. CASE n > Len(s)
    <3>1. n - Len(s) \in 1 .. Len(g) /\ Len(s) + (n - Len(s)) = n /\ ~(n <= Len(s))
      BY <1>0, <1>1, <2>2
    <3>2. (a \o b)[n] = b[n - Len(s)]
      BY <1>6, <1>8, <1>9, <3>1
    <3>3. g[n - Len(s)] = t[n]
      BY <1>1, <3>1
    <3> QED BY <1>5, <1>7, <3>1, <3>2, <3>3
  <2>3. n <= Len(s) \/ n > Len(s)
    BY <1>0
  <2> QED BY <2>1, <2>2, <2>3
<1>11. a \o b \in Seq(Letters)
  BY <1>3, <1>4, ConcatProperties
<1>12. a \o b = l
  <2> DEFINE w == a \o b
  <2>1. w \in Seq(Letters)
    BY <1>11
  <2>2. Len(w) = Len(l)
    BY <1>5, <1>8, <1>9
  <2>3. \A n \in 1 .. Len(l) : w[n] = l[n]
    BY <1>5, <1>10
  <2> HIDE DEF w
  <2>4. w = l
    BY <1>2, <2>1, <2>2, <2>3, SeqEqual
  <2> QED BY <2>4 DEF w
<1> QED BY <1>12 DEF l, a, b, g

-----------------------------------------------------------------------------
(* What is shown of the items.                                             *)

ItemRecord == [text : Seq(Nat), emitted : Nat, done : BOOLEAN]

LEMMA Leads ==
  ASSUME NEW its, NEW ord \in Seq(Id)
  PROVE  /\ Leading(its, ord) \in 0 .. Len(ord)
         /\ \A n \in 1 .. Leading(its, ord) : its[ord[n]].done
         /\ Leading(its, ord) < Len(ord) => ~its[ord[Leading(its, ord) + 1]].done
         /\ Reach(its, ord) = IF Leading(its, ord) < Len(ord) THEN Leading(its, ord) + 1
                              ELSE Leading(its, ord)
         /\ Reach(its, ord) \in 0 .. Len(ord) /\ (Len(ord) # 0 => Reach(its, ord) # 0)
<1> DEFINE u == {n \in DOMAIN ord : ~its[ord[n]].done}
           l == Leading(its, ord)
<1>0. Len(ord) \in Nat /\ DOMAIN ord = 1 .. Len(ord)
  OBVIOUS
<1>1. l = IF u = {} THEN Len(ord) ELSE Min(u) - 1
  BY DEF Leading
<1>2. u # {} => Min(u) \in u /\ \A x \in u : Min(u) <= x
  <2>1. u \in SUBSET Nat
    BY <1>0
  <2> HIDE DEF u
  <2> QED BY <2>1, MinOf
<1>3. \A n \in 1 .. Len(ord) : n \in u <=> ~its[ord[n]].done
  BY <1>0
<1>4. u \subseteq 1 .. Len(ord)
  BY <1>0
<1> HIDE DEF u, l
<1>5. l \in 0 .. Len(ord) /\ (\A n \in 1 .. l : n \in 1 .. Len(ord) /\ n \notin u)
      /\ (l < Len(ord) => l + 1 \in u /\ l + 1 \in 1 .. Len(ord))
  <2>1. CASE u = {}
    BY <1>0, <1>1, <2>1
  <2>2. CASE u # {}
    <3>1. l = Min(u) - 1 /\ Min(u) \in 1 .. Len(ord) /\ Min(u) \in u /\ \A x \in u : Min(u) <= x
      BY <1>1, <1>2, <1>4, <2>2
    <3> DEFINE m == Min(u)
    <3>2. l = m - 1 /\ m \in 1 .. Len(ord) /\ m \in u /\ \A x \in u : m <= x
      BY <3>1
    <3> HIDE DEF m
    <3>3. l \in 0 .. Len(ord) /\ l + 1 = m
      BY <1>0, <3>2
    <3>4. ASSUME NEW n \in 1 .. l PROVE n \in 1 .. Len(ord) /\ n \notin u
      <4>1. n \in 1 .. Len(ord) /\ ~(m <= n)
        BY <1>0, <3>2, <3>3
      <4> QED BY <3>2, <4>1
    <3> QED BY <3>2, <3>3, <3>4
  <2> QED BY <2>1, <2>2
<1>6. Reach(its, ord) = IF l < Len(ord) THEN l + 1 ELSE l
  BY DEF Reach, l
<1>7. Reach(its, ord) \in 0 .. Len(ord) /\ (Len(ord) # 0 => Reach(its, ord) # 0)
  BY <1>0, <1>5, <1>6
<1> QED BY <1>3, <1>5, <1>6, <1>7 DEF l

\* The texts of the first n items of an order.
Parts(ord, ht, n) == [m \in 1 .. n |-> Spell(ord[m], ht[ord[m]])]

LEMMA PartsTyped ==
  ASSUME NEW ho \in Seq(Id), NEW ht \in [Id -> Seq(Nat)], NEW n \in 0 .. Len(ho)
  PROVE  /\ Parts(ho, ht, n) \in Seq(Seq(Letters)) /\ Len(Parts(ho, ht, n)) = n
         /\ \A m \in 1 .. n : Parts(ho, ht, n)[m] = Spell(ho[m], ht[ho[m]])
<1>1. \A m \in 1 .. n : ho[m] \in Id /\ ht[ho[m]] \in Seq(Nat)
  <2>1. \A m \in 1 .. n : m \in 1 .. Len(ho)
    OBVIOUS
  <2> QED BY <2>1
<1>2. \A m \in 1 .. n : Spell(ho[m], ht[ho[m]]) \in Seq(Letters)
  BY <1>1, SpellTyped
<1> QED BY <1>2 DEF Parts

\* The items in front, shown in full, and what is shown of the next one.
LEMMA PartsNext ==
  ASSUME NEW ho \in Seq(Id), NEW ht \in [Id -> Seq(Nat)], NEW m \in 0 .. Len(ho), m < Len(ho)
  PROVE  /\ FlattenSeq(Parts(ho, ht, m + 1)) =
              FlattenSeq(Parts(ho, ht, m)) \o Spell(ho[m + 1], ht[ho[m + 1]])
         /\ FlattenSeq(Parts(ho, ht, m)) \in Seq(Letters)
<1> DEFINE p == Parts(ho, ht, m + 1)
           q == Parts(ho, ht, m)
           x == Spell(ho[m + 1], ht[ho[m + 1]])
<1>0. m + 1 \in 0 .. Len(ho) /\ m \in Nat
  OBVIOUS
<1>1. p \in Seq(Seq(Letters))
  BY <1>0, PartsTyped
<1>2. Len(p) = m + 1 /\ \A n \in 1 .. m + 1 : p[n] = Spell(ho[n], ht[ho[n]])
  BY <1>0, PartsTyped
<1>3. q \in Seq(Seq(Letters))
  BY PartsTyped
<1>4. Len(q) = m /\ \A n \in 1 .. m : q[n] = Spell(ho[n], ht[ho[n]])
  BY PartsTyped
<1>5. x \in Seq(Letters) /\ p[m + 1] = x
  <2>1. ho[m + 1] \in Id
    BY <1>0
  <2> QED BY <1>0, <1>2, <2>1, SpellTyped
<1> HIDE DEF p, q, x
<1>6. SubSeq(p, 1, m) = q
  <2>1. \A n \in 1 .. m : n \in 1 .. m + 1 /\ p[n] = q[n]
    BY <1>0, <1>2, <1>4
  <2> DEFINE w == SubSeq(p, 1, m)
  <2>2. w \in Seq(Seq(Letters)) 
    BY <1>0, <1>1, <1>2
  <2>3. Len(w) = m /\ \A n \in 1 .. m : w[n] = p[n]
    BY SMTT(30), <1>0, <1>1, <1>2
  <2> HIDE DEF w
  <2>4. w = q
    BY <1>3, <1>4, <2>1, <2>2, <2>3, SeqEqual
  <2> QED BY <2>4 DEF w
<1>7. SubSeq(p, m + 1, Len(p)) = <<x>>
  <2> DEFINE w == SubSeq(p, m + 1, m + 1)
             v == <<x>>
  <2>1. w \in Seq(Seq(Letters))
    BY <1>0, <1>1, <1>2
  <2>2. Len(w) = 1 /\ w[1] = x
    BY <1>0, <1>1, <1>2, <1>5
  <2>3. v \in Seq(Seq(Letters))
    BY <1>5
  <2>4. Len(v) = 1 /\ v[1] = x
    BY <1>5
  <2> HIDE DEF w, v
  <2>5. \A n \in 1 .. Len(w) : w[n] = v[n]
    BY <2>2, <2>4
  <2>6. w = v
    BY <2>1, <2>2, <2>3, <2>4, <2>5, SeqEqual
  <2> QED BY <1>2, <2>6 DEF w, v
<1>8. m \in 0 .. Len(p)
  BY <1>0, <1>2
<1>9. FlattenSeq(p) = FlattenSeq(q) \o FlattenSeq(<<x>>) /\ FlattenSeq(q) \in Seq(Letters)
  BY <1>1, <1>6, <1>7, <1>8, FlatSplit
<1>10. FlattenSeq(<<x>>) = x
  BY <1>5, FlatOne
<1>11. FlattenSeq(p) = FlattenSeq(q) \o x
  BY <1>9, <1>10
<1>12. FlattenSeq(q) \in Seq(Letters)
  BY <1>9
<1> QED BY <1>11, <1>12 DEF p, q, x

\* The first items of a longer order.
LEMMA PartsSame ==
  ASSUME NEW ho, NEW gs, NEW ht, NEW hu, NEW n \in Nat,
         \A m \in 1 .. n : ho[m] = gs[m] /\ ht[ho[m]] = hu[ho[m]]
  PROVE  Parts(ho, ht, n) = Parts(gs, hu, n)
BY DEF Parts

\* The rest of a split, where it starts with another part.
LEMMA Regroup ==
  ASSUME NEW S, NEW a, NEW x, NEW c, NEW d, a \in Seq(S), x \in Seq(S), c \in Seq(S), d = x \o c
  PROVE  a \o d = (a \o x) \o c
<1>1. (a \o x) \o c = a \o (x \o c)
  BY ConcatAssociative
<1>2. d = x \o c
  OBVIOUS
<1> QED BY <1>1, <1>2, Zenon

\* The items of an order are filed with their texts, and of the first one s
\* was shown.
FiledAs(its, ord, hd, ht, s) ==
  /\ Len(ord) # 0 /\ Task!Extends(ht[ord[1]], s)
  /\ \A n \in 1 .. Len(ord) :
       its[ord[n]] = [text |-> ht[ord[n]], emitted |-> IF n = 1 THEN Len(s) ELSE 0,
                      done |-> ord[n] \in hd]

\* What accept shows follows on what was shown.
LEMMA ShowsOn ==
  ASSUME NEW its, NEW ord \in Seq(Id), NEW ht \in [Id -> Seq(Nat)], NEW hd,
         NEW s \in Seq(Nat), FiledAs(its, ord, hd, ht, s)
  PROVE  /\ FlattenSeq(Parts(ord, ht, Reach(its, ord))) = Spell(ord[1], s) \o Shown(its, ord)
         /\ Shown(its, ord) \in Seq(Letters)
<1> DEFINE r == Reach(its, ord)
           d == Parts(ord, ht, r)
           c == [n \in 1 .. r |-> LET it == its[ord[n]]
                                  IN Spell(ord[n], SubSeq(it.text, it.emitted + 1, Len(it.text)))]
           x == Spell(ord[1], s)
<1>0. /\ r \in 0 .. Len(ord) /\ r # 0 /\ Len(ord) \in Nat /\ 1 \in 1 .. r
      /\ \A n \in 1 .. r : n \in 1 .. Len(ord)
  BY Leads DEF FiledAs
<1>1. d \in Seq(Seq(Letters)) /\ Len(d) = r /\ \A n \in 1 .. r : d[n] = Spell(ord[n], ht[ord[n]])
  BY <1>0, PartsTyped
<1>2. ASSUME NEW n \in 1 .. r
      PROVE  /\ ord[n] \in Id /\ ht[ord[n]] \in Seq(Nat)
             /\ c[n] = Spell(ord[n], SubSeq(ht[ord[n]], (IF n = 1 THEN Len(s) ELSE 0) + 1, Len(ht[ord[n]])))
  <2>1. n \in 1 .. Len(ord)
    BY <1>0
  <2>2. its[ord[n]].text = ht[ord[n]] /\ its[ord[n]].emitted = IF n = 1 THEN Len(s) ELSE 0
    <3>1. its[ord[n]] = [text |-> ht[ord[n]], emitted |-> IF n = 1 THEN Len(s) ELSE 0,
                         done |-> ord[n] \in hd]
      BY <2>1 DEF FiledAs
    <3> QED BY <3>1
  <2>3. c[n] = Spell(ord[n], SubSeq(its[ord[n]].text, its[ord[n]].emitted + 1, Len(its[ord[n]].text)))
    OBVIOUS
  <2> HIDE DEF c
  <2>4. ord[n] \in Id
    BY <2>1
  <2>5. ht[ord[n]] \in Seq(Nat)
    BY <2>4
  <2> QED BY <2>2, <2>3, <2>4, <2>5
<1>3. Shown(its, ord) = FlattenSeq(c)
  BY DEF Shown
<1>4. DOMAIN c = 1 .. r
  OBVIOUS
<1> HIDE DEF r, d
<1>5. ASSUME NEW n \in 1 .. r PROVE c[n] \in Seq(Letters)
  <2>1. SubSeq(ht[ord[n]], (IF n = 1 THEN Len(s) ELSE 0) + 1, Len(ht[ord[n]])) \in Seq(Nat)
    <3> DEFINE t == ht[ord[n]]
    <3>1. t \in Seq(Nat)
      BY <1>2
    <3> HIDE DEF t
    <3>2. SubSeq(t, (IF n = 1 THEN Len(s) ELSE 0) + 1, Len(t)) \in Seq(Nat)
      <4>1. CASE n = 1
        <5>1. Len(s) \in Nat
          OBVIOUS
        <5> QED BY <3>1, <4>1, <5>1
      <4>2. CASE n # 1
        BY <3>1, <4>2
      <4> QED BY <4>1, <4>2
    <3> QED BY <3>2 DEF t
  <2> QED BY <1>2, <2>1, SpellTyped
<1>6. c \in Seq(Seq(Letters)) /\ Len(c) = r
  BY <1>0, <1>5
<1> HIDE DEF c
<1>7. x \in Seq(Letters)
  BY <1>0, <1>2, SpellTyped
<1>8. Fronted(d, c, x)
  <2>1. d[1] = x \o c[1]
    <3> DEFINE t == ht[ord[1]]
    <3>1. t \in Seq(Nat) /\ ord[1] \in Id
      BY <1>0, <1>2
    <3>2. Task!Extends(t, s)
      BY DEF FiledAs
    <3>3. d[1] = Spell(ord[1], t)
      BY <1>0, <1>1
    <3>4. c[1] = Spell(ord[1], SubSeq(t, Len(s) + 1, Len(t)))
      BY <1>0, <1>2
    <3> HIDE DEF t
    <3> QED BY <3>1, <3>2, <3>3, <3>4, SpellGrows
  <2>2. ASSUME NEW n \in 2 .. r PROVE d[n] = c[n]
    <3>1. n \in 1 .. r /\ n # 1
      OBVIOUS
    <3> DEFINE t == ht[ord[n]]
    <3>2. t \in Seq(Nat)
      BY <1>2, <3>1
    <3>3. c[n] = Spell(ord[n], SubSeq(t, 0 + 1, Len(t)))
      BY <1>2, <3>1
    <3>4. d[n] = Spell(ord[n], t)
      BY <1>1, <3>1
    <3> HIDE DEF t
    <3>5. SubSeq(t, 0 + 1, Len(t)) = t
      BY <3>2
    <3> QED BY <3>3, <3>4, <3>5
  <2> QED BY <1>0, <1>1, <1>6, <2>1, <2>2 DEF Fronted
<1>9. FlattenSeq(d) = x \o FlattenSeq(c)
  BY <1>1, <1>6, <1>7, <1>8, FlatFront
<1>10. FlattenSeq(c) \in Seq(Letters)
  <2>1. PICK h : FlattenSeq(c) = h[Len(c)] /\ \A n \in 0 .. Len(c) : h[n] \in Seq(Letters)
    BY <1>6, FlatJoins
  <2>2. Len(c) \in 0 .. Len(c)
    BY <1>0, <1>6
  <2> QED BY <2>1, <2>2
<1> QED BY <1>3, <1>9, <1>10 DEF d, r, x

\* ord is ho without its first m entries.
Behind(ho, ord, m) ==
  /\ Len(ho) = m + Len(ord)
  /\ \A n \in 1 .. Len(ord) : ord[n] = ho[m + n]

\* The parts of an order, behind those of the items in front of it.
LEMMA PartsBehind ==
  ASSUME NEW ho, NEW ht, NEW ord, NEW m, NEW r, ho \in Seq(Id), ht \in [Id -> Seq(Nat)],
         ord \in Seq(Id), m \in Nat, r \in 0 .. Len(ord), Behind(ho, ord, m)
  PROVE  /\ FlattenSeq(Parts(ho, ht, m + r)) =
              FlattenSeq(Parts(ho, ht, m)) \o FlattenSeq(Parts(ord, ht, r))
         /\ FlattenSeq(Parts(ho, ht, m)) \in Seq(Letters)
<1> DEFINE p == Parts(ho, ht, m + r)
           q == Parts(ho, ht, m)
           d == Parts(ord, ht, r)
<1>0. m + r \in 0 .. Len(ho) /\ m \in 0 .. Len(ho) /\ r \in Nat /\ m \in 0 .. m + r /\ Len(ord) \in Nat
  BY DEF Behind
<1>1. p \in Seq(Seq(Letters))
  BY <1>0, PartsTyped
<1>2. Len(p) = m + r /\ \A n \in 1 .. m + r : p[n] = Spell(ho[n], ht[ho[n]])
  BY <1>0, PartsTyped
<1>3. q \in Seq(Seq(Letters))
  BY <1>0, PartsTyped
<1>4. Len(q) = m /\ \A n \in 1 .. m : q[n] = Spell(ho[n], ht[ho[n]])
  BY <1>0, PartsTyped
<1>5. d \in Seq(Seq(Letters))
  BY PartsTyped
<1>6. Len(d) = r /\ \A n \in 1 .. r : d[n] = Spell(ord[n], ht[ord[n]])
  BY PartsTyped
<1> HIDE DEF p, q, d
<1>7. SubSeq(p, 1, m) = q
  <2>1. \A n \in 1 .. m : n \in 1 .. m + r /\ p[n] = q[n]
    BY <1>0, <1>2, <1>4
  <2> DEFINE w == SubSeq(p, 1, m)
  <2>2. w \in Seq(Seq(Letters)) 
    BY <1>0, <1>1, <1>2
  <2>3. Len(w) = m /\ \A n \in 1 .. m : w[n] = p[n]
    BY <1>0, <1>1, <1>2
  <2> HIDE DEF w
  <2>4. w = q
    BY <1>3, <1>4, <2>1, <2>2, <2>3, SeqEqual
  <2> QED BY <2>4 DEF w
<1>8. SubSeq(p, m + 1, Len(p)) = d
  <2>1. \A n \in 1 .. r : m + n \in 1 .. m + r /\ n \in 1 .. Len(ord)
    BY <1>0
  <2>2. \A n \in 1 .. r : p[m + n] = d[n]
    BY <1>2, <1>6, <2>1 DEF Behind
  <2> DEFINE w == SubSeq(p, m + 1, m + r)
  <2>3. w \in Seq(Seq(Letters)) 
    BY <1>0, <1>1, <1>2
  <2>4. Len(w) = r /\ \A n \in 1 .. r : w[n] = p[m + n]
    BY <1>0, <1>1, <1>2
  <2> HIDE DEF w
  <2>5. w = d
    BY <1>5, <1>6, <2>2, <2>3, <2>4, SeqEqual
  <2> QED BY <1>2, <2>5 DEF w
<1>9. m \in 0 .. Len(p)
  BY <1>0, <1>2
<1>10. FlattenSeq(p) = FlattenSeq(q) \o FlattenSeq(d) /\ FlattenSeq(q) \in Seq(Letters)
  BY <1>1, <1>7, <1>8, <1>9, FlatSplit
<1> QED BY <1>10 DEF p, q, d

-----------------------------------------------------------------------------
(* The channel.                                                            *)

OfItem(e) == e.kind \notin Task!EndKind

\* What is in the channel follows on what was heard: nothing of an item after
\* its outcome, and each of its texts extends the ones before it.
Flow ==
  pc = "select" =>
    /\ \A n \in DOMAIN channel : OfItem(channel[n]) =>
         /\ channel[n].id \notin heard.done
         /\ channel[n].kind = "final" <=> protocol = "sentences"
         /\ HasText(channel[n]) => Task!Extends(channel[n].text, heard.text[channel[n].id])
         /\ HasText(channel[n]) /\ channel[n].id \notin done /\ ~over =>
              Task!Extends(text[channel[n].id], channel[n].text)
    /\ \A n, m \in DOMAIN channel :
         n < m /\ OfItem(channel[n]) /\ OfItem(channel[m]) /\ channel[n].id = channel[m].id =>
           /\ channel[n].kind \notin Settling
           /\ HasText(channel[n]) /\ HasText(channel[m]) =>
                Task!Extends(channel[m].text, channel[n].text)
    /\ ~over => \A i \in Id \ done : Task!Extends(text[i], heard.text[i])

LEMMA ExtendsSelf ==
  ASSUME NEW t \in Seq(Nat)
  PROVE  Task!Extends(t, t) /\ Task!Extends(t, <<>>)
<1>1. SubSeq(t, 1, Len(t)) = t /\ SubSeq(t, 1, 0) = <<>> /\ Len(t) \in Nat /\ Len(<<>>) = 0
  OBVIOUS
<1> QED BY <1>1 DEF Task!Extends

LEMMA ExtendsMore ==
  ASSUME NEW t \in Seq(Nat), NEW s \in Seq(Nat), NEW r \in Seq(Nat),
         Task!Extends(t, s), Task!Extends(s, r)
  PROVE  Task!Extends(t, r)
<1>1. Len(r) <= Len(s) /\ Len(s) <= Len(t) /\ Len(r) \in Nat /\ Len(s) \in Nat /\ Len(t) \in Nat
      /\ SubSeq(t, 1, Len(s)) = s /\ SubSeq(s, 1, Len(r)) = r
  BY DEF Task!Extends
<1>2. \A n \in 1 .. Len(s) : t[n] = s[n]
  <2>1. \A n \in 1 .. Len(s) : SubSeq(t, 1, Len(s))[n] = t[n]
    BY <1>1
  <2> QED BY <1>1, <2>1
<1>3. \A n \in 1 .. Len(r) : s[n] = r[n]
  <2>1. \A n \in 1 .. Len(r) : SubSeq(s, 1, Len(r))[n] = s[n]
    BY <1>1
  <2> QED BY <1>1, <2>1
<1> DEFINE w == SubSeq(t, 1, Len(r))
<1>4. w \in Seq(Nat)
  BY <1>1, SMTT(30)
<1>5. Len(w) = Len(r) /\ \A n \in 1 .. Len(r) : w[n] = t[n]
  BY <1>1
<1>6. \A n \in 1 .. Len(r) : n \in 1 .. Len(s)
  BY <1>1
<1> HIDE DEF w
<1>7. \A n \in 1 .. Len(r) : w[n] = r[n]
  BY <1>2, <1>3, <1>5, <1>6
<1>8. w = r
  BY <1>4, <1>5, <1>7, SeqEqual
<1>9. Len(r) <= Len(t)
  BY <1>1
<1> QED BY <1>8, <1>9 DEF w, Task!Extends

\* What an event of the task says of its item.
Follows(i) ==
  /\ i \notin done /\ event'.id = i /\ OfItem(event')
  /\ event'.kind = "final" <=> protocol = "sentences"
  /\ HasText(event') => Task!Extends(event'.text, text[i])
  /\ \A j \in Id \ done' : text'[j] = IF j = i /\ HasText(event') THEN event'.text ELSE text[j]

LEMMA ReportFollows ==
  ASSUME Types, protocol = "items", NEW i \in Id, Task!Report(i)
  PROVE  Follows(i)
<1>0. text \in [Id -> Seq(Nat)]
  BY DEF Types
<1>1. ASSUME NEW k \in Task!StageKind, Task!Stage(i, k) PROVE Follows(i)
  <2>1. k \in {"started", "stopped", "committed"}
    BY DEF Task!StageKind
  <2>2. event'.kind = k /\ event'.id = i /\ i \notin done /\ UNCHANGED <<text, done>>
    BY <1>1 DEF Task!Stage, Task!Plain
  <2> QED BY <2>1, <2>2, Kinds DEF Follows, OfItem, HasText
<1>2. ASSUME NEW t \in Texts, Task!Update(i, t) PROVE Follows(i)
  <2>1. /\ event'.kind = "delta" /\ event'.id = i /\ event'.text = t /\ i \notin done
        /\ text' = [text EXCEPT ![i] = t] /\ Task!Extends(t, text[i])
    BY <1>2 DEF Task!Update
  <2>2. \A j \in Id : text'[j] = IF j = i THEN t ELSE text[j]
    BY <1>0, <2>1
  <2> QED BY <2>1, <2>2, Kinds DEF Follows, OfItem, HasText
<1>3. ASSUME NEW t \in Texts, Task!Complete(i, t) PROVE Follows(i)
  <2>1. /\ event'.kind = "completed" /\ event'.id = i /\ event'.text = t /\ i \notin done
        /\ text' = [text EXCEPT ![i] = <<>>] /\ Task!Extends(t, text[i]) /\ i \in done'
    BY <1>3 DEF Task!Complete
  <2>2. \A j \in Id \ done' : j # i /\ text'[j] = text[j]
    BY <1>0, <2>1
  <2> QED BY <2>1, <2>2, Kinds DEF Follows, OfItem, HasText
<1>4. ASSUME Task!Fail(i) PROVE Follows(i)
  <2>1. /\ event'.kind = "failed" /\ event'.id = i /\ i \notin done
        /\ text' = [text EXCEPT ![i] = <<>>] /\ i \in done'
    BY <1>4 DEF Task!Fail, Task!Plain
  <2>2. \A j \in Id \ done' : j # i /\ text'[j] = text[j]
    BY <1>0, <2>1
  <2> QED BY <2>1, <2>2, Kinds DEF Follows, OfItem, HasText
<1> QED BY <1>1, <1>2, <1>3, <1>4 DEF Task!Report

LEMMA SentenceFollows ==
  ASSUME protocol = "sentences", NEW i \in Id, NEW t \in Texts, Sentence(i, t)
  PROVE  Follows(i)
<1>1. event'.kind = "final" /\ event'.id = i /\ i \notin done /\ text' = text
  BY DEF Sentence
<1> QED BY <1>1, Kinds DEF Follows, OfItem, HasText

LEMMA TaskEventFlow ==
  ASSUME FileInv, Flow, heard.text \in [Id -> Seq(Nat)], TaskEvent, pc = "select"
  PROVE  Flow'
<1>0. /\ Types /\ Hearing /\ Ending /\ ~over /\ channel \in Seq(AnEvent)
      /\ text \in [Id -> Seq(Nat)] /\ done \in SUBSET Id
  BY DEF FileInv, TaskEvent, Types
<1>1. PICK i \in Id : Mentions(i) /\ Follows(i)
  BY <1>0, ReportMentions, SentenceMentions, ReportFollows, SentenceFollows DEF TaskEvent
<1>2. /\ channel' = Append(channel, event') /\ event' \in AnEvent
      /\ UNCHANGED <<pc, heard, protocol, over>>
      /\ done' = IF event'.kind \in Settling THEN done \cup {i} ELSE done
  BY <1>1 DEF TaskEvent, handler, Mentions
<1> DEFINE l == Len(channel)
<1>3. /\ l \in Nat /\ DOMAIN channel = 1 .. l /\ DOMAIN channel' = 1 .. l + 1
      /\ channel'[l + 1] = event' /\ \A n \in 1 .. l : channel'[n] = channel[n]
  BY <1>0, <1>2
<1>4. \A n \in 1 .. l : channel[n] \in AnEvent /\ channel[n].text \in Seq(Nat)
  <2>1. \A n \in 1 .. l : channel[n] \in AnEvent
    BY <1>0, <1>3
  <2> QED BY <2>1 DEF AnEvent
<1>5. event'.text \in Seq(Nat)
  BY <1>2 DEF AnEvent
<1> HIDE DEF l
<1>6. \A n \in 1 .. l : OfItem(channel[n]) => channel[n].id \in Id
  BY <1>0, <1>3 DEF Ending, OfItem
<1>7. heard.done \subseteq done /\ Settled(channel) \subseteq done /\ text[i] \in Seq(Nat)
      /\ i \notin done /\ done \subseteq done'
  BY <1>0, <1>1, <1>2 DEF Hearing, Follows
<1>8. /\ event'.id = i /\ OfItem(event') /\ (event'.kind = "final" <=> protocol = "sentences")
      /\ HasText(event') => Task!Extends(event'.text, text[i])
      /\ \A j \in Id \ done' : text'[j] = IF j = i /\ HasText(event') THEN event'.text ELSE text[j]
  BY <1>1 DEF Follows
<1>9. Task!Extends(text[i], heard.text[i])
  BY <1>0, <1>7 DEF Flow
<1>10. ASSUME NEW j \in Id \ done' PROVE Task!Extends(text'[j], text[j]) /\ text'[j] \in Seq(Nat)
  <2>1. text[j] \in Seq(Nat)
    BY <1>0
  <2>2. CASE j = i /\ HasText(event')
    BY <1>5, <1>8, <2>2
  <2>3. CASE ~(j = i /\ HasText(event'))
    BY <1>8, <2>1, <2>3, ExtendsSelf
  <2> QED BY <2>2, <2>3
<1>11. ASSUME NEW n \in 1 .. l + 1, OfItem(channel'[n])
       PROVE  /\ channel'[n].id \notin heard'.done
              /\ channel'[n].kind = "final" <=> protocol' = "sentences"
              /\ HasText(channel'[n]) => Task!Extends(channel'[n].text, heard'.text[channel'[n].id])
              /\ HasText(channel'[n]) /\ channel'[n].id \notin done' /\ ~over' =>
                   Task!Extends(text'[channel'[n].id], channel'[n].text)
  <2>1. CASE n \in 1 .. l
    <3>1. channel'[n] = channel[n] /\ n \in DOMAIN channel
      BY <1>3, <2>1
    <3>2. PICK c : c = channel[n] /\ c.id \in Id /\ c.text \in Seq(Nat)
      BY <1>4, <1>6, <1>11, <2>1, <3>1
    <3>3. /\ c.id \notin heard.done /\ (c.kind = "final" <=> protocol = "sentences")
          /\ HasText(c) => Task!Extends(c.text, heard.text[c.id])
          /\ HasText(c) /\ c.id \notin done => Task!Extends(text[c.id], c.text)
      BY <1>0, <1>11, <3>1, <3>2 DEF Flow
    <3>4. ASSUME HasText(c), c.id \notin done' PROVE Task!Extends(text'[c.id], c.text)
      <4>1. PICK j \in Id : j = c.id
        BY <3>2
      <4>2. j \in Id \ done' /\ Task!Extends(text[j], c.text) /\ text[j] \in Seq(Nat)
        BY <1>0, <1>7, <3>3, <3>4, <4>1
      <4>3. Task!Extends(text'[j], text[j]) /\ text'[j] \in Seq(Nat)
        BY <1>10, <4>2
      <4>4. Task!Extends(text'[j], c.text)
        BY <3>2, <4>2, <4>3, ExtendsMore
      <4> QED BY <4>1, <4>4
    <3> QED BY <1>2, <3>1, <3>2, <3>3, <3>4
  <2>2. CASE n = l + 1
    <3>1. channel'[n] = event'
      BY <1>3, <2>2
    <3>2. ASSUME HasText(event') PROVE Task!Extends(event'.text, heard.text[i])
      <4>1. heard.text[i] \in Seq(Nat)
        OBVIOUS
      <4>2. Task!Extends(event'.text, text[i])
        BY <1>8, <3>2
      <4> QED BY <1>5, <1>7, <1>9, <4>1, <4>2, ExtendsMore
    <3>3. ASSUME HasText(event'), i \notin done' PROVE Task!Extends(text'[i], event'.text)
      <4>1. text'[i] = event'.text
        BY <1>8, <3>3
      <4> QED BY <1>5, <4>1, ExtendsSelf
    <3> QED BY <1>2, <1>7, <1>8, <3>1, <3>2, <3>3
  <2> QED BY <1>3, <2>1, <2>2
<1>12. ASSUME NEW n \in 1 .. l + 1, NEW m \in 1 .. l + 1, n < m, OfItem(channel'[n]),
              OfItem(channel'[m]), channel'[n].id = channel'[m].id
       PROVE  /\ channel'[n].kind \notin Settling
              /\ HasText(channel'[n]) /\ HasText(channel'[m]) =>
                   Task!Extends(channel'[m].text, channel'[n].text)
  <2>0. n \in 1 .. l /\ channel'[n] = channel[n] /\ n \in DOMAIN channel
    BY <1>3, <1>12
  <2>1. CASE m \in 1 .. l
    <3>1. channel'[m] = channel[m] /\ m \in DOMAIN channel
      BY <1>3, <2>1
    <3> QED BY <1>12, <2>0, <3>1 DEF Flow
  <2>2. CASE m = l + 1
    <3>1. channel'[m] = event' /\ channel[n].id = i /\ OfItem(channel[n])
      BY <1>3, <1>8, <1>12, <2>0, <2>2
    <3>2. channel[n].kind \notin Settling
      <4>1. channel[n].kind \in Settling => i \in Settled(channel)
        BY <2>0, <3>1 DEF Settled
      <4> QED BY <1>7, <4>1
    <3>3. ASSUME HasText(channel[n]), HasText(event')
          PROVE  Task!Extends(event'.text, channel[n].text)
      <4>1. Task!Extends(text[i], channel[n].text)
        BY <1>0, <1>7, <2>0, <3>1, <3>3 DEF Flow
      <4>2. Task!Extends(event'.text, text[i])
        BY <1>8, <3>3
      <4>3. PICK t \in Seq(Nat) : t = channel[n].text
        BY <1>4, <2>0
      <4>4. PICK v \in Seq(Nat) : v = event'.text
        BY <1>5
      <4>5. Task!Extends(v, t)
        BY <1>7, <4>1, <4>2, <4>3, <4>4, ExtendsMore
      <4> QED BY <4>3, <4>4, <4>5
    <3> QED BY <2>0, <3>1, <3>2, <3>3
  <2> QED BY <1>3, <2>1, <2>2
<1>13. ASSUME NEW j \in Id \ done' PROVE Task!Extends(text'[j], heard'.text[j])
  <2>1. j \in Id \ done /\ heard.text[j] \in Seq(Nat) /\ text[j] \in Seq(Nat)
    BY <1>0, <1>7
  <2>2. Task!Extends(text[j], heard.text[j])
    BY <1>0, <2>1 DEF Flow
  <2>3. Task!Extends(text'[j], text[j]) /\ text'[j] \in Seq(Nat)
    BY <1>10
  <2> QED BY <1>2, <2>1, <2>2, <2>3, ExtendsMore
<1> QED BY <1>3, <1>11, <1>12, <1>13 DEF Flow

LEMMA TaskEndsFlow ==
  ASSUME FileInv, Flow, TaskEnds, pc = "select"
  PROVE  Flow'
<1>0. channel \in Seq(AnEvent)
  BY DEF FileInv, Types
<1>1. /\ channel' = Append(channel, event') /\ over' = TRUE /\ event'.kind \in Task!EndKind
      /\ UNCHANGED <<pc, heard, protocol, done>>
  BY Kinds DEF TaskEnds, handler, Task!EndNormally, Task!EndInError, Task!Plain
<1> DEFINE l == Len(channel)
<1>2. /\ l \in Nat /\ DOMAIN channel = 1 .. l /\ DOMAIN channel' = 1 .. l + 1
      /\ channel'[l + 1] = event' /\ \A n \in 1 .. l : channel'[n] = channel[n]
  BY <1>0, <1>1
<1> HIDE DEF l
<1>3. \A n \in DOMAIN channel' : OfItem(channel'[n]) => n \in DOMAIN channel /\ channel'[n] = channel[n]
  BY <1>1, <1>2 DEF OfItem
<1> QED BY <1>1, <1>3 DEF Flow

\* The handler takes the first event.
LEMMA TakeFlow ==
  ASSUME FileInv, Flow, heard.text \in [Id -> Seq(Nat)], pc = "select", channel # <<>>,
         channel' = Tail(channel), UNCHANGED task, pc' = pc,
         OfItem(Head(channel)), Head(channel).kind # "failed", Hear(Head(channel))
  PROVE  Flow'
<1>0. /\ Types /\ Hearing /\ Ending /\ channel \in Seq(AnEvent)
      /\ text \in [Id -> Seq(Nat)] /\ done \in SUBSET Id
      /\ UNCHANGED <<text, open, done, finishing, over, event, protocol>>
  BY DEF FileInv, Types, task
<1> DEFINE e == Head(channel)
<1>1. /\ e = channel[1] /\ 1 \in DOMAIN channel /\ e \in AnEvent /\ e.kind \notin Task!EndKind
      /\ OfItem(e) /\ e.kind # "failed"
      /\ DOMAIN channel = 1 .. Len(channel) /\ Len(channel) \in Nat
  BY <1>0, Taken DEF OfItem
<1>2. e.id \in Id
  BY <1>0, <1>1 DEF Ending
<1>3. /\ \A n \in DOMAIN channel' : n + 1 \in DOMAIN channel /\ channel'[n] = channel[n + 1]
      /\ \A n \in DOMAIN channel' : n \in Nat /\ 1 < n + 1
  <2>1. channel' = Tail(channel) /\ channel # <<>>
    OBVIOUS
  <2>2. channel' \in Seq(AnEvent)
    BY <1>0, <2>1, Taken
  <2>3. \A n \in DOMAIN channel' : n \in Nat /\ n >= 1
    BY <2>2
  <2> QED BY <1>0, <2>1, <2>3, Taken
<1>4. /\ heard'.done = IF e.kind \in {"completed", "final"} THEN heard.done \cup {e.id} ELSE heard.done
      /\ heard'.text = IF HasText(e) \/ e.kind = "final" THEN [heard.text EXCEPT ![e.id] = e.text]
                       ELSE heard.text
  BY DEF Hear
<1>5. \A j \in Id : heard'.text[j] = IF j = e.id /\ (HasText(e) \/ e.kind = "final") THEN e.text
                                     ELSE heard.text[j]
  <2> HIDE DEF e
  <2> QED BY <1>2, <1>4
<1>6. e.kind \in Settling => e.id \in done
  <2>1. e.kind \in Settling => e.id \in Settled(channel)
    BY <1>1, <1>2 DEF Settled
  <2> QED BY <1>0, <2>1 DEF Hearing
<1> HIDE DEF e
<1>7. \A n \in DOMAIN channel : OfItem(channel[n]) => channel[n].id \in Id
  BY <1>0 DEF Ending, OfItem
\* Compared with the event taken.
<1>8. ASSUME NEW n \in DOMAIN channel', OfItem(channel'[n]), channel'[n].id = e.id
      PROVE  /\ e.kind \notin Settling
             /\ HasText(e) /\ HasText(channel'[n]) => Task!Extends(channel'[n].text, e.text)
  BY <1>0, <1>1, <1>3, <1>8, SMTT(30) DEF Flow
<1>9. ASSUME NEW n \in DOMAIN channel', OfItem(channel'[n])
      PROVE  /\ channel'[n].id \notin heard'.done
             /\ channel'[n].kind = "final" <=> protocol' = "sentences"
             /\ HasText(channel'[n]) => Task!Extends(channel'[n].text, heard'.text[channel'[n].id])
             /\ HasText(channel'[n]) /\ channel'[n].id \notin done' /\ ~over' =>
                  Task!Extends(text'[channel'[n].id], channel'[n].text)
  <2>1. PICK c : c = channel'[n] /\ c = channel[n + 1] /\ c.id \in Id /\ OfItem(c)
    BY <1>3, <1>7, <1>9
  <2>2. /\ c.id \notin heard.done /\ (c.kind = "final" <=> protocol = "sentences")
        /\ HasText(c) => Task!Extends(c.text, heard.text[c.id])
        /\ HasText(c) /\ c.id \notin done /\ ~over => Task!Extends(text[c.id], c.text)
    BY <1>3, <2>1 DEF Flow
  <2>3. c.id = e.id => e.kind \notin Settling /\ (HasText(e) /\ HasText(c) => Task!Extends(c.text, e.text))
    BY <1>8, <2>1
  <2>4. c.id \notin heard'.done
    BY <1>4, <2>2, <2>3 DEF Settling
  <2>5. ASSUME HasText(c) PROVE Task!Extends(c.text, heard'.text[c.id])
    <3>1. CASE c.id = e.id /\ (HasText(e) \/ e.kind = "final")
      <4>1. heard'.text[c.id] = e.text /\ e.kind # "final"
        BY <1>2, <1>5, <2>3, <3>1 DEF Settling
      <4> QED BY <2>3, <2>5, <3>1, <4>1
    <3>2. CASE ~(c.id = e.id /\ (HasText(e) \/ e.kind = "final"))
      BY <1>5, <2>1, <2>2, <2>5, <3>2
    <3> QED BY <3>1, <3>2
  <2> QED BY <1>0, <2>1, <2>2, <2>4, <2>5
<1>10. ASSUME NEW n \in DOMAIN channel', NEW m \in DOMAIN channel', n < m, OfItem(channel'[n]),
              OfItem(channel'[m]), channel'[n].id = channel'[m].id
       PROVE  /\ channel'[n].kind \notin Settling
              /\ HasText(channel'[n]) /\ HasText(channel'[m]) =>
                   Task!Extends(channel'[m].text, channel'[n].text)
  <2>1. /\ n + 1 \in DOMAIN channel /\ m + 1 \in DOMAIN channel /\ n + 1 < m + 1
        /\ channel'[n] = channel[n + 1] /\ channel'[m] = channel[m + 1]
    BY <1>3, <1>10
  <2> QED BY <1>10, <2>1 DEF Flow
<1>11. ASSUME ~over', NEW j \in Id \ done' PROVE Task!Extends(text'[j], heard'.text[j])
  <2>1. Task!Extends(text[j], heard.text[j]) /\ text'[j] = text[j] /\ j \notin done
    BY <1>0, <1>11 DEF Flow
  <2>2. CASE j = e.id /\ HasText(e)
    <3>1. Task!Extends(text[j], e.text)
      BY <1>0, <1>1, <1>11, <2>1, <2>2 DEF Flow
    <3> QED BY <1>5, <2>1, <2>2, <3>1
  <2>3. CASE ~(j = e.id /\ HasText(e))
    <3>1. ~(j = e.id /\ e.kind = "final")
      BY <1>6, <2>1 DEF Settling
    <3>2. heard'.text[j] = heard.text[j]
      BY <1>5, <2>3, <3>1
    <3> QED BY <2>1, <3>2
  <2> QED BY <2>2, <2>3
<1> QED BY <1>9, <1>10, <1>11 DEF Flow

-----------------------------------------------------------------------------
(* The items.                                                              *)

Once(s) == \A n, m \in DOMAIN s : s[n] = s[m] => n = m

LEMMA RestOf ==
  ASSUME NEW S, NEW c \in Seq(S), NEW l \in 0 .. Len(c)
  PROVE  /\ SubSeq(c, l + 1, Len(c)) \in Seq(S)
         /\ Len(SubSeq(c, l + 1, Len(c))) = Len(c) - l
         /\ \A n \in 1 .. Len(c) - l : SubSeq(c, l + 1, Len(c))[n] = c[l + n]
OBVIOUS

\* An order without its first l entries.
Rests(od, o, l) == od = SubSeq(o, l + 1, Len(o))

\* What is kept of the items: see Filed.
KeptAs(k, od, hw, he) ==
  /\ k \in [Id -> ItemRecord] /\ od \in Seq(Id)
  /\ \A j \in Id \ Range(od) : k[j] = Fresh
  /\ \A n \in 1 .. Len(od) :
       k[od[n]] = [text |-> hw[od[n]], emitted |-> IF n = 1 THEN Len(hw[od[n]]) ELSE 0,
                   done |-> od[n] \in he]
  /\ od # <<>> => od[1] \notin he

OthersFresh(its, o) == \A j \in Id \ Range(o) : its[j] = Fresh

\* What accept leaves of the items and the order.
LEMMA KeepsAs ==
  ASSUME NEW its, NEW ord, NEW ht, NEW hd, NEW s, NEW k, NEW o, NEW l,
         its \in [Id -> ItemRecord], ord \in Seq(Id), ht \in [Id -> Seq(Nat)], s \in Seq(Nat),
         FiledAs(its, ord, hd, ht, s), Once(ord), OthersFresh(its, ord),
         l = Leading(its, ord), k = Kept(its, ord), Rests(o, ord, l)
  PROVE  KeptAs(k, o, ht, hd) /\ \A n \in 1 .. l : ord[n] \in hd
<1> DEFINE r == Reach(its, ord)
<1>0. /\ Len(ord) \in Nat /\ l \in 0 .. Len(ord) /\ l \in Nat /\ DOMAIN ord = 1 .. Len(ord)
      /\ \A n \in 1 .. l : its[ord[n]].done
      /\ l < Len(ord) => ~its[ord[l + 1]].done
      /\ r = IF l < Len(ord) THEN l + 1 ELSE l
  BY Leads
<1>1. o \in Seq(Id) /\ Len(o) = Len(ord) - l /\ \A n \in 1 .. Len(ord) - l : o[n] = ord[l + n]
  BY <1>0, RestOf, ZenonT(30) DEF Rests
<1>2. \A j \in Id : k[j] = CASE \E n \in 1 .. l : ord[n] = j -> Fresh
                             [] \E n \in {r} \ {0, l} : ord[n] = j
                                  -> [its[j] EXCEPT !.emitted = Len(its[j].text)]
                             [] OTHER -> its[j]
  BY DEF Kept
<1>3. k = [j \in Id |-> k[j]]
  BY DEF Kept
<1> HIDE DEF r
<1>4. \A n \in 1 .. Len(ord) : n \in DOMAIN ord /\ ord[n] \in Id
  BY <1>0
<1>5. ASSUME NEW n \in 1 .. Len(ord)
      PROVE  /\ its[ord[n]] = [text |-> ht[ord[n]], emitted |-> IF n = 1 THEN Len(s) ELSE 0,
                               done |-> ord[n] \in hd]
             /\ its[ord[n]].done = (ord[n] \in hd) /\ its[ord[n]].text = ht[ord[n]]
             /\ ht[ord[n]] \in Seq(Nat)
  <2>1. its[ord[n]] = [text |-> ht[ord[n]], emitted |-> IF n = 1 THEN Len(s) ELSE 0,
                       done |-> ord[n] \in hd]
    BY DEF FiledAs
  <2> QED BY <1>4, <2>1
<1>6. ASSUME NEW n \in 1 .. l PROVE n \in 1 .. Len(ord) /\ ord[n] \in hd
  <2>1. n \in 1 .. Len(ord)
    BY <1>0
  <2> QED BY <1>0, <1>5, <2>1
<1>7. l < Len(ord) => l + 1 \in 1 .. Len(ord) /\ ord[l + 1] \notin hd
  <2>1. l < Len(ord) => l + 1 \in 1 .. Len(ord)
    BY <1>0
  <2> QED BY <1>0, <1>5, <2>1
<1>8. \A n, m \in 1 .. Len(ord) : ord[n] = ord[m] => n = m
  BY <1>0 DEF Once
\* The three cases.
<1>9. ASSUME NEW n \in 1 .. l PROVE k[ord[n]] = Fresh
  <2> DEFINE j == ord[n]
  <2>1. j \in Id /\ \E m \in 1 .. l : ord[m] = j
    BY <1>4, <1>6
  <2>2. ~\E m \in {r} \ {0, l} : ord[m] = j
    <3>1. ASSUME NEW m \in {r} \ {0, l}, ord[m] = j PROVE FALSE
      <4>1. m = l + 1 /\ l < Len(ord)
        BY <1>0, <3>1
      <4>2. m = n
        BY <1>6, <1>7, <1>8, <3>1, <4>1
      <4> QED BY <1>0, <4>1, <4>2
    <3> QED BY <3>1
  <2> HIDE DEF j
  <2>3. k[j] = Fresh
    BY <1>2, <2>1, <2>2
  <2> QED BY <2>3 DEF j
<1>10. ASSUME l < Len(ord)
       PROVE  k[ord[l + 1]] = [text |-> ht[ord[l + 1]], emitted |-> Len(ht[ord[l + 1]]),
                               done |-> ord[l + 1] \in hd]
  <2> DEFINE j == ord[l + 1]
  <2>1. l + 1 \in 1 .. Len(ord) /\ r = l + 1 /\ r # 0 /\ r # l /\ j \in Id
    BY <1>0, <1>4, <1>7, <1>10
  <2>2. ~\E n \in 1 .. l : ord[n] = j
    <3>1. ASSUME NEW n \in 1 .. l, ord[n] = j PROVE FALSE
      <4>1. n = l + 1
        BY <1>6, <1>8, <2>1, <3>1
      <4> QED BY <1>0, <4>1
    <3> QED BY <3>1
  <2>3. \E n \in {r} \ {0, l} : ord[n] = j
    BY <2>1
  <2>4. k[j] = [its[j] EXCEPT !.emitted = Len(its[j].text)]
    <3> HIDE DEF j
    <3> QED BY <1>2, <2>1, <2>2, <2>3
  <2>5. its[j] = [text |-> ht[j], emitted |-> IF l + 1 = 1 THEN Len(s) ELSE 0, done |-> j \in hd]
    BY <1>5, <2>1
  <2> HIDE DEF j
  <2>6. k[j] = [text |-> ht[j], emitted |-> Len(ht[j]), done |-> j \in hd]
    BY <2>4, <2>5
  <2> QED BY <2>6 DEF j
<1>11. ASSUME NEW n \in 1 .. Len(ord), n > l + 1 PROVE k[ord[n]] = its[ord[n]]
  <2> DEFINE j == ord[n]
  <2>1. j \in Id
    BY <1>4
  <2>2. ~\E m \in 1 .. l : ord[m] = j
    <3>1. ASSUME NEW m \in 1 .. l, ord[m] = j PROVE FALSE
      <4>1. m = n
        BY <1>6, <1>8, <3>1
      <4> QED BY <1>0, <1>11, <4>1
    <3> QED BY <3>1
  <2>3. ~\E m \in {r} \ {0, l} : ord[m] = j
    <3>1. ASSUME NEW m \in {r} \ {0, l}, ord[m] = j PROVE FALSE
      <4>1. m = l + 1 /\ l < Len(ord)
        BY <1>0, <3>1
      <4>2. m = n
        BY <1>7, <1>8, <3>1, <4>1
      <4> QED BY <1>0, <1>11, <4>1, <4>2
    <3> QED BY <3>1
  <2> HIDE DEF j
  <2>4. k[j] = its[j]
    BY <1>2, <2>1, <2>2, <2>3
  <2> QED BY <2>4 DEF j
<1>12. ASSUME NEW j \in Id \ Range(ord) PROVE k[j] = Fresh
  <2>0. its[j] = Fresh
    BY DEF OthersFresh
  <2>1. \A n \in 1 .. Len(ord) : ord[n] # j
    BY <1>0 DEF Range
  <2>2. ~\E n \in 1 .. l : ord[n] = j
    BY <1>6, <2>1
  <2>3. ~\E n \in {r} \ {0, l} : ord[n] = j
    <3>1. ASSUME NEW m \in {r} \ {0, l}, ord[m] = j PROVE FALSE
      <4>1. m = l + 1 /\ l < Len(ord)
        BY <1>0, <3>1
      <4>2. m \in 1 .. Len(ord)
        BY <1>7, <4>1
      <4> QED BY <2>1, <3>1, <4>2
    <3> QED BY <3>1
  <2>4. k[j] = its[j]
    BY <1>2, <2>2, <2>3
  <2> QED BY <2>0, <2>4
\* The rest of the order.
<1>13. ASSUME NEW n \in 1 .. Len(o)
       PROVE  /\ o[n] = ord[l + n] /\ l + n \in 1 .. Len(ord)
              /\ k[o[n]] = [text |-> ht[o[n]], emitted |-> IF n = 1 THEN Len(ht[o[n]]) ELSE 0,
                            done |-> o[n] \in hd]
  <2>0. n \in 1 .. Len(ord) - l
    BY <1>1
  <2>1. o[n] = ord[l + n] /\ l + n \in 1 .. Len(ord) /\ l < Len(ord)
    <3>0. l \in Nat /\ Len(ord) \in Nat
      BY <1>0
    <3>1. l + n \in 1 .. Len(ord) /\ l < Len(ord)
      BY <2>0, <3>0
    <3> QED BY <1>1, <2>0, <3>1
  <2>2. CASE n = 1
    BY <1>10, <2>1, <2>2
  <2>3. CASE n # 1
    <3>1. l + n > l + 1 /\ l + n # 1
      BY <1>0, <2>3
    <3>2. k[ord[l + n]] = its[ord[l + n]]
      BY <1>11, <2>1, <3>1
    <3>3. its[ord[l + n]] = [text |-> ht[ord[l + n]], emitted |-> 0, done |-> ord[l + n] \in hd]
      BY <1>5, <2>1, <3>1
    <3> QED BY <2>1, <2>3, <3>2, <3>3
  <2> QED BY <2>1, <2>2, <2>3
<1>14. ASSUME NEW j \in Id \ Range(o) PROVE k[j] = Fresh
  <2>1. CASE j \notin Range(ord)
    BY <1>12, <2>1
  <2>2. CASE j \in Range(ord)
    <3>1. PICK n \in 1 .. Len(ord) : ord[n] = j
      BY <1>0, <2>2 DEF Range
    <3>2. CASE n <= l
      <4>1. n \in 1 .. l
        BY <1>0, <3>2
      <4> QED BY <1>9, <3>1, <4>1
    <3>3. CASE ~(n <= l)
      <4>0. Len(o) = Len(ord) - l
        BY <1>1
      <4>1. n - l \in 1 .. Len(o) /\ l + (n - l) = n
        BY <1>0, <3>3, <4>0, SMTT(30)
      <4>2. o[n - l] = j
        BY <1>13, <3>1, <4>1, ZenonT(30)
      <4>3. n - l \in DOMAIN o
        BY <1>1, <4>1
      <4> QED BY <4>2, <4>3 DEF Range
    <3> QED BY <3>2, <3>3
  <2> QED BY <2>1, <2>2
<1>15. ASSUME NEW j \in Id PROVE k[j] \in ItemRecord
  <2>1. CASE j \notin Range(o)
    <3>1. Fresh \in ItemRecord
      BY DEF Fresh, ItemRecord
    <3> QED BY <1>14, <2>1, <3>1
  <2>2. CASE j \in Range(o)
    <3>1. PICK n \in 1 .. Len(o) : o[n] = j
      BY <1>1, <2>2 DEF Range
    <3>2. k[j] = [text |-> ht[j], emitted |-> IF n = 1 THEN Len(ht[j]) ELSE 0, done |-> j \in hd]
      BY <1>13, <3>1
    <3>3. ht[j] \in Seq(Nat) /\ Len(ht[j]) \in Nat
      OBVIOUS
    <3> QED BY <3>2, <3>3 DEF ItemRecord
  <2> QED BY <2>1, <2>2
<1>16. k \in [Id -> ItemRecord]
  BY <1>3, <1>15
<1>17. o # <<>> => o[1] \notin hd
  <2> SUFFICES ASSUME o # <<>> PROVE o[1] \notin hd
    OBVIOUS
  <2>1. 1 \in 1 .. Len(o) /\ l < Len(ord)
    BY <1>0, <1>1
  <2> QED BY <1>7, <1>13, <2>1
<1> QED BY <1>1, <1>6, <1>13, <1>14, <1>16, <1>17 DEF KeptAs

Handling == pc \in {"select", "await"}

\* The items in the order of their first mention: those in front are done, and
\* the others are the order.
Lined(ho, hd, ord) ==
  /\ Len(ord) <= Len(ho) /\ Behind(ho, ord, Len(ho) - Len(ord)) /\ Once(ho)
  /\ \A n \in 1 .. Len(ho) - Len(ord) : ho[n] \in hd
  /\ ord # <<>> => ord[1] \notin hd

\* The order holds the items with the text that was heard of them; the first
\* one is shown as far as it is known, and the others not at all.
Filed ==
  Handling =>
    /\ items \in [Id -> ItemRecord] /\ order \in Seq(Id) /\ heard.text \in [Id -> Seq(Nat)]
    /\ protocol = "sentences" => order = <<>>
    /\ Lined(heard.order, heard.done, order)
    /\ \A i \in Id \ Range(heard.order) : heard.text[i] = <<>>
    /\ \A i \in Id \ Range(order) : items[i] = Fresh
    /\ \A n \in 1 .. Len(order) :
         items[order[n]] = [text    |-> heard.text[order[n]],
                            emitted |-> IF n = 1 THEN Len(heard.text[order[n]]) ELSE 0,
                            done    |-> order[n] \in heard.done]

\* The part of the front item that was shown.
FrontText == IF order = <<>> THEN <<>> ELSE heard.text[order[1]]

LEMMA InFront ==
  ASSUME NEW ho, NEW hd, NEW ord, NEW i, ho \in Seq(Id), ord \in Seq(Id), Lined(ho, hd, ord),
         i \notin hd
  PROVE  i \in Range(ord) <=> i \in Range(ho)
<1> DEFINE m == Len(ho) - Len(ord)
<1>0. /\ Len(ho) \in Nat /\ Len(ord) \in Nat /\ m \in Nat /\ Len(ho) = m + Len(ord)
      /\ DOMAIN ho = 1 .. Len(ho) /\ DOMAIN ord = 1 .. Len(ord)
  BY DEF Lined
<1>1. (\A n \in 1 .. Len(ord) : ord[n] = ho[m + n]) /\ \A n \in 1 .. m : ho[n] \in hd
  BY DEF Lined, Behind
<1> HIDE DEF m
<1>2. ASSUME i \in Range(ord) PROVE i \in Range(ho)
  <2>1. PICK n \in 1 .. Len(ord) : ord[n] = i
    BY <1>0, <1>2 DEF Range
  <2>2. m + n \in 1 .. Len(ho) /\ ho[m + n] = i
    BY <1>0, <1>1, <2>1
  <2> QED BY <1>0, <2>2 DEF Range
<1>3. ASSUME i \in Range(ho) PROVE i \in Range(ord)
  <2>1. PICK n \in 1 .. Len(ho) : ho[n] = i
    BY <1>0, <1>3 DEF Range
  <2>2. n \notin 1 .. m
    BY <1>1, <2>1
  <2>3. n - m \in 1 .. Len(ord) /\ m + (n - m) = n
    BY <1>0, <2>2
  <2>4. ord[n - m] = i
    BY <1>1, <2>1, <2>3
  <2> QED BY <1>0, <2>3, <2>4 DEF Range
<1> QED BY <1>2, <1>3

Joins(i, ho, ord, hu, o, m) ==
  /\ m = Len(ho) - Len(ord)
  /\ hu = IF i \in Range(ho) THEN ho ELSE Append(ho, i)
  /\ o = IF i \in Range(ord) THEN ord ELSE Append(ord, i)

\* An event that is accepted joins the order behind the others.
LEMMA JoinsOrder ==
  ASSUME NEW ho, NEW hd, NEW ord, NEW i, NEW hu, NEW o, NEW m, ho \in Seq(Id), ord \in Seq(Id),
         Lined(ho, hd, ord), i \in Id, i \notin hd, Joins(i, ho, ord, hu, o, m)
  PROVE  /\ hu \in Seq(Id) /\ o \in Seq(Id) /\ Once(hu) /\ Once(o) /\ Len(o) # 0
         /\ m \in Nat /\ Behind(hu, o, m) /\ Len(hu) - Len(o) = m
         /\ \A n \in 1 .. m : hu[n] = ho[n] /\ ho[n] \in hd
         /\ Len(ord) <= Len(o) /\ \A n \in 1 .. Len(ord) : o[n] = ord[n]
         /\ Range(hu) = Range(ho) \cup {i} /\ Range(o) = Range(ord) \cup {i}
         /\ \A n \in 1 .. Len(o) : n > Len(ord) => o[n] = i /\ n = Len(ord) + 1
<1>0. /\ Len(ho) \in Nat /\ Len(ord) \in Nat /\ m \in Nat /\ Len(ho) = m + Len(ord)
      /\ DOMAIN ho = 1 .. Len(ho) /\ DOMAIN ord = 1 .. Len(ord) /\ Len(ord) <= Len(ho)
  BY DEF Lined, Joins
<1>1. (\A n \in 1 .. Len(ord) : ord[n] = ho[m + n]) /\ \A n \in 1 .. m : ho[n] \in hd
  BY DEF Lined, Behind, Joins
<1>2. \A n, k \in 1 .. Len(ho) : ho[n] = ho[k] => n = k
  BY <1>0 DEF Lined, Once
<1>3. i \in Range(ord) <=> i \in Range(ho)
  BY InFront
<1>4. CASE i \in Range(ho)
  <2>1. hu = ho /\ o = ord
    BY <1>3, <1>4 DEF Joins
  <2>2. Len(ord) # 0
    BY <1>0, <1>3, <1>4 DEF Range
  <2>3. Once(ho)
    BY DEF Lined
  <2>4. Behind(ho, ord, m)
    BY DEF Lined, Joins
  <2>5. Once(ord)
    <3> SUFFICES ASSUME NEW n \in 1 .. Len(ord), NEW k \in 1 .. Len(ord), ord[n] = ord[k] PROVE n = k
      BY <1>0 DEF Once
    <3>1. m + n \in 1 .. Len(ho) /\ m + k \in 1 .. Len(ho)
      BY <1>0
    <3>2. ho[m + n] = ho[m + k]
      BY <1>1
    <3>3. m + n = m + k
      BY <1>2, <3>1, <3>2
    <3> QED BY <1>0, <3>3
  <2>6. \A n \in 1 .. Len(ord) : ~(n > Len(ord))
    BY <1>0
  <2>7. Len(ho) - Len(ord) = m /\ Range(ho) = Range(ho) \cup {i} /\ Range(ord) = Range(ord) \cup {i}
    BY <1>0, <1>3, <1>4
  <2>8. hu \in Seq(Id) /\ o \in Seq(Id) /\ Once(hu) /\ Once(o) /\ Len(o) # 0
    BY <2>1, <2>2, <2>3, <2>5
  <2>9. m \in Nat /\ Behind(hu, o, m) /\ Len(hu) - Len(o) = m
    BY <1>0, <2>1, <2>4, <2>7
  <2> QED BY <1>0, <1>1, <2>1, <2>6, <2>7, <2>8, <2>9
<1>5. CASE i \notin Range(ho)
  <2>1. hu = Append(ho, i) /\ o = Append(ord, i)
    BY <1>3, <1>5 DEF Joins
  <2>2. /\ Len(hu) = Len(ho) + 1 /\ hu[Len(ho) + 1] = i /\ \A n \in 1 .. Len(ho) : hu[n] = ho[n]
        /\ hu \in Seq(Id) /\ DOMAIN hu = 1 .. Len(hu)
    BY <2>1
  <2>3. /\ Len(o) = Len(ord) + 1 /\ o[Len(ord) + 1] = i /\ \A n \in 1 .. Len(ord) : o[n] = ord[n]
        /\ o \in Seq(Id) /\ DOMAIN o = 1 .. Len(o)
    BY <2>1
  <2>4. Range(hu) = Range(ho) \cup {i} /\ Range(o) = Range(ord) \cup {i}
    BY <2>1, RangeAppend
  <2>5. \A n \in 1 .. Len(ho) : ho[n] # i
    BY <1>0, <1>5 DEF Range
  <2>6. \A n, k \in 1 .. Len(hu) : hu[n] = hu[k] => n = k
    <3> SUFFICES ASSUME NEW n \in 1 .. Len(hu), NEW k \in 1 .. Len(hu), hu[n] = hu[k] PROVE n = k
      OBVIOUS
    <3>1. n \in 1 .. Len(ho) \/ n = Len(ho) + 1
      BY <1>0, <2>2, SMTT(30)
    <3>2. k \in 1 .. Len(ho) \/ k = Len(ho) + 1
      BY <1>0, <2>2
    <3> QED BY <1>2, <2>2, <2>5, <3>1, <3>2
  <2>7. \A n \in 1 .. Len(o) : o[n] = hu[m + n] /\ m + n \in 1 .. Len(hu)
    <3> TAKE n \in 1 .. Len(o)
    <3>1. CASE n \in 1 .. Len(ord)
      <4>1. m + n \in 1 .. Len(ho)
        BY <1>0, <3>1
      <4> QED BY <1>0, <1>1, <2>2, <2>3, <3>1, <4>1
    <3>2. CASE n = Len(ord) + 1
      <4>1. m + n = Len(ho) + 1
        BY <1>0, <3>2
      <4> QED BY <1>0, <2>2, <2>3, <3>2, <4>1
    <3> QED BY <1>0, <2>3, <3>1, <3>2
  <2>8. Once(o)
    <3> SUFFICES ASSUME NEW n \in 1 .. Len(o), NEW k \in 1 .. Len(o), o[n] = o[k] PROVE n = k
      BY <2>3 DEF Once
    <3>1. m + n = m + k
      BY <2>6, <2>7
    <3> QED BY <1>0, <3>1
  <2>9. Once(hu)
    BY <2>2, <2>6 DEF Once
  <2>10. Behind(hu, o, m)
    BY <1>0, <2>2, <2>3, <2>7 DEF Behind
  <2>11. \A n \in 1 .. m : hu[n] = ho[n] /\ ho[n] \in hd
    BY <1>0, <1>1, <2>2
  <2>12. \A n \in 1 .. Len(o) : n > Len(ord) => o[n] = i /\ n = Len(ord) + 1
    BY <1>0, <2>3
  <2>13. Len(o) # 0 /\ Len(hu) - Len(o) = m /\ Len(ord) <= Len(o)
    BY <1>0, <2>2, <2>3
  <2> QED BY <1>0, <2>2, <2>3, <2>4, <2>8, <2>9, <2>10, <2>11, <2>12, <2>13
<1> QED BY <1>4, <1>5

\* An event that accept takes.
Accepts(e) ==
  /\ e.id \in Id /\ e.text \in Seq(Nat) /\ OfItem(e) /\ e.kind \notin {"failed", "final"}
  /\ e.id \notin heard.done /\ Hear(e)
  /\ HasText(e) => Task!Extends(e.text, heard.text[e.id])

Left == Len(heard.order) - Len(order)

LEMMA WaitingFiled ==
  ASSUME Types, Filed, Handling, NEW e, Accepts(e)
  PROVE  /\ Joins(e.id, heard.order, order, heard'.order, Waiting(e), Left)
         /\ heard'.text \in [Id -> Seq(Nat)] /\ Updated(e) \in [Id -> ItemRecord] /\ FrontText \in Seq(Nat)
         /\ FiledAs(Updated(e), Waiting(e), heard'.done, heard'.text, FrontText)
         /\ \A j \in Id \ Range(Waiting(e)) : Updated(e)[j] = Fresh
         /\ \A j \in Id \ Range(heard'.order) : heard'.text[j] = <<>>
         /\ \A j \in Id \ {e.id} : heard'.text[j] = heard.text[j]
         /\ heard.done \subseteq heard'.done
<1> DEFINE i == e.id
           ho == heard.order
           ht == heard.text
           hd == heard.done
           hu == heard'.order
           hw == heard'.text
           he == heard'.done
           o == Waiting(e)
           its == Updated(e)
<1>0. /\ ho \in Seq(Id) /\ hd \in SUBSET Id /\ order \in Seq(Id)
      /\ items \in [Id -> ItemRecord] /\ ht \in [Id -> Seq(Nat)]
      /\ Lined(ho, hd, order) /\ i \in Id /\ i \notin hd
  BY DEF Types, Filed, Accepts
<1>1. /\ hu = IF i \in Range(ho) THEN ho ELSE Append(ho, i)
      /\ hw = IF HasText(e) THEN [ht EXCEPT ![i] = e.text] ELSE ht
      /\ he = IF e.kind = "completed" THEN hd \cup {i} ELSE hd
  BY DEF Accepts, Hear
<1>2. Joins(i, ho, order, hu, o, Left)
  BY <1>1 DEF Joins, Waiting, Left
<1>3. its = IF HasText(e) THEN [items EXCEPT ![i].text = e.text, ![i].done = e.kind = "completed"]
            ELSE items
  BY DEF Updated
<1>4. e.text \in Seq(Nat) /\ (HasText(e) => Task!Extends(e.text, ht[i]))
      /\ (e.kind = "completed" => HasText(e))
  BY Kinds DEF Accepts, HasText
<1> HIDE DEF i, hu, hw, he, o, its
<1>5. /\ hu \in Seq(Id) /\ o \in Seq(Id) /\ Len(o) # 0 /\ Len(order) \in Nat /\ Len(o) \in Nat
      /\ Len(order) <= Len(o) /\ \A n \in 1 .. Len(order) : o[n] = order[n]
      /\ Range(hu) = Range(ho) \cup {i} /\ Range(o) = Range(order) \cup {i}
      /\ \A n \in 1 .. Len(o) : n > Len(order) => o[n] = i /\ n = Len(order) + 1
  BY <1>0, <1>2, JoinsOrder
<1>6. hw \in [Id -> Seq(Nat)] /\ \A j \in Id : hw[j] = IF j = i /\ HasText(e) THEN e.text ELSE ht[j]
  BY <1>0, <1>1, <1>4
<1>7. ASSUME NEW j \in Id PROVE j \in he <=> j \in hd \/ (j = i /\ e.kind = "completed")
  BY <1>1
<1>8. /\ its \in [Id -> ItemRecord] /\ \A j \in Id \ {i} : its[j] = items[j]
      /\ ~HasText(e) => its[i] = items[i]
      /\ HasText(e) => its[i] = [text |-> e.text, emitted |-> items[i].emitted,
                                 done |-> e.kind = "completed"]
  <2>1. items[i] \in ItemRecord
    BY <1>0
  <2>2. CASE HasText(e)
    <3>1. its = [items EXCEPT ![i].text = e.text, ![i].done = e.kind = "completed"]
      BY <1>3, <2>2
    <3>2. its[i] = [items[i] EXCEPT !.text = e.text, !.done = e.kind = "completed"]
      BY <1>0, <3>1
    <3>3. its[i] = [text |-> e.text, emitted |-> items[i].emitted, done |-> e.kind = "completed"]
      BY <2>1, <3>2 DEF ItemRecord
    <3>4. its[i] \in ItemRecord
      BY <1>4, <2>1, <3>3 DEF ItemRecord
    <3>5. its = [items EXCEPT ![i] = its[i]]
      BY <1>0, <3>1, <3>2
    <3> HIDE DEF ItemRecord
    <3>6. its \in [Id -> ItemRecord] /\ \A j \in Id \ {i} : its[j] = items[j]
      BY <1>0, <3>4, <3>5
    <3> QED BY <2>2, <3>3, <3>6
  <2>3. CASE ~HasText(e)
    BY <1>0, <1>3, <2>3
  <2> QED BY <2>2, <2>3
<1>9. FrontText \in Seq(Nat) /\ (order # <<>> => Len(order) # 0 /\ FrontText = ht[order[1]])
      /\ (order = <<>> => FrontText = <<>> /\ Len(order) = 0)
  <2>1. order # <<>> => Len(order) # 0 /\ order[1] \in Id
    BY <1>0
  <2> QED BY <1>0, <2>1 DEF FrontText
\* The entry of an item that waits already.
<1>10. \A n \in 1 .. Len(order) :
         items[order[n]] = [text |-> ht[order[n]], emitted |-> IF n = 1 THEN Len(ht[order[n]]) ELSE 0,
                            done |-> order[n] \in hd]
  BY DEF Filed
<1>11. i \notin Range(ho) => items[i] = Fresh /\ ht[i] = <<>> /\ i \notin Range(order)
  <2>1. i \notin Range(ho) => i \notin Range(order)
    BY <1>0, InFront
  <2> QED BY <1>0, <2>1 DEF Filed
<1>12. i \in Range(ho) <=> i \in Range(order)
  BY <1>0, InFront
<1>13. ASSUME NEW n \in 1 .. Len(o)
       PROVE  its[o[n]] = [text |-> hw[o[n]], emitted |-> IF n = 1 THEN Len(FrontText) ELSE 0,
                           done |-> o[n] \in he]
  <2> DEFINE f == IF n = 1 THEN Len(FrontText) ELSE 0
  <2>0. o[n] \in Id
    BY <1>5
  <2>1. items[o[n]] = [text |-> ht[o[n]], emitted |-> f, done |-> o[n] \in hd]
    <3>1. CASE n <= Len(order)
      <4>1. n \in 1 .. Len(order) /\ o[n] = order[n]
        BY <1>5, <3>1
      <4>2. items[order[n]] = [text |-> ht[order[n]],
                               emitted |-> IF n = 1 THEN Len(ht[order[n]]) ELSE 0,
                               done |-> order[n] \in hd]
        BY <1>10, <4>1
      <4>3. f = IF n = 1 THEN Len(ht[order[n]]) ELSE 0
        <5>1. order # <<>>
          BY <1>9, <4>1
        <5> QED BY <1>9, <5>1
      <4> HIDE DEF f
      <4> QED BY <4>1, <4>2, <4>3
    <3>2. CASE n > Len(order)
      <4>1. o[n] = i /\ n = Len(order) + 1
        BY <1>5, <3>2
      <4>2. i \notin Range(order)
        <5>1. i \in Range(order) => o = order
          BY <1>2 DEF Joins
        <5> QED BY <1>5, <3>2, <5>1
      <4>3. items[i] = Fresh /\ ht[i] = <<>>
        BY <1>11, <1>12, <4>2
      <4>4. f = 0
        <5>1. n = 1 => order = <<>>
          BY <1>0, <1>5, <4>1
        <5>2. n = 1 => Len(FrontText) = 0
          BY <1>9, <5>1
        <5> QED BY <5>2
      <4> HIDE DEF f
      <4>5. (o[n] \in hd) = FALSE
        BY <1>0, <4>1
      <4>6. items[o[n]] = [text |-> <<>>, emitted |-> 0, done |-> FALSE]
        BY <4>1, <4>3 DEF Fresh
      <4>7. ht[o[n]] = <<>>
        BY <4>1, <4>3
      <4> QED BY <4>4, <4>5, <4>6, <4>7
    <3>3. n <= Len(order) \/ n > Len(order)
      BY <1>5
    <3> QED BY <3>1, <3>2, <3>3
  <2> HIDE DEF f
  <2>2. its[o[n]] = [text |-> hw[o[n]], emitted |-> f, done |-> o[n] \in he]
    <3>1. CASE o[n] # i
      <4>1. its[o[n]] = items[o[n]] /\ hw[o[n]] = ht[o[n]] /\ (o[n] \in he <=> o[n] \in hd)
        BY <1>6, <1>7, <1>8, <2>0, <3>1
      <4> QED BY <2>1, <4>1
    <3>2. CASE o[n] = i /\ HasText(e)
      <4>1. items[i].emitted = f
        BY <2>1, <3>2
      <4>2. its[i] = [text |-> e.text, emitted |-> f, done |-> e.kind = "completed"]
        BY <1>8, <3>2, <4>1
      <4>3. hw[i] = e.text /\ (i \in he <=> e.kind = "completed")
        BY <1>0, <1>6, <1>7, <3>2
      <4> QED BY <3>2, <4>2, <4>3
    <3>3. CASE o[n] = i /\ ~HasText(e)
      <4>1. its[i] = items[i] /\ hw[i] = ht[i] /\ (i \in he <=> i \in hd)
        BY <1>0, <1>4, <1>6, <1>7, <1>8, <3>3
      <4> QED BY <2>1, <3>3, <4>1
    <3> QED BY <3>1, <3>2, <3>3
  <2> QED BY <2>2 DEF f
<1>14. Task!Extends(hw[o[1]], FrontText)
  <2>0. o[1] \in Id /\ ht[o[1]] \in Seq(Nat) /\ hw[o[1]] \in Seq(Nat)
    BY <1>0, <1>5, <1>6
  <2>1. CASE order = <<>>
    BY <1>9, <2>0, <2>1, ExtendsSelf
  <2>2. CASE order # <<>>
    <3>1. o[1] = order[1] /\ FrontText = ht[o[1]]
      BY <1>5, <1>9, <2>2
    <3>2. CASE o[1] = i /\ HasText(e)
      BY <1>0, <1>4, <1>6, <3>1, <3>2
    <3>3. CASE ~(o[1] = i /\ HasText(e))
      <4>1. hw[o[1]] = ht[o[1]]
        BY <1>6, <2>0, <3>3
      <4> QED BY <2>0, <3>1, <4>1, ExtendsSelf
    <3> QED BY <3>2, <3>3
  <2> QED BY <2>1, <2>2
<1>15. FiledAs(its, o, he, hw, FrontText)
  BY <1>5, <1>13, <1>14 DEF FiledAs
<1>16. \A j \in Id \ Range(o) : its[j] = Fresh
  <2>1. \A j \in Id \ Range(order) : items[j] = Fresh
    BY DEF Filed
  <2> QED BY <1>5, <1>8, <2>1
<1>17. \A j \in Id \ Range(hu) : hw[j] = <<>>
  <2>1. \A j \in Id \ Range(ho) : ht[j] = <<>>
    BY DEF Filed
  <2> QED BY <1>5, <1>6, <2>1
<1>18. (\A j \in Id \ {i} : hw[j] = ht[j]) /\ hd \subseteq he
  BY <1>1, <1>6
<1> QED BY <1>2, <1>6, <1>8, <1>9, <1>15, <1>16, <1>17, <1>18 DEF i, hu, hw, he, o, its

-----------------------------------------------------------------------------
(* What accept makes of the text.                                          *)

\* How many of the items mentioned are shown: see InOrder.
ReachOf(ho, hd) ==
  LET unfinished == {n \in DOMAIN ho : ho[n] \notin hd}
  IN  IF unfinished = {} THEN Len(ho) ELSE Min(unfinished)

LEMMA InOrderIs == InOrder = FlattenSeq(Parts(heard.order, heard.text, ReachOf(heard.order, heard.done)))
BY DEF InOrder, Parts, ReachOf

LEMMA ReachIs ==
  ASSUME NEW ho \in Seq(Id), NEW hd, NEW ord \in Seq(Id), Lined(ho, hd, ord)
  PROVE  ReachOf(ho, hd) = (Len(ho) - Len(ord)) + (IF ord = <<>> THEN 0 ELSE 1)
<1> DEFINE u == {n \in DOMAIN ho : ho[n] \notin hd}
           m == Len(ho) - Len(ord)
<1>0. /\ Len(ho) \in Nat /\ Len(ord) \in Nat /\ m \in Nat /\ Len(ho) = m + Len(ord)
      /\ DOMAIN ho = 1 .. Len(ho) /\ (ord = <<>> <=> Len(ord) = 0)
  BY DEF Lined
<1>1. /\ \A n \in 1 .. Len(ord) : ord[n] = ho[m + n]
      /\ \A n \in 1 .. m : ho[n] \in hd
      /\ ord # <<>> => ord[1] \notin hd
  BY DEF Lined, Behind
<1>2. ReachOf(ho, hd) = IF u = {} THEN Len(ho) ELSE Min(u)
  BY DEF ReachOf
<1>3. u \in SUBSET Nat /\ \A n \in u : n \in 1 .. Len(ho) /\ ho[n] \notin hd
  BY <1>0
<1>4. \A n \in 1 .. Len(ho) : ho[n] \notin hd => n \in u
  BY <1>0
<1> HIDE DEF u, m
<1>5. CASE ord = <<>>
  <2>1. Len(ho) = m
    BY <1>0, <1>5
  <2>2. u = {}
    BY <1>1, <1>3, <2>1
  <2> QED BY <1>0, <1>2, <1>5, <2>1, <2>2 DEF m
<1>6. CASE ord # <<>>
  <2>1. m + 1 \in 1 .. Len(ho) /\ 1 \in 1 .. Len(ord)
    BY <1>0, <1>6
  <2>2. m + 1 \in u
    BY <1>1, <1>4, <1>6, <2>1
  <2>3. Min(u) \in u /\ \A x \in u : Min(u) <= x
    BY <1>3, <2>2, MinOf
  <2>4. \A n \in u : m + 1 <= n
    <3> TAKE n \in u
    <3>1. n \in Nat /\ n \notin 1 .. m /\ n >= 1
      BY <1>1, <1>3
    <3> QED BY <1>0, <3>1
  <2>5. Min(u) = m + 1
    <3> DEFINE q == Min(u)
    <3>1. q \in Nat /\ q <= m + 1 /\ m + 1 <= q
      BY <1>3, <2>2, <2>3, <2>4
    <3> HIDE DEF q
    <3>2. q = m + 1
      BY <1>0, <3>1
    <3> QED BY <3>2 DEF q
  <2> QED BY <1>2, <1>6, <2>2, <2>5 DEF m
<1> QED BY <1>5, <1>6

\* The text of the items that are shown.
Reached(ho, hd, ht) == FlattenSeq(Parts(ho, ht, ReachOf(ho, hd)))

\* Concatenation, by its laws alone.
Cat(a, x) == a \o x

LEMMA CatLaws ==
  ASSUME NEW a, NEW x, NEW c, a \in Seq(Letters), x \in Seq(Letters), c \in Seq(Letters)
  PROVE  /\ Cat(Cat(a, x), c) = Cat(a, Cat(x, c)) /\ Cat(a, x) \in Seq(Letters)
         /\ Cat(a, <<>>) = a
BY ConcatAssociative, ConcatEmptySeq DEF Cat

\* How many entries ho has more than ord.
Gap(m, ho, ord) == m = Len(ho) - Len(ord)

Emptied(ord) == ord = <<>>

\* The text up to now: the items in front, and the part of the next one.
LEMMA UpToNow ==
  ASSUME NEW ho, NEW hd, NEW ord, NEW ht, NEW m, ho \in Seq(Id), ord \in Seq(Id),
         ht \in [Id -> Seq(Nat)], Lined(ho, hd, ord), Gap(m, ho, ord)
  PROVE  /\ ord # <<>> => Reached(ho, hd, ht) =
                            Cat(FlattenSeq(Parts(ho, ht, m)), Spell(ord[1], ht[ord[1]]))
         /\ Emptied(ord) => Reached(ho, hd, ht) = FlattenSeq(Parts(ho, ht, m))
         /\ FlattenSeq(Parts(ho, ht, m)) \in Seq(Letters)
<1>0. /\ Len(ho) \in Nat /\ Len(ord) \in Nat /\ m \in Nat /\ Len(ho) = m + Len(ord)
      /\ (ord = <<>> <=> Len(ord) = 0) /\ m \in 0 .. Len(ho)
  BY DEF Lined, Gap
<1>1. ReachOf(ho, hd) = m + (IF ord = <<>> THEN 0 ELSE 1)
  BY ReachIs DEF Gap
<1>2. CASE ord = <<>>
  <2>1. ReachOf(ho, hd) = m
    BY <1>0, <1>1, <1>2
  <2>2. FlattenSeq(Parts(ho, ht, m)) \in Seq(Letters)
    <3>1. Parts(ho, ht, m) \in Seq(Seq(Letters)) /\ Len(Parts(ho, ht, m)) = m
      BY <1>0, PartsTyped
    <3>2. PICK h : /\ FlattenSeq(Parts(ho, ht, m)) = h[m]
                   /\ \A n \in 0 .. m : h[n] \in Seq(Letters)
      BY <3>1, FlatJoins
    <3> QED BY <1>0, <3>2
  <2> QED BY <1>2, <2>1, <2>2 DEF Reached, Emptied
<1>3. CASE ord # <<>>
  <2>1. ReachOf(ho, hd) = m + 1 /\ m < Len(ho)
    BY <1>0, <1>1, <1>3
  <2>2. ho[m + 1] = ord[1]
    <3>1. 1 \in 1 .. Len(ord)
      BY <1>0, <1>3
    <3> QED BY <3>1 DEF Lined, Behind, Gap
  <2>3. FlattenSeq(Parts(ho, ht, m + 1)) =
          Cat(FlattenSeq(Parts(ho, ht, m)), Spell(ho[m + 1], ht[ho[m + 1]]))
    BY <1>0, <2>1, PartsNext DEF Cat
  <2>4. FlattenSeq(Parts(ho, ht, m)) \in Seq(Letters)
    BY <1>0, <2>1, PartsNext
  <2> QED BY <1>3, <2>1, <2>2, <2>3, <2>4 DEF Reached, Emptied
<1> QED BY <1>2, <1>3

\* The text of the front item that was shown.
Fronts(s, ord, ht) == s = IF ord = <<>> THEN <<>> ELSE ht[ord[1]]

Alike(hw, ht, i) == \A j \in Id \ {i} : hw[j] = ht[j]

LEMMA RestsLen ==
  ASSUME NEW o \in Seq(Id), NEW l \in 0 .. Len(o), NEW od, Rests(od, o, l)
  PROVE  /\ od \in Seq(Id) /\ Len(od) = Len(o) - l /\ (od = <<>> <=> l = Len(o))
         /\ \A n \in 1 .. Len(od) : od[n] = o[l + n]
<1>1. od = SubSeq(o, l + 1, Len(o))
  BY DEF Rests
<1>2. od \in Seq(Id) /\ Len(od) = Len(o) - l /\ \A n \in 1 .. Len(o) - l : od[n] = o[l + n]
  BY <1>1, RestOf
<1>3. od = <<>> <=> Len(od) = 0
  BY <1>2
<1> QED BY <1>2, <1>3

Leader(f, ord) == ord # <<>> => f = ord[1]

\* The text so far ends with what was shown of the front item.
LEMMA TextBefore ==
  ASSUME NEW ho, NEW hd, NEW ord, NEW ht, NEW m, NEW s, NEW f, ho \in Seq(Id), ord \in Seq(Id),
         ht \in [Id -> Seq(Nat)], Lined(ho, hd, ord), Gap(m, ho, ord), Fronts(s, ord, ht),
         Leader(f, ord)
  PROVE  Reached(ho, hd, ht) = Cat(FlattenSeq(Parts(ho, ht, m)), Spell(f, s))
<1>1. CASE ord # <<>>
  <2>1. f = ord[1] /\ s = ht[ord[1]]
    BY <1>1 DEF Fronts, Leader
  <2>2. Reached(ho, hd, ht) = Cat(FlattenSeq(Parts(ho, ht, m)), Spell(ord[1], ht[ord[1]]))
    BY <1>1, UpToNow, SMTT(30)
  <2> QED BY <2>1, <2>2
<1>2. CASE ord = <<>>
  <2>1. s = <<>>
    BY <1>2 DEF Fronts
  <2>2. Spell(f, s) = <<>>
    BY <2>1 DEF Spell
  <2>0. Emptied(ord)
    BY <1>2 DEF Emptied
  <2>3. Reached(ho, hd, ht) = FlattenSeq(Parts(ho, ht, m))
    BY <2>0, UpToNow
  <2>4. FlattenSeq(Parts(ho, ht, m)) \in Seq(Letters)
    BY UpToNow
  <2>5. Cat(FlattenSeq(Parts(ho, ht, m)), <<>>) = FlattenSeq(Parts(ho, ht, m))
    BY <2>4, CatLaws
  <2> QED BY <2>2, <2>3, <2>5
<1> QED BY <1>1, <1>2

\* How far the text reaches, with what is left of the order.
LEMMA ReachesOn ==
  ASSUME NEW hu, NEW he, NEW od, NEW o, NEW its, NEW m, hu \in Seq(Id), o \in Seq(Id), m \in Nat,
         Behind(hu, o, m), Rests(od, o, Leading(its, o)), Lined(hu, he, od)
  PROVE  ReachOf(hu, he) = m + Reach(its, o) /\ Reach(its, o) \in 0 .. Len(o)
<1>1. PICK l \in 0 .. Len(o) : l = Leading(its, o)
  BY Leads
<1>2. /\ Reach(its, o) = (IF l < Len(o) THEN l + 1 ELSE l) /\ Reach(its, o) \in 0 .. Len(o)
  BY <1>1, Leads
<1>3. Rests(od, o, l)
  BY <1>1
<1>4. od \in Seq(Id) /\ Len(od) = Len(o) - l /\ (od = <<>> <=> l = Len(o))
  BY <1>3, RestsLen
<1>5. ReachOf(hu, he) = (Len(hu) - Len(od)) + (IF od = <<>> THEN 0 ELSE 1)
  BY <1>4, ReachIs
<1> DEFINE r == Reach(its, o)
           q == ReachOf(hu, he)
           lu == Len(hu)
           lo == Len(o)
           ld == Len(od)
<1>6. /\ lo \in Nat /\ l \in 0 .. lo /\ lu = m + lo /\ ld = lo - l
      /\ q = (lu - ld) + (IF l = lo THEN 0 ELSE 1) /\ r = IF l < lo THEN l + 1 ELSE l
  BY <1>2, <1>4, <1>5 DEF Behind
<1> HIDE DEF r, q, lu, lo, ld
<1>7. q = m + r
  BY <1>6
<1> QED BY <1>2, <1>7 DEF q, r

LEMMA TextAfter ==
  ASSUME NEW hu, NEW he, NEW od, NEW o, NEW its, NEW m, NEW hw, NEW s, hu \in Seq(Id),
         o \in Seq(Id), m \in Nat, hw \in [Id -> Seq(Nat)], s \in Seq(Nat),
         FiledAs(its, o, he, hw, s), Behind(hu, o, m), Rests(od, o, Leading(its, o)),
         Lined(hu, he, od)
  PROVE  /\ Reached(hu, he, hw) = Cat(FlattenSeq(Parts(hu, hw, m)), Cat(Spell(o[1], s), Shown(its, o)))
         /\ FlattenSeq(Parts(hu, hw, m)) \in Seq(Letters) /\ Shown(its, o) \in Seq(Letters)
         /\ Spell(o[1], s) \in Seq(Letters)
<1>2. PICK r \in 0 .. Len(o) : r = Reach(its, o) /\ ReachOf(hu, he) = m + r
  BY ReachesOn, ZenonT(30)
<1>3. /\ FlattenSeq(Parts(hu, hw, m + r)) =
           Cat(FlattenSeq(Parts(hu, hw, m)), FlattenSeq(Parts(o, hw, r)))
      /\ FlattenSeq(Parts(hu, hw, m)) \in Seq(Letters)
  <2>1. /\ FlattenSeq(Parts(hu, hw, m + r)) =
             FlattenSeq(Parts(hu, hw, m)) \o FlattenSeq(Parts(o, hw, r))
        /\ FlattenSeq(Parts(hu, hw, m)) \in Seq(Letters)
    BY PartsBehind
  <2> QED BY <2>1 DEF Cat
<1>4. FlattenSeq(Parts(o, hw, r)) = Cat(Spell(o[1], s), Shown(its, o)) /\ Shown(its, o) \in Seq(Letters)
  BY <1>2, ShowsOn DEF Cat
<1>5. Spell(o[1], s) \in Seq(Letters)
  <2>1. Len(o) # 0
    BY DEF FiledAs
  <2>2. o[1] \in Id
    BY <2>1
  <2> QED BY <2>2, SpellTyped
<1> QED BY <1>2, <1>3, <1>4, <1>5 DEF Reached

Ahead(hu, ho, i, m) == \A n \in 1 .. m : hu[n] = ho[n] /\ ho[n] # i

\* Accept adds to the text what keeps it in order.
LEMMA WritesOn ==
  ASSUME NEW ho, NEW hd, NEW ord, NEW ht, NEW i, NEW hu, NEW o, NEW m, NEW he, NEW hw, NEW s,
         NEW its, NEW od, ho \in Seq(Id), ord \in Seq(Id), ht \in [Id -> Seq(Nat)],
         Lined(ho, hd, ord), i \in Id, i \notin hd, Joins(i, ho, ord, hu, o, m),
         hw \in [Id -> Seq(Nat)], s \in Seq(Nat), Fronts(s, ord, ht), FiledAs(its, o, he, hw, s),
         Alike(hw, ht, i), Rests(od, o, Leading(its, o)), Lined(hu, he, od)
  PROVE  /\ Reached(hu, he, hw) = Cat(Reached(ho, hd, ht), Shown(its, o))
         /\ Reached(ho, hd, ht) \in Seq(Letters) /\ Shown(its, o) \in Seq(Letters)
<1>1. /\ hu \in Seq(Id) /\ o \in Seq(Id) /\ m \in Nat /\ Behind(hu, o, m)
      /\ \A n \in 1 .. m : hu[n] = ho[n] /\ ho[n] \in hd
      /\ Len(ord) <= Len(o) /\ \A n \in 1 .. Len(ord) : o[n] = ord[n]
  <2>1. hu \in Seq(Id) /\ o \in Seq(Id) /\ m \in Nat /\ Behind(hu, o, m)
    BY JoinsOrder
  <2>2. \A n \in 1 .. m : hu[n] = ho[n] /\ ho[n] \in hd
    BY JoinsOrder
  <2>3. Len(ord) <= Len(o) /\ \A n \in 1 .. Len(ord) : o[n] = ord[n]
    BY JoinsOrder
  <2> QED BY <2>1, <2>2, <2>3
<1>2. m = Len(ho) - Len(ord) /\ m \in Nat /\ m <= Len(ho)
  <2>1. m = Len(ho) - Len(ord) /\ Len(ho) \in Nat /\ Len(ord) \in Nat
    BY DEF Joins
  <2> QED BY <1>1, <2>1
<1>3. Leader(o[1], ord) /\ Gap(m, ho, ord)
  <2>1. ord # <<>> => 1 \in 1 .. Len(ord)
    OBVIOUS
  <2> QED BY <1>1, <1>2, <2>1 DEF Leader, Gap
<1>4. Reached(ho, hd, ht) = Cat(FlattenSeq(Parts(ho, ht, m)), Spell(o[1], s))
  BY <1>3, TextBefore
<1>5. Parts(hu, hw, m) = Parts(ho, ht, m)
  <2>1. Ahead(hu, ho, i, m)
    BY <1>1 DEF Ahead
  <2>2. m \in Nat /\ m <= Len(ho)
    BY <1>2
  <2>3. ASSUME NEW n \in 1 .. m PROVE hu[n] = ho[n] /\ hw[hu[n]] = ht[hu[n]]
    <3>1. n \in 1 .. Len(ho)
      BY <2>2
    <3>2. hu[n] = ho[n] /\ ho[n] \in Id \ {i}
      BY <2>1, <3>1 DEF Ahead
    <3> QED BY <3>2 DEF Alike
  <2> QED BY <2>3 DEF Parts
<1>6. /\ Reached(hu, he, hw) = Cat(FlattenSeq(Parts(hu, hw, m)), Cat(Spell(o[1], s), Shown(its, o)))
      /\ FlattenSeq(Parts(hu, hw, m)) \in Seq(Letters) /\ Shown(its, o) \in Seq(Letters)
      /\ Spell(o[1], s) \in Seq(Letters)
  BY <1>1, TextAfter
<1> DEFINE a == FlattenSeq(Parts(ho, ht, m))
<1>7. a \in Seq(Letters) /\ Reached(hu, he, hw) = Cat(a, Cat(Spell(o[1], s), Shown(its, o)))
  BY <1>5, <1>6
<1>8. Reached(ho, hd, ht) = Cat(a, Spell(o[1], s))
  BY <1>4
<1> HIDE DEF a
<1> QED BY <1>6, <1>7, <1>8, CatLaws

LEMMA AcceptWrites ==
  ASSUME Types, Filed, Handling, NEW e, Accepts(e),
         Lined(heard'.order, heard'.done, order'),
         Rests(order', Waiting(e), Leading(Updated(e), Waiting(e)))
  PROVE  /\ InOrder' = Cat(InOrder, Shown(Updated(e), Waiting(e)))
         /\ InOrder \in Seq(Letters) /\ Shown(Updated(e), Waiting(e)) \in Seq(Letters)
<1>0. /\ heard.order \in Seq(Id) /\ order \in Seq(Id) /\ heard.text \in [Id -> Seq(Nat)]
      /\ Lined(heard.order, heard.done, order) /\ e.id \in Id /\ e.id \notin heard.done
  BY DEF Types, Filed, Accepts
<1>1. /\ Joins(e.id, heard.order, order, heard'.order, Waiting(e), Left)
      /\ heard'.text \in [Id -> Seq(Nat)] /\ FrontText \in Seq(Nat)
      /\ FiledAs(Updated(e), Waiting(e), heard'.done, heard'.text, FrontText)
      /\ \A j \in Id \ {e.id} : heard'.text[j] = heard.text[j]
  BY WaitingFiled
<1>2. heard'.order \in Seq(Id) /\ Waiting(e) \in Seq(Id) /\ Left \in Nat
  BY <1>0, <1>1, JoinsOrder, SMTT(30)
<1>3. Fronts(FrontText, order, heard.text)
  BY DEF Fronts, FrontText
<1>4. Alike(heard'.text, heard.text, e.id)
  BY <1>1 DEF Alike
<1>5. InOrder = Reached(heard.order, heard.done, heard.text)
  BY InOrderIs DEF Reached
<1>6. InOrder' = Reached(heard'.order, heard'.done, heard'.text)
  BY DEF InOrder, Parts, ReachOf, Reached
<1>7. PICK hu, hw, he, o, its, m, od :
        /\ hu = heard'.order /\ hw = heard'.text /\ he = heard'.done /\ o = Waiting(e)
        /\ its = Updated(e) /\ m = Left /\ od = order'
  OBVIOUS
<1>8. /\ Joins(e.id, heard.order, order, hu, o, m) /\ hw \in [Id -> Seq(Nat)]
      /\ FiledAs(its, o, he, hw, FrontText) /\ Alike(hw, heard.text, e.id)
      /\ Rests(od, o, Leading(its, o)) /\ Lined(hu, he, od)
  BY <1>1, <1>4, <1>7
<1>9. /\ Reached(hu, he, hw) = Cat(Reached(heard.order, heard.done, heard.text), Shown(its, o))
      /\ Reached(heard.order, heard.done, heard.text) \in Seq(Letters) /\ Shown(its, o) \in Seq(Letters)
  BY <1>0, <1>1, <1>3, <1>8, WritesOn
<1> QED BY <1>5, <1>6, <1>7, <1>9

-----------------------------------------------------------------------------
(* What accept makes of the count.                                         *)

Lengths(its, ord) == [n \in DOMAIN ord |-> Len(its[ord[n]].text)]

LEMMA LengthsTyped ==
  ASSUME NEW its, NEW ord, its \in [Id -> ItemRecord], ord \in Seq(Id)
  PROVE  /\ Lengths(its, ord) \in Seq(Nat) /\ Len(Lengths(its, ord)) = Len(ord)
         /\ \A n \in 1 .. Len(ord) : Lengths(its, ord)[n] = Len(its[ord[n]].text)
         /\ \A j \in Id : Len(its[j].text) \in Nat
<1>1. ASSUME NEW j \in Id PROVE Len(its[j].text) \in Nat
  <2>1. its[j] \in ItemRecord
    OBVIOUS
  <2>2. its[j].text \in Seq(Nat)
    BY <2>1 DEF ItemRecord
  <2> QED BY <2>2
<1>2. DOMAIN ord = 1 .. Len(ord) /\ Len(ord) \in Nat /\ \A n \in 1 .. Len(ord) : ord[n] \in Id
  OBVIOUS
<1>3. Lengths(its, ord) = [n \in 1 .. Len(ord) |-> Len(its[ord[n]].text)]
  BY <1>2 DEF Lengths
<1>4. \A n \in 1 .. Len(ord) : Len(its[ord[n]].text) \in Nat
  BY <1>1, <1>2
<1> DEFINE g(n) == Len(its[ord[n]].text)
           w == [n \in 1 .. Len(ord) |-> g(n)]
<1>5. w = Lengths(its, ord)
  BY <1>3
<1>6. \A n \in 1 .. Len(ord) : g(n) \in Nat
  BY <1>4
<1>7. \A n \in 1 .. Len(ord) : g(n) = Len(its[ord[n]].text)
  OBVIOUS
<1> HIDE DEF g
<1>8. w \in Seq(Nat) /\ Len(w) = Len(ord) /\ \A n \in 1 .. Len(ord) : w[n] = g(n)
  BY <1>2, <1>6
<1> HIDE DEF w
<1> QED BY <1>1, <1>5, <1>7, <1>8

\* The item i joins the order, if it is not in it, and changes.
Enters(i, ord, o, old, new) ==
  /\ o = IF i \in Range(ord) THEN ord ELSE Append(ord, i)
  /\ \A j \in Id \ {i} : new[j] = old[j]
  /\ i \notin Range(ord) => Len(old[i].text) = 0

LEMMA CountOn ==
  ASSUME NEW ord, NEW i, NEW o, NEW old, NEW new, ord \in Seq(Id), Once(ord), i \in Id,
         o \in Seq(Id), old \in [Id -> ItemRecord], new \in [Id -> ItemRecord],
         Enters(i, ord, o, old, new)
  PROVE  Total(Lengths(new, o)) =
           (Total(Lengths(old, ord)) + Len(new[i].text)) - Len(old[i].text)
<1> DEFINE a == Lengths(old, ord)
           b == Lengths(new, o)
           x == Len(old[i].text)
           y == Len(new[i].text)
<1>1. /\ a \in Seq(Nat) /\ Len(a) = Len(ord) /\ Len(ord) \in Nat
      /\ \A n \in 1 .. Len(ord) : a[n] = Len(old[ord[n]].text)
  BY LengthsTyped
<1>2. /\ b \in Seq(Nat) /\ Len(b) = Len(o) /\ \A n \in 1 .. Len(o) : b[n] = Len(new[o[n]].text)
  BY LengthsTyped
<1>3. x \in Nat /\ y \in Nat
  BY LengthsTyped
<1>4. /\ DOMAIN ord = 1 .. Len(ord) /\ \A n \in 1 .. Len(ord) : ord[n] \in Id
      /\ \A n, k \in 1 .. Len(ord) : ord[n] = ord[k] => n = k
  BY DEF Once
<1>5. \A j \in Id \ {i} : Len(new[j].text) = Len(old[j].text)
  BY DEF Enters
<1>6. i \notin Range(ord) => x = 0
  BY DEF Enters
<1>7. o = IF i \in Range(ord) THEN ord ELSE Append(ord, i)
  BY DEF Enters
<1>8. x = Len(old[i].text) /\ y = Len(new[i].text)
  OBVIOUS
<1> HIDE DEF a, b, x, y
<1>9. CASE i \in Range(ord)
  <2>1. o = ord
    BY <1>7, <1>9
  <2>2. PICK k \in 1 .. Len(ord) : ord[k] = i
    BY <1>4, <1>9 DEF Range
  <2>3. \A n \in 1 .. Len(a) : b[n] = IF n = k THEN a[n] + (y - x) ELSE a[n]
    <3> TAKE n \in 1 .. Len(a)
    <3>0. n \in 1 .. Len(ord)
      BY <1>1
    <3>1. CASE n = k
      <4>1. a[n] = x /\ b[n] = y
        BY <1>1, <1>2, <1>8, <2>1, <2>2, <3>0, <3>1
      <4> QED BY <1>3, <3>1, <4>1
    <3>2. CASE n # k
      <4>1. ord[n] \in Id \ {i}
        BY <1>4, <2>2, <3>0, <3>2
      <4>2. b[n] = a[n]
        BY <1>1, <1>2, <1>5, <2>1, <3>0, <4>1
      <4> QED BY <3>2, <4>2
    <3> QED BY <3>1, <3>2
  <2>4. k \in Nat /\ y - x \in Int /\ Len(b) = Len(a) /\ k \in 1 .. Len(a)
    BY <1>1, <1>2, <1>3, <2>1
  <2>5. Total(a) \in Nat /\ Total(b) = Total(a) + (y - x)
    <3>1. Shift(b, a, k, y - x)
      BY <2>3, <2>4 DEF Shift
    <3> QED BY <1>1, <1>2, <2>4, <3>1, TotalShift
  <2> DEFINE ta == Total(a)
             tb == Total(b)
  <2>6. ta \in Nat /\ tb = ta + (y - x)
    BY <2>5
  <2> HIDE DEF ta, tb
  <2>7. tb = (ta + y) - x
    BY <1>3, <2>6
  <2> QED BY <2>7 DEF ta, tb, a, b, x, y
<1>10. CASE i \notin Range(ord)
  <2>1. /\ o = Append(ord, i) /\ Len(o) = Len(ord) + 1 /\ o[Len(ord) + 1] = i
        /\ \A n \in 1 .. Len(ord) : o[n] = ord[n]
    BY <1>7, <1>10
  <2> DEFINE l == Len(ord)
  <2>2. /\ l \in Nat /\ Len(b) = l + 1 /\ Len(a) = l /\ b[l + 1] = y
        /\ \A n \in 1 .. l : b[n] = a[n]
    <3>1. ASSUME NEW n \in 1 .. l PROVE b[n] = a[n]
      <4>1. ord[n] \in Id \ {i}
        BY <1>4, <1>10 DEF Range
      <4>2. n \in 1 .. Len(o) /\ o[n] = ord[n]
        BY <1>1, <2>1
      <4> QED BY <1>1, <1>2, <1>5, <4>1, <4>2
    <3>2. b[l + 1] = y
      <4>1. l + 1 \in 1 .. Len(o)
        BY <1>1, <2>1
      <4> QED BY <1>2, <1>8, <2>1, <4>1
    <3> QED BY <1>1, <1>2, <2>1, <3>1, <3>2
  <2> HIDE DEF l
  <2>3. SubSeq(b, 1, l) = a
    <3> DEFINE w == SubSeq(b, 1, l)
    <3>1. w \in Seq(Nat) /\ Len(w) = l /\ \A n \in 1 .. l : w[n] = b[n]
      BY <1>2, <2>2
    <3> HIDE DEF w
    <3>2. w = a
      BY <1>1, <2>2, <3>1, SeqEqual
    <3> QED BY <3>2 DEF w
  <2>4. SubSeq(b, l + 1, Len(b)) = <<y>>
    <3> DEFINE w == SubSeq(b, l + 1, Len(b))
               v == <<y>>
    <3>1. w \in Seq(Nat) /\ Len(w) = 1 /\ w[1] = y
      BY <1>2, <2>2
    <3>2. v \in Seq(Nat) /\ Len(v) = 1 /\ v[1] = y
      BY <1>3
    <3> HIDE DEF w, v
    <3>3. \A n \in 1 .. Len(w) : w[n] = v[n]
      BY <3>1, <3>2
    <3>4. w = v
      BY <3>1, <3>2, <3>3, SeqEqual
    <3> QED BY <3>4 DEF w, v
  <2>5. Total(b) = Total(a) + Total(<<y>>) /\ Total(a) \in Nat
    <3>1. l \in 0 .. Len(b)
      BY <2>2
    <3> QED BY <1>2, <2>3, <2>4, <3>1, TotalSplit
  <2>6. Total(<<y>>) = y
    BY <1>3, TotalOne
  <2> DEFINE ta == Total(a)
             tb == Total(b)
  <2>7. ta \in Nat /\ tb = ta + y /\ x = 0
    BY <1>6, <1>10, <2>5, <2>6
  <2> HIDE DEF ta, tb
  <2>8. tb = (ta + y) - x
    BY <1>3, <2>7
  <2> QED BY <2>8 DEF ta, tb, a, b, x, y
<1> QED BY <1>9, <1>10

TextsKept(its2, od, its) == \A n \in 1 .. Len(od) : its2[od[n]].text = its[od[n]].text

\* What the items that leave free.
LEMMA CountFreed ==
  ASSUME NEW its, NEW o, NEW its2, NEW od, NEW l, its \in [Id -> ItemRecord], o \in Seq(Id),
         its2 \in [Id -> ItemRecord], l = Leading(its, o), Rests(od, o, l),
         TextsKept(its2, od, its)
  PROVE  Total(Lengths(its2, od)) = Total(Lengths(its, o)) - Freed(its, o)
<1> DEFINE a == Lengths(its, o)
           b == Lengths(its2, od)
           f == [n \in 1 .. Leading(its, o) |-> Len(its[o[n]].text)]
<1>0. l \in 0 .. Len(o) /\ l \in Nat /\ Len(o) \in Nat
  BY Leads
<1>1. od \in Seq(Id) /\ Len(od) = Len(o) - l /\ \A n \in 1 .. Len(od) : od[n] = o[l + n]
  BY <1>0, RestsLen
<1>2. a \in Seq(Nat) /\ Len(a) = Len(o) /\ \A n \in 1 .. Len(o) : a[n] = Len(its[o[n]].text)
  BY LengthsTyped
<1>3. b \in Seq(Nat) /\ Len(b) = Len(od) /\ \A n \in 1 .. Len(od) : b[n] = Len(its2[od[n]].text)
  BY <1>1, LengthsTyped
<1>4. \A n \in 1 .. Len(od) : b[n] = a[l + n]
  <2> TAKE n \in 1 .. Len(od)
  <2>1. l + n \in 1 .. Len(o) /\ od[n] = o[l + n]
    BY <1>0, <1>1
  <2>2. b[n] = Len(its[od[n]].text)
    BY <1>3 DEF TextsKept
  <2>3. a[l + n] = Len(its[o[l + n]].text)
    BY <1>2, <2>1
  <2> QED BY <2>1, <2>2, <2>3
<1>5. DOMAIN f = 1 .. l /\ \A n \in 1 .. l : f[n] = a[n]
  <2>1. \A n \in 1 .. l : n \in 1 .. Len(o)
    BY <1>0
  <2> QED BY <1>2, <2>1
<1>6. f \in Seq(Nat) /\ Len(f) = l
  <2>1. \A n \in 1 .. l : f[n] \in Nat
    <3>1. \A n \in 1 .. l : n \in 1 .. Len(a)
      BY <1>0, <1>2
    <3>2. \A n \in 1 .. Len(a) : a[n] \in Nat
      BY <1>2
    <3> QED BY <1>5, <3>1, <3>2
  <2>2. f = [n \in 1 .. l |-> f[n]]
    OBVIOUS
  <2> HIDE DEF f
  <2> QED BY <1>0, <2>1, <2>2
<1>7. Freed(its, o) = Total(f)
  BY DEF Freed
<1> HIDE DEF a, b, f
<1>8. SubSeq(a, 1, l) = f
  <2> DEFINE w == SubSeq(a, 1, l)
  <2>1. w \in Seq(Nat) /\ Len(w) = l /\ \A n \in 1 .. l : w[n] = a[n]
    BY <1>0, <1>2
  <2> HIDE DEF w
  <2>2. w = f
    BY <1>5, <1>6, <2>1, SeqEqual
  <2> QED BY <2>2 DEF w
<1>9. SubSeq(a, l + 1, Len(a)) = b
  <2> DEFINE w == SubSeq(a, l + 1, Len(a))
  <2>1. w \in Seq(Nat) /\ Len(w) = Len(a) - l /\ \A n \in 1 .. Len(a) - l : w[n] = a[l + n]
    BY <1>0, <1>2, RestOf, SMTT(30)
  <2>2. Len(w) = Len(b) /\ \A n \in 1 .. Len(b) : w[n] = b[n]
    BY <1>0, <1>1, <1>2, <1>3, <1>4, <2>1
  <2> HIDE DEF w
  <2>3. w = b
    BY <1>3, <2>1, <2>2, SeqEqual
  <2> QED BY <2>3 DEF w
<1>10. Total(a) = Total(f) + Total(b) /\ Total(f) \in Nat /\ Total(b) \in Nat
  <2>1. l \in 0 .. Len(a)
    BY <1>0, <1>2
  <2> QED BY <1>2, <1>8, <1>9, <2>1, TotalSplit
<1> DEFINE ta == Total(a)
           tb == Total(b)
           tf == Total(f)
<1>11. ta = tf + tb /\ tf \in Nat /\ tb \in Nat
  BY <1>10
<1> HIDE DEF ta, tb, tf
<1>12. tb = ta - tf
  BY <1>11
<1> QED BY <1>7, <1>12 DEF ta, tb, tf, a, b

-----------------------------------------------------------------------------
(* What accept makes of the items and the order.                           *)

\* The items that were waiting are lined up; the first l of them leave.
LEMMA LinedOn ==
  ASSUME NEW hu, NEW hd, NEW he, NEW o, NEW od, NEW l, NEW m, hu \in Seq(Id), o \in Seq(Id),
         Behind(hu, o, m), Once(hu), Rests(od, o, l), l \in 0 .. Len(o), m \in Nat,
         \A n \in 1 .. m : hu[n] \in he,
         \A n \in 1 .. l : o[n] \in he,
         od # <<>> => od[1] \notin he
  PROVE  Lined(hu, he, od)
<1>0. Len(o) \in Nat /\ Len(hu) = m + Len(o) /\ \A n \in 1 .. Len(o) : o[n] = hu[m + n]
  BY DEF Behind
<1>1. od \in Seq(Id) /\ Len(od) = Len(o) - l /\ \A n \in 1 .. Len(od) : od[n] = o[l + n]
  BY RestsLen
<1>2. Len(hu) - Len(od) = m + l /\ Len(od) <= Len(hu) /\ Len(hu) = (m + l) + Len(od)
  BY <1>0, <1>1
<1>3. \A n \in 1 .. Len(od) : od[n] = hu[(m + l) + n]
  <2> TAKE n \in 1 .. Len(od)
  <2>1. l + n \in 1 .. Len(o) /\ m + (l + n) = (m + l) + n
    BY <1>0, <1>1
  <2>2. od[n] = o[l + n] /\ o[l + n] = hu[m + (l + n)]
    BY <1>0, <1>1, <2>1
  <2> QED BY <2>1, <2>2
<1>4. \A n \in 1 .. m + l : hu[n] \in he
  <2> TAKE n \in 1 .. m + l
  <2>1. CASE n <= m
    BY <2>1
  <2>2. CASE n > m
    <3>1. n - m \in 1 .. l /\ n - m \in 1 .. Len(o) /\ m + (n - m) = n
      BY <1>0, <2>2
    <3>2. hu[n] = o[n - m]
      BY <1>0, <3>1
    <3> QED BY <3>1, <3>2
  <2>3. n <= m \/ n > m
    OBVIOUS
  <2> QED BY <2>1, <2>2, <2>3
<1>5. Behind(hu, od, m + l)
  BY <1>2, <1>3 DEF Behind
<1> QED BY <1>2, <1>4, <1>5 DEF Lined

LEMMA BufferedIs ==
  ASSUME NEW e, e.id \in Id, e.text \in Seq(Nat), items \in [Id -> ItemRecord], buffered \in Int
  PROVE  Buffered(e) = (buffered + Len(Updated(e)[e.id].text)) - Len(items[e.id].text)
<1>0. Len(items[e.id].text) \in Nat
  <2>1. items[e.id] \in ItemRecord
    OBVIOUS
  <2>2. items[e.id].text \in Seq(Nat)
    BY <2>1 DEF ItemRecord
  <2> QED BY <2>2
<1>1. CASE HasText(e)
  <2>1. Updated(e)[e.id].text = e.text
    <3>1. Updated(e) = [items EXCEPT ![e.id].text = e.text, ![e.id].done = e.kind = "completed"]
      BY <1>1 DEF Updated
    <3>2. Updated(e)[e.id] = [items[e.id] EXCEPT !.text = e.text, !.done = e.kind = "completed"]
      BY <3>1
    <3>3. items[e.id] \in ItemRecord
      OBVIOUS
    <3> QED BY <3>2, <3>3 DEF ItemRecord
  <2>2. Buffered(e) = buffered + Len(e.text) - Len(items[e.id].text)
    BY <1>1 DEF Buffered
  <2> QED BY <2>1, <2>2
<1>2. CASE ~HasText(e)
  <2>1. Updated(e) = items /\ Buffered(e) = buffered
    BY <1>2 DEF Updated, Buffered
  <2> QED BY <1>0, <2>1
<1> QED BY <1>1, <1>2

\* The items that are kept keep their texts.
LEMMA KeptTexts ==
  ASSUME NEW its, NEW o, NEW hw, NEW he, NEW s, NEW k, NEW od, NEW l, o \in Seq(Id),
         FiledAs(its, o, he, hw, s), KeptAs(k, od, hw, he), l \in 0 .. Len(o), Rests(od, o, l)
  PROVE  k \in [Id -> ItemRecord] /\ TextsKept(k, od, its)
<1>0. Len(od) = Len(o) - l /\ Len(o) \in Nat /\ \A n \in 1 .. Len(od) : od[n] = o[l + n]
  BY RestsLen
<1>1. ASSUME NEW n \in 1 .. Len(od) PROVE k[od[n]].text = its[od[n]].text
  <2>1. l + n \in 1 .. Len(o) /\ od[n] = o[l + n]
    BY <1>0
  <2>2. k[od[n]].text = hw[od[n]]
    <3>1. k[od[n]] = [text |-> hw[od[n]], emitted |-> IF n = 1 THEN Len(hw[od[n]]) ELSE 0,
                      done |-> od[n] \in he]
      BY DEF KeptAs
    <3> QED BY <3>1
  <2>3. \A j \in 1 .. Len(o) : its[o[j]].text = hw[o[j]]
    <3> TAKE j \in 1 .. Len(o)
    <3>1. its[o[j]] = [text |-> hw[o[j]], emitted |-> IF j = 1 THEN Len(s) ELSE 0,
                       done |-> o[j] \in he]
      BY DEF FiledAs
    <3> QED BY <3>1
  <2> QED BY <2>1, <2>2, <2>3
<1> QED BY <1>1 DEF KeptAs, TextsKept

LEMMA OrderOnce ==
  ASSUME NEW ho, NEW hd, NEW ord, ho \in Seq(Id), ord \in Seq(Id), Lined(ho, hd, ord)
  PROVE  Once(ord)
<1> DEFINE m == Len(ho) - Len(ord)
<1>0. /\ Len(ho) \in Nat /\ Len(ord) \in Nat /\ m \in Nat /\ Len(ho) = m + Len(ord)
      /\ DOMAIN ho = 1 .. Len(ho) /\ DOMAIN ord = 1 .. Len(ord)
  BY DEF Lined
<1>1. \A n \in 1 .. Len(ord) : ord[n] = ho[m + n]
  BY DEF Lined, Behind
<1>2. \A n, k \in 1 .. Len(ho) : ho[n] = ho[k] => n = k
  BY <1>0 DEF Lined, Once
<1> HIDE DEF m
<1> SUFFICES ASSUME NEW n \in 1 .. Len(ord), NEW k \in 1 .. Len(ord), ord[n] = ord[k] PROVE n = k
  BY <1>0 DEF Once
<1>3. m + n \in 1 .. Len(ho) /\ m + k \in 1 .. Len(ho)
  BY <1>0
<1>4. ho[m + n] = ho[m + k]
  BY <1>1
<1>5. m + n = m + k
  BY <1>2, <1>3, <1>4
<1> QED BY <1>0, <1>5

LEMMA EntersAs ==
  ASSUME NEW e, e.id \in Id, items \in [Id -> ItemRecord],
         \A j \in Id \ Range(order) : items[j] = Fresh
  PROVE  Enters(e.id, order, Waiting(e), items, Updated(e))
<1>1. \A j \in Id \ {e.id} : Updated(e)[j] = items[j]
  <2>1. CASE HasText(e)
    <3>1. Updated(e) = [items EXCEPT ![e.id].text = e.text, ![e.id].done = e.kind = "completed"]
      BY <2>1 DEF Updated
    <3> QED BY <3>1
  <2>2. CASE ~HasText(e)
    BY <2>2 DEF Updated
  <2> QED BY <2>1, <2>2
<1>2. e.id \notin Range(order) => Len(items[e.id].text) = 0
  <2>1. e.id \notin Range(order) => items[e.id] = Fresh
    OBVIOUS
  <2>2. Fresh.text = <<>> /\ Len(<<>>) = 0
    BY DEF Fresh
  <2> QED BY <2>1, <2>2
<1> QED BY <1>1, <1>2 DEF Enters, Waiting

LEMMA TotalIsNat ==
  ASSUME NEW s, s \in Seq(Nat)
  PROVE  Total(s) \in Nat
<1>1. Len(s) \in 0 .. Len(s)
  OBVIOUS
<1> QED BY <1>1, TotalSplit

Counted == Handling => buffered = Total(Lengths(items, order))

\* An item event that is accepted.
Accepting(e) ==
  /\ Accepts(e) /\ items' = Kept(Updated(e), Waiting(e))
  /\ Rests(order', Waiting(e), Leading(Updated(e), Waiting(e)))
  /\ buffered' = Buffered(e) - Freed(Updated(e), Waiting(e))

LEMMA AcceptKeeps ==
  ASSUME Types, Filed, Counted, Handling, protocol # "sentences", UNCHANGED protocol,
         NEW e, Accepting(e)
  PROVE  /\ Filed' /\ Counted'
         /\ InOrder' = Cat(InOrder, Shown(Updated(e), Waiting(e)))
         /\ InOrder \in Seq(Letters) /\ Shown(Updated(e), Waiting(e)) \in Seq(Letters)
<1>0. /\ heard.order \in Seq(Id) /\ order \in Seq(Id) /\ heard.text \in [Id -> Seq(Nat)]
      /\ items \in [Id -> ItemRecord] /\ Lined(heard.order, heard.done, order)
      /\ Accepts(e) /\ e.id \in Id /\ e.id \notin heard.done /\ e.text \in Seq(Nat)
      /\ \A j \in Id \ Range(order) : items[j] = Fresh
  BY DEF Types, Filed, Accepting, Accepts
<1>1. /\ Joins(e.id, heard.order, order, heard'.order, Waiting(e), Left)
      /\ heard'.text \in [Id -> Seq(Nat)] /\ Updated(e) \in [Id -> ItemRecord] /\ FrontText \in Seq(Nat)
      /\ FiledAs(Updated(e), Waiting(e), heard'.done, heard'.text, FrontText)
      /\ OthersFresh(Updated(e), Waiting(e))
      /\ \A j \in Id \ Range(heard'.order) : heard'.text[j] = <<>>
      /\ heard.done \subseteq heard'.done
  BY <1>0, WaitingFiled DEF OthersFresh
<1>2. PICK hu, hw, he, o, its, m, od, l :
        /\ hu = heard'.order /\ hw = heard'.text /\ he = heard'.done /\ o = Waiting(e)
        /\ its = Updated(e) /\ m = Left /\ od = order' /\ l = Leading(its, o)
  OBVIOUS
<1>3. /\ hu \in Seq(Id) /\ o \in Seq(Id) /\ Once(hu) /\ Once(o) /\ m \in Nat /\ Behind(hu, o, m)
      /\ \A n \in 1 .. m : hu[n] \in he
  <2>1. Joins(e.id, heard.order, order, hu, o, m)
    BY <1>1, <1>2
  <2>0. PICK ho, hd : ho = heard.order /\ hd = heard.done
    OBVIOUS
  <2>3. /\ ho \in Seq(Id) /\ order \in Seq(Id) /\ Lined(ho, hd, order) /\ e.id \in Id /\ e.id \notin hd
        /\ Joins(e.id, ho, order, hu, o, m)
    BY <1>0, <2>0, <2>1
  <2>4. /\ hu \in Seq(Id) /\ o \in Seq(Id) /\ Once(hu) /\ Once(o) /\ m \in Nat /\ Behind(hu, o, m)
        /\ \A n \in 1 .. m : hu[n] = ho[n] /\ ho[n] \in hd
    BY <2>3, JoinsOrder
  <2>2. /\ hu \in Seq(Id) /\ o \in Seq(Id) /\ Once(hu) /\ Once(o) /\ m \in Nat /\ Behind(hu, o, m)
        /\ \A n \in 1 .. m : hu[n] = heard.order[n] /\ heard.order[n] \in heard.done
    BY <2>0, <2>4
  <2> QED BY <1>1, <1>2, <2>2
<1>4. l \in 0 .. Len(o) /\ Rests(od, o, l)
  BY <1>2, <1>3, Leads DEF Accepting
<1>5. /\ its \in [Id -> ItemRecord] /\ hw \in [Id -> Seq(Nat)] /\ OthersFresh(its, o)
      /\ FiledAs(its, o, he, hw, FrontText) /\ items' = Kept(its, o)
  BY <1>1, <1>2 DEF Accepting
<1>6. KeptAs(items', od, hw, he) /\ \A n \in 1 .. l : o[n] \in he
  BY <1>1, <1>2, <1>3, <1>4, <1>5, KeepsAs
<1>7. Lined(hu, he, od)
  <2>1. od # <<>> => od[1] \notin he
    BY <1>6 DEF KeptAs
  <2> QED BY <1>3, <1>4, <1>6, <2>1, LinedOn
<1>8. Filed'
  BY <1>1, <1>2, <1>6, <1>7 DEF Filed, KeptAs
<1>9. Counted'
  <2>1. buffered = Total(Lengths(items, order)) /\ buffered \in Int
    <3>1. Lengths(items, order) \in Seq(Nat)
      BY <1>0, LengthsTyped
    <3>2. Total(Lengths(items, order)) \in Nat
      BY <3>1, TotalIsNat
    <3> QED BY <3>2 DEF Counted
  <2>2. Buffered(e) = (buffered + Len(its[e.id].text)) - Len(items[e.id].text)
    <3>1. Buffered(e) = (buffered + Len(Updated(e)[e.id].text)) - Len(items[e.id].text)
      BY <1>0, <2>1, BufferedIs
    <3> QED BY <1>2, <3>1
  <2>3. Total(Lengths(its, o)) =
          (Total(Lengths(items, order)) + Len(its[e.id].text)) - Len(items[e.id].text)
    <3>1. Once(order)
      BY <1>0, OrderOnce
    <3>2. Enters(e.id, order, o, items, its)
      BY <1>0, <1>2, EntersAs
    <3>3. order \in Seq(Id) /\ e.id \in Id /\ items \in [Id -> ItemRecord]
      BY <1>0
    <3>4. o \in Seq(Id) /\ its \in [Id -> ItemRecord]
      BY <1>3, <1>5
    <3> QED BY <3>1, <3>2, <3>3, <3>4, CountOn
  <2>4. Total(Lengths(items', od)) = Total(Lengths(its, o)) - Freed(its, o)
    <3>0. /\ o \in Seq(Id) /\ FiledAs(its, o, he, hw, FrontText) /\ KeptAs(items', od, hw, he)
          /\ l \in 0 .. Len(o) /\ Rests(od, o, l)
      BY <1>3, <1>4, <1>5, <1>6
    <3>1. items' \in [Id -> ItemRecord] /\ TextsKept(items', od, its)
      BY <3>0, KeptTexts
    <3>2. its \in [Id -> ItemRecord] /\ o \in Seq(Id) /\ l = Leading(its, o) /\ Rests(od, o, l)
      BY <1>2, <1>3, <1>4, <1>5
    <3> QED BY <3>1, <3>2, CountFreed
  <2>5. buffered' = Buffered(e) - Freed(its, o)
    BY <1>2 DEF Accepting
  <2>6. buffered' = Total(Lengths(items', od))
    BY <2>1, <2>2, <2>3, <2>4, <2>5
  <2>7. Lengths(items, order)' = Lengths(items', od)
    BY <1>2 DEF Lengths
  <2> QED BY <2>6, <2>7 DEF Counted
<1>10. /\ InOrder' = Cat(InOrder, Shown(Updated(e), Waiting(e)))
       /\ InOrder \in Seq(Letters) /\ Shown(Updated(e), Waiting(e)) \in Seq(Letters)
  <2>1. Lined(heard'.order, heard'.done, order')
    BY <1>2, <1>7
  <2>2. Rests(order', Waiting(e), Leading(Updated(e), Waiting(e)))
    BY DEF Accepting
  <2> QED BY <1>0, <2>1, <2>2, AcceptWrites
<1> QED BY <1>8, <1>9, <1>10

-----------------------------------------------------------------------------
(* The sentences.                                                          *)

\* What is heard when the sentence t comes.
Speaks(i, t, ho, hd, ht, hu, he, hw) ==
  /\ hu = IF i \in Range(ho) THEN ho ELSE Append(ho, i)
  /\ hw = [ht EXCEPT ![i] = t] /\ he = hd \cup {i}

LEMMA SpeaksOn ==
  ASSUME NEW i, NEW t, NEW ho, NEW hd, NEW ht, NEW hu, NEW he, NEW hw, NEW od,
         ho \in Seq(Id), ht \in [Id -> Seq(Nat)], i \in Id, t \in Seq(Nat), i \notin hd,
         Emptied(od), Lined(ho, hd, od), Speaks(i, t, ho, hd, ht, hu, he, hw)
  PROVE  /\ Lined(hu, he, od) /\ hw \in [Id -> Seq(Nat)] /\ Range(hu) = Range(ho) \cup {i}
         /\ Alike(hw, ht, i)
         /\ Reached(hu, he, hw) = Cat(Reached(ho, hd, ht), Spell(i, t))
         /\ Reached(ho, hd, ht) \in Seq(Letters)
<1> DEFINE m == Len(ho)
<1>0. m \in Nat /\ DOMAIN ho = 1 .. m /\ \A n \in 1 .. m : ho[n] \in Id
  OBVIOUS
<1>1. od = <<>> /\ od \in Seq(Id) /\ Len(od) = 0
  BY DEF Emptied
<1>2. \A n \in 1 .. m : ho[n] \in hd
  BY <1>0, <1>1 DEF Lined
<1>3. \A n, k \in 1 .. m : ho[n] = ho[k] => n = k
  BY <1>0 DEF Lined, Once
<1>4. i \notin Range(ho)
  BY <1>0, <1>2 DEF Range
<1>5. hu = Append(ho, i)
  BY <1>4 DEF Speaks
<1>6. /\ hu \in Seq(Id) /\ Len(hu) = m + 1 /\ DOMAIN hu = 1 .. m + 1 /\ hu[m + 1] = i
      /\ \A n \in 1 .. m : hu[n] = ho[n]
  BY <1>0, <1>5
<1>7. Range(hu) = Range(ho) \cup {i}
  BY <1>5, RangeAppend
<1>8. hw \in [Id -> Seq(Nat)] /\ hw[i] = t /\ \A j \in Id \ {i} : hw[j] = ht[j]
  BY DEF Speaks
<1>9. he = hd \cup {i}
  BY DEF Speaks
<1>10. Lined(ho, hd, od)
  OBVIOUS
<1> HIDE DEF m
<1>11. \A n \in 1 .. m + 1 : n \in 1 .. m \/ n = m + 1
  BY <1>0
<1>12. Lined(hu, he, od)
  <2>1. Once(hu)
    <3> SUFFICES ASSUME NEW n \in 1 .. m + 1, NEW k \in 1 .. m + 1, hu[n] = hu[k] PROVE n = k
      BY <1>6 DEF Once
    <3>1. \A x \in 1 .. m : hu[x] # i
      BY <1>0, <1>4, <1>6 DEF Range
    <3> QED BY <1>3, <1>6, <1>11, <3>1
  <2>2. \A n \in 1 .. m + 1 : hu[n] \in he
    BY <1>2, <1>6, <1>9, <1>11
  <2>3. Len(hu) - Len(od) = m + 1 /\ Len(od) <= Len(hu)
    BY <1>0, <1>1, <1>6
  <2>4. Behind(hu, od, m + 1)
    BY <1>0, <1>1, <1>6 DEF Behind
  <2> QED BY <1>1, <2>1, <2>2, <2>3, <2>4 DEF Lined
<1>e. od \in Seq(Id)
  BY <1>1
<1>13. Reached(ho, hd, ht) = FlattenSeq(Parts(ho, ht, m)) /\ FlattenSeq(Parts(ho, ht, m)) \in Seq(Letters)
  <2>1. Gap(m, ho, od)
    BY <1>0, <1>1 DEF Gap, m
  <2>2. Reached(ho, hd, ht) = FlattenSeq(Parts(ho, ht, m))
    BY <1>e, <1>10, <2>1, UpToNow
  <2>3. FlattenSeq(Parts(ho, ht, m)) \in Seq(Letters)
    BY <1>e, <1>10, <2>1, UpToNow
  <2> QED BY <2>2, <2>3
<1>14. Reached(hu, he, hw) = FlattenSeq(Parts(hu, hw, m + 1))
  <2>1. Gap(m + 1, hu, od)
    BY <1>0, <1>1, <1>6 DEF Gap
  <2>2. hu \in Seq(Id) /\ hw \in [Id -> Seq(Nat)]
    BY <1>6, <1>8
  <2> QED BY <1>e, <1>12, <2>1, <2>2, UpToNow
<1>15. FlattenSeq(Parts(hu, hw, m + 1)) = Cat(FlattenSeq(Parts(hu, hw, m)), Spell(hu[m + 1], hw[hu[m + 1]]))
  <2>1. m \in 0 .. Len(hu) /\ m < Len(hu)
    BY <1>0, <1>6
  <2> QED BY <1>6, <1>8, <2>1, PartsNext DEF Cat
<1>16. Parts(hu, hw, m) = Parts(ho, ht, m)
  <2>1. ASSUME NEW n \in 1 .. m PROVE hu[n] = ho[n] /\ hw[hu[n]] = ht[hu[n]]
    <3>1. hu[n] = ho[n] /\ ho[n] \in Id \ {i}
      BY <1>0, <1>2, <1>6
    <3> QED BY <1>8, <3>1
  <2> QED BY <2>1 DEF Parts
<1>17. Reached(hu, he, hw) = Cat(Reached(ho, hd, ht), Spell(i, t))
  BY <1>6, <1>8, <1>13, <1>14, <1>15, <1>16
<1> QED BY <1>7, <1>8, <1>12, <1>13, <1>17 DEF Alike

LEMMA SentenceKeeps ==
  ASSUME Types, Filed, Counted, Handling, protocol = "sentences", UNCHANGED protocol,
         UNCHANGED <<items, order, buffered>>,
         NEW e, e.kind = "final", e.id \in Id, e.text \in Seq(Nat), e.id \notin heard.done, Hear(e)
  PROVE  /\ Filed' /\ Counted'
         /\ InOrder' = Cat(InOrder, Spell(e.id, e.text))
         /\ InOrder \in Seq(Letters) /\ Spell(e.id, e.text) \in Seq(Letters)
<1>0. /\ heard.order \in Seq(Id) /\ heard.text \in [Id -> Seq(Nat)] /\ order = <<>>
      /\ items \in [Id -> ItemRecord] /\ Lined(heard.order, heard.done, order)
      /\ \A i \in Id \ Range(heard.order) : heard.text[i] = <<>>
      /\ \A i \in Id \ Range(order) : items[i] = Fresh
  BY DEF Types, Filed
<1>1. PICK hu, hw, he : hu = heard'.order /\ hw = heard'.text /\ he = heard'.done
  OBVIOUS
<1>2. Speaks(e.id, e.text, heard.order, heard.done, heard.text, hu, he, hw)
  BY <1>1 DEF Hear, Speaks
<1>3. Emptied(order)
  BY <1>0 DEF Emptied
<1>4. /\ Lined(hu, he, order) /\ hw \in [Id -> Seq(Nat)] /\ Range(hu) = Range(heard.order) \cup {e.id}
      /\ Alike(hw, heard.text, e.id)
      /\ Reached(hu, he, hw) = Cat(Reached(heard.order, heard.done, heard.text), Spell(e.id, e.text))
      /\ Reached(heard.order, heard.done, heard.text) \in Seq(Letters)
  <2>1. Lined(heard.order, heard.done, order) /\ heard.order \in Seq(Id) /\ heard.text \in [Id -> Seq(Nat)]
    BY <1>0
  <2> QED BY <1>2, <1>3, <2>1, SpeaksOn
<1>5. \A i \in Id \ Range(hu) : hw[i] = <<>>
  BY <1>0, <1>4 DEF Alike
<1>6. Filed'
  <2>1. order' = <<>> /\ order' \in Seq(Id) /\ Len(order') = 0 /\ Range(order') = {}
    BY <1>0 DEF Range
  <2>2. Lined(heard'.order, heard'.done, order')
    BY <1>1, <1>4
  <2>3. items' \in [Id -> ItemRecord] /\ \A i \in Id \ Range(order') : items'[i] = Fresh
    BY <1>0
  <2>4. heard'.text \in [Id -> Seq(Nat)] /\ \A i \in Id \ Range(heard'.order) : heard'.text[i] = <<>>
    BY <1>1, <1>4, <1>5
  <2> QED BY <2>1, <2>2, <2>3, <2>4 DEF Filed
<1>7. Counted'
  <2>1. Lengths(items, order)' = Lengths(items, order)
    BY DEF Lengths
  <2> QED BY <2>1 DEF Counted
<1>8. InOrder = Reached(heard.order, heard.done, heard.text)
  BY InOrderIs DEF Reached
<1>9. InOrder' = Reached(heard'.order, heard'.done, heard'.text)
  BY DEF InOrder, Parts, ReachOf, Reached
<1>10. Spell(e.id, e.text) \in Seq(Letters)
  BY SpellTyped
<1> QED BY <1>1, <1>4, <1>6, <1>7, <1>8, <1>9, <1>10

-----------------------------------------------------------------------------
(* The steps, and the theorems.                                            *)

Written == Handling \/ answer = "done" => transcript = InOrder

TextInv == Flow /\ Filed /\ Counted /\ Written

\* A step that leaves the text and the items alone, and decides no success
\* outside of the handler's loop.
LEMMA QuietText ==
  ASSUME TextInv, UNCHANGED files, UNCHANGED heard, UNCHANGED protocol, Handling' => Handling,
         answer' = "done" => Handling \/ answer = "done"
  PROVE  Filed' /\ Counted' /\ Written'
<1>0. UNCHANGED <<items, order, buffered, transcript>>
  BY DEF files
<1>1. Filed /\ Counted /\ Written
  BY DEF TextInv
<1>2. Filed'
  BY <1>0, <1>1 DEF Filed
<1>3. Counted'
  <2>1. Lengths(items, order)' = Lengths(items, order)
    BY <1>0 DEF Lengths
  <2> QED BY <1>0, <1>1, <2>1 DEF Counted
<1>4. Written'
  <2>1. InOrder' = InOrder
    BY DEF InOrder
  <2> QED BY <1>0, <1>1, <2>1 DEF Written
<1> QED BY <1>2, <1>3, <1>4

LEMMA QuietFlow ==
  ASSUME Flow, UNCHANGED <<text, done, over, channel, heard, protocol>>,
         pc' = "select" => pc = "select"
  PROVE  Flow'
BY DEF Flow

\* The handler has left its loop without a success.
LEMMA GivenUp ==
  ASSUME pc' \notin {"select", "await"}, answer' # "done"
  PROVE  TextInv'
BY DEF TextInv, Flow, Filed, Counted, Written, Handling

LEMMA PublishWrites ==
  ASSUME Written, Handling, answer # "done", NEW d, d \in Seq(Letters), InOrder \in Seq(Letters),
         InOrder' = Cat(InOrder, d), Publish(d)
  PROVE  Written' /\ (GoOn \/ (pc' = "cleanup" /\ answer' # "done"))
<1>0. transcript = InOrder
  BY DEF Written
<1>1. GoOn => answer' # "done"
  BY DEF GoOn
<1>2. CASE d = <<>> /\ transcript' = transcript /\ GoOn
  <2>1. Cat(InOrder, d) = InOrder
    <3>1. Cat(InOrder, <<>>) = InOrder
      BY CatLaws
    <3> QED BY <1>2, <3>1
  <2>2. transcript' = InOrder'
    BY <1>0, <1>2, <2>1
  <2> QED BY <1>2, <2>2 DEF Written
<1>3. CASE Fail("transcript")
  BY <1>3 DEF Written, Fail, Handling
<1>4. CASE transcript' = transcript \o d /\ (GoOn \/ Lost)
  <2>1. transcript' = InOrder'
    BY <1>0, <1>4 DEF Cat
  <2>2. GoOn \/ (pc' = "cleanup" /\ answer' # "done")
    BY <1>4 DEF Lost
  <2> QED BY <2>1, <2>2 DEF Written
<1> QED BY <1>2, <1>3, <1>4 DEF Publish

\* The first event of the channel, while the handler selects.
LEMMA FirstEvent ==
  ASSUME FileInv, Flow, pc = "select", channel # <<>>, NEW e, e = Head(channel), OfItem(e)
  PROVE  /\ e.id \in Id /\ e.text \in Seq(Nat) /\ e.id \notin heard.done
         /\ e.kind = "final" <=> protocol = "sentences"
         /\ HasText(e) => Task!Extends(e.text, heard.text[e.id])
<1>0. channel \in Seq(AnEvent) /\ Ending
  BY DEF FileInv, Types
<1>1. e = channel[1] /\ 1 \in DOMAIN channel /\ e \in AnEvent
  BY <1>0, Taken
<1>2. e.id \in Id
  BY <1>0, <1>1 DEF Ending, OfItem
<1>3. e.text \in Seq(Nat)
  BY <1>1 DEF AnEvent
<1> QED BY <1>1, <1>2, <1>3 DEF Flow

\* The event was heard, and its text written.
LEMMA HeardText ==
  ASSUME FileInv, TextInv, pc = "select", channel # <<>>, channel' = Tail(channel), UNCHANGED task,
         NEW e, e = Head(channel), OfItem(e), e.kind # "failed", Hear(e),
         Filed' /\ Counted', NEW d, d \in Seq(Letters), InOrder \in Seq(Letters),
         InOrder' = Cat(InOrder, d), Publish(d)
  PROVE  TextInv'
<1>0. Handling /\ Written /\ Flow /\ heard.text \in [Id -> Seq(Nat)]
  BY DEF TextInv, Filed, Handling
<1>1. answer # "done"
  BY DEF FileInv, Sending
<1>2. Written' /\ (GoOn \/ (pc' = "cleanup" /\ answer' # "done"))
  BY <1>0, <1>1, PublishWrites
<1>3. CASE GoOn
  <2>1. pc' = pc
    BY <1>3 DEF GoOn
  <2>2. Flow'
    BY <1>0, <2>1, TakeFlow
  <2> QED BY <1>2, <2>2 DEF TextInv
<1>4. CASE pc' = "cleanup" /\ answer' # "done"
  BY <1>4, GivenUp
<1> QED BY <1>2, <1>3, <1>4

LEMMA TakeEventText ==
  ASSUME FileInv, TextInv, TakeEvent
  PROVE  TextInv'
<1>0. /\ pc = "select" /\ channel # <<>> /\ channel' = Tail(channel) /\ UNCHANGED task
      /\ Types /\ Flow /\ Filed /\ Counted /\ Handling /\ answer # "done"
  BY DEF TakeEvent, Selecting, Elsewhere, FileInv, Sending, TextInv, Handling
<1>1. UNCHANGED <<text, done, over, protocol>>
  BY <1>0 DEF task
<1>2. PICK e : e = Head(channel)
  OBVIOUS
<1>3. ASSUME OfItem(e)
      PROVE  /\ e.id \in Id /\ e.text \in Seq(Nat) /\ e.id \notin heard.done
             /\ e.kind = "final" <=> protocol = "sentences"
             /\ HasText(e) => Task!Extends(e.text, heard.text[e.id])
  BY <1>0, <1>2, <1>3, FirstEvent
<1>4. CASE e.kind = "err" /\ Fail("task")
  <2>1. pc' = "cleanup" /\ answer' = "error"
    BY <1>4 DEF Fail
  <2> QED BY <2>1, GivenUp
<1>5. CASE AnItem(e) /\ AcceptItem(e)
  <2>1. OfItem(e) /\ e.kind # "final"
    BY <1>5, Kinds DEF AnItem, OfItem
  <2>2. CASE Refusal(e) # "none"
    <3>1. pc' = "cleanup" /\ answer' = "error"
      BY <1>5, <2>2 DEF AcceptItem, Fail
    <3> QED BY <3>1, GivenUp
  <2>3. CASE Refusal(e) = "none"
    <3>1. e.kind # "failed"
      BY <2>3 DEF Refusal
    <3>2. /\ items' = Kept(Updated(e), Waiting(e))
          /\ Rests(order', Waiting(e), Leading(Updated(e), Waiting(e)))
          /\ buffered' = Buffered(e) - Freed(Updated(e), Waiting(e))
          /\ Publish(Shown(Updated(e), Waiting(e))) /\ Hear(e)
      BY <1>5, <2>3 DEF AcceptItem, Rests
    <3>3. Accepting(e)
      BY <1>3, <2>1, <3>1, <3>2 DEF Accepting, Accepts
    <3>4. protocol # "sentences"
      BY <1>3, <2>1
    <3>5. /\ Filed' /\ Counted'
          /\ InOrder' = Cat(InOrder, Shown(Updated(e), Waiting(e)))
          /\ InOrder \in Seq(Letters) /\ Shown(Updated(e), Waiting(e)) \in Seq(Letters)
      BY <1>0, <1>1, <3>3, <3>4, AcceptKeeps
    <3> QED BY <1>0, <1>2, <2>1, <3>1, <3>2, <3>5, HeardText
  <2> QED BY <2>2, <2>3
<1>6. CASE /\ e.kind = "final" /\ Publish(Spell(e.id, e.text)) /\ Hear(e)
           /\ UNCHANGED <<items, order, buffered>>
  <2>1. OfItem(e) /\ e.kind # "failed"
    BY <1>6, Kinds DEF OfItem
  <2>2. protocol = "sentences" /\ e.id \in Id /\ e.text \in Seq(Nat) /\ e.id \notin heard.done
    BY <1>3, <1>6, <2>1
  <2>3. /\ Filed' /\ Counted'
        /\ InOrder' = Cat(InOrder, Spell(e.id, e.text))
        /\ InOrder \in Seq(Letters) /\ Spell(e.id, e.text) \in Seq(Letters)
    BY <1>0, <1>1, <1>6, <2>2, SentenceKeeps
  <2> QED BY <1>0, <1>2, <1>6, <2>1, <2>3, HeardText
<1>7. CASE e.kind = "finished" /\ Finished
  <2>1. UNCHANGED files /\ UNCHANGED heard /\ pc' \in {"cleanup", "await"}
    BY <1>7 DEF Finished, Fail, Answer
  <2>2. Filed' /\ Counted' /\ Written'
    BY <1>0, <1>1, <2>1, QuietText
  <2>3. Flow'
    BY <2>1 DEF Flow
  <2> QED BY <2>2, <2>3 DEF TextInv
<1> QED BY <1>2, <1>4, <1>5, <1>6, <1>7 DEF TakeEvent

LEMMA TextStep ==
  ASSUME FileInv, TextInv, [Next]_vars
  PROVE  TextInv'
<1>0. Types /\ Flow /\ Filed
  BY DEF FileInv, TextInv
\* A step that leaves the channel alone.
<1>1. ASSUME UNCHANGED files, UNCHANGED heard, UNCHANGED <<text, done, over, channel, protocol>>,
             pc' \in {"select", "await"} => pc' = pc,
             answer' = "done" => Handling \/ answer = "done"
      PROVE  TextInv'
  <2>1. Filed' /\ Counted' /\ Written'
    BY <1>1, QuietText DEF Handling
  <2>2. Flow'
    BY <1>0, <1>1, QuietFlow
  <2> QED BY <2>1, <2>2 DEF TextInv
\* A step of the task.
<1>2. ASSUME UNCHANGED handler, UNCHANGED protocol, pc = "select" => Flow'
      PROVE  TextInv'
  <2>1. UNCHANGED files /\ UNCHANGED heard /\ UNCHANGED pc /\ UNCHANGED answer
    BY <1>2 DEF handler
  <2>2. Filed' /\ Counted' /\ Written'
    BY <1>2, <2>1, QuietText DEF Handling
  <2>3. Flow'
    <3>1. CASE pc = "select"
      BY <1>2, <3>1
    <3>2. CASE pc # "select"
      BY <2>1, <3>2 DEF Flow
    <3> QED BY <3>1, <3>2
  <2> QED BY <2>2, <2>3 DEF TextInv
<1>3. CASE TaskEvent
  <2>1. UNCHANGED handler /\ UNCHANGED protocol
    BY <1>3 DEF TaskEvent
  <2>2. ASSUME pc = "select" PROVE Flow'
    <3>1. heard.text \in [Id -> Seq(Nat)]
      BY <1>0, <2>2 DEF Filed, Handling
    <3> QED BY <1>0, <1>3, <2>2, <3>1, TaskEventFlow
  <2> QED BY <1>2, <2>1, <2>2
<1>4. CASE TaskEnds
  <2>1. UNCHANGED handler /\ UNCHANGED protocol
    BY <1>4 DEF TaskEnds
  <2>2. pc = "select" => Flow'
    BY <1>0, <1>4, TaskEndsFlow
  <2> QED BY <1>2, <2>1, <2>2
<1>5. CASE TaskStops
  <2>1. /\ UNCHANGED <<text, done, over, channel, protocol>> /\ UNCHANGED files /\ UNCHANGED heard
        /\ UNCHANGED pc /\ UNCHANGED answer
    BY <1>5 DEF TaskStops, task, handler
  <2> QED BY <1>1, <2>1
<1>6. CASE SenderStep
  <2>1. /\ UNCHANGED <<text, done, over, channel, protocol>> /\ UNCHANGED files /\ UNCHANGED heard
        /\ UNCHANGED pc /\ UNCHANGED answer
    BY <1>6 DEF SenderStep, Sender, ReadAudio, Write, Pace, FinishInput, SenderFails, ReportOutcome,
                handler
  <2> QED BY <1>1, <2>1
<1>7. CASE Heartbeat \/ SeeCancelled \/ TakeOutcome \/ ChannelClosed
  <2>1. /\ UNCHANGED <<text, done, over, channel, protocol>> /\ UNCHANGED files /\ UNCHANGED heard
    BY <1>7 DEF Heartbeat, SeeCancelled, TakeOutcome, ChannelClosed, Elsewhere, task
  <2>2. (pc' = pc /\ answer' = answer) \/ (pc' = "cleanup" /\ answer' # "done")
    BY <1>7 DEF Heartbeat, SeeCancelled, TakeOutcome, ChannelClosed, GoOn, Lost, Fail
  <2> QED BY <1>1, <2>1, <2>2
<1>8. CASE TakeEvent
  BY <1>8, TakeEventText
<1>9. CASE Await
  <2>1. /\ UNCHANGED <<text, done, over, channel, protocol>> /\ UNCHANGED files /\ UNCHANGED heard
        /\ pc = "await" /\ pc' = "cleanup"
    BY <1>9 DEF Await, Answer, Fail, Elsewhere, task
  <2> QED BY <1>1, <2>1 DEF Handling
<1>10. CASE Leave
  <2>1. /\ UNCHANGED <<text, done, over, channel, protocol>> /\ UNCHANGED files /\ UNCHANGED heard
        /\ pc' \notin {"select", "await"} /\ UNCHANGED answer
    BY <1>10 DEF Leave, Cleanup, Return, task
  <2> QED BY <1>1, <2>1
<1>11. CASE Cancel \/ Terminated \/ UNCHANGED vars
  <2>1. /\ UNCHANGED <<text, done, over, channel, protocol>> /\ UNCHANGED files /\ UNCHANGED heard
        /\ UNCHANGED pc /\ UNCHANGED answer
    BY <1>11 DEF Cancel, Terminated, vars, task, handler
  <2> QED BY <1>1, <2>1
<1> QED BY <1>3, <1>4, <1>5, <1>6, <1>7, <1>8, <1>9, <1>10, <1>11 DEF Next, TaskStep, Serve

LEMMA TextInit == Init => TextInv
<1> SUFFICES ASSUME Init PROVE TextInv
  OBVIOUS
<1>0. /\ channel = <<>> /\ items = [i \in Id |-> Fresh] /\ order = <<>> /\ buffered = 0
      /\ transcript = <<>> /\ text = [i \in Id |-> <<>>]
      /\ heard.order = <<>> /\ heard.done = {} /\ heard.text = [i \in Id |-> <<>>]
  BY DEF Init, Task!Init
<1>1. <<>> \in Seq(Id) /\ <<>> \in Seq(Nat) /\ Len(<<>>) = 0 /\ DOMAIN <<>> = {} /\ Range(<<>>) = {}
  BY DEF Range
<1>2. Flow
  <2>1. \A i \in Id : text[i] = <<>> /\ heard.text[i] = <<>>
    BY <1>0
  <2>2. Task!Extends(<<>>, <<>>)
    BY <1>1, ExtendsSelf
  <2> QED BY <1>0, <1>1, <2>1, <2>2 DEF Flow
<1>3. Lined(heard.order, heard.done, order)
  <2>1. Lined(<<>>, {}, <<>>)
    BY <1>1 DEF Lined, Behind, Once
  <2> QED BY <1>0, <2>1
<1>4. Filed
  <2>1. items \in [Id -> ItemRecord] /\ \A i \in Id : items[i] = Fresh
    BY <1>0, <1>1 DEF Fresh, ItemRecord
  <2>2. heard.text \in [Id -> Seq(Nat)] /\ \A i \in Id : heard.text[i] = <<>>
    BY <1>0, <1>1
  <2>3. order \in Seq(Id) /\ Len(order) = 0 /\ order = <<>>
    BY <1>0, <1>1
  <2> QED BY <1>3, <2>1, <2>2, <2>3 DEF Filed
<1>5. Counted
  <2>1. Lengths(items, order) = <<>>
    <3>1. Lengths(items, order) \in Seq(Nat) /\ Len(Lengths(items, order)) = Len(order)
      <4>1. items \in [Id -> ItemRecord] /\ order \in Seq(Id)
        BY <1>0, <1>1 DEF Fresh, ItemRecord
      <4> QED BY <4>1, LengthsTyped
    <3>2. Len(order) = 0
      BY <1>0, <1>1
    <3> QED BY <3>1, <3>2
  <2>2. Total(<<>>) = 0
    <3>1. 0 \in Nat
      OBVIOUS
    <3> QED BY <3>1, TotalOne
  <2> QED BY <1>0, <2>1, <2>2 DEF Counted
<1>6. Written
  <2>1. ReachOf(<<>>, {}) = 0
    BY <1>1 DEF ReachOf
  <2>2. Parts(heard.order, heard.text, 0) = <<>>
    BY DEF Parts
  <2>3. FlattenSeq(<<>>) = <<>>
    BY DEF FlattenSeq
  <2>4. InOrder = FlattenSeq(Parts(heard.order, heard.text, ReachOf(heard.order, heard.done)))
    BY InOrderIs
  <2>5. InOrder = <<>>
    BY <1>0, <2>1, <2>2, <2>3, <2>4
  <2> QED BY <1>0, <2>5 DEF Written
<1> QED BY <1>2, <1>4, <1>5, <1>6 DEF TextInv

LEMMA TextInvariant == Spec => []TextInv
<1>1. FileInv /\ TextInv /\ [Next]_vars => TextInv'
  BY TextStep
<1> QED BY <1>1, TextInit, FileInvariant, PTL DEF Spec

\* The text of a file is linear (orderedFileItems.accept and the loop of
\* realtimeFileResponse): at every point of the handler's loop, and in a
\* success, it is the text of the items in the order of their first mention,
\* up to the first that is not complete and as far as that one is known,
\* whatever the order in which they are updated and completed.
THEOREM LinearHolds == Spec => []Linear
<1>1. TextInv => Linear
  BY DEF TextInv, Written, Handling, Linear
<1> QED BY <1>1, TextInvariant, PTL

\* The count of the text that waits (buffered of orderedFileItems.accept) is
\* its length, and the items that wait are those mentioned from the first
\* unfinished one on: one that was shown in full never comes back.
THEOREM BufferAccountedHolds == Spec => []BufferAccounted
<1>1. FileInv /\ TextInv => BufferAccounted
  <2> SUFFICES ASSUME FileInv, TextInv, Handling PROVE BufferAccounted
    BY DEF Handling, BufferAccounted
  <2>0. /\ heard.order \in Seq(Id) /\ order \in Seq(Id) /\ Lined(heard.order, heard.done, order)
    BY DEF TextInv, Filed, FileInv, Types
  <2>1. buffered = Total([n \in DOMAIN order |-> Len(items[order[n]].text)])
    BY DEF TextInv, Counted, Lengths
  <2> DEFINE left == Len(heard.order) - Len(order)
             w == SubSeq(heard.order, left + 1, Len(heard.order))
  <2>2. left \in 0 .. Len(heard.order) /\ Len(heard.order) - left = Len(order)
    BY <2>0 DEF Lined
  <2>3. w \in Seq(Id) /\ Len(w) = Len(order) /\ \A n \in 1 .. Len(order) : w[n] = heard.order[left + n]
    BY <2>0, <2>2, RestOf
  <2>4. \A n \in 1 .. Len(order) : order[n] = heard.order[left + n]
    BY <2>0 DEF Lined, Behind
  <2>5. \A n \in 1 .. left : heard.order[n] \in heard.done
    BY <2>0 DEF Lined
  <2>6. order # <<>> => Head(order) \notin heard.done
    BY <2>0 DEF Lined
  <2> HIDE DEF w
  <2>7. order = w
    BY <2>0, <2>3, <2>4, SeqEqual
  <2> QED BY <2>1, <2>5, <2>6, <2>7 DEF BufferAccounted, w
<1> QED BY <1>1, FileInvariant, TextInvariant, PTL

=============================================================================
