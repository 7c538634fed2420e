------------------------ MODULE SessionSettingsProofs ------------------------
(***************************************************************************)
(* Proofs about SessionSettings for any set of models, languages, prompts  *)
(* and thresholds: what the client was told is what its turn runs with, an *)
(* update is judged for what it says, and none that is accepted ends the   *)
(* session.                                                                *)
(*                                                                         *)
(* The inductive invariant is SettingsInv.  Settled is what every accepted *)
(* update leaves behind, and what the next one can therefore count on: the *)
(* threshold is in range even while the model takes none, one that takes   *)
(* none has no explicit threshold, and a prompt is there only for a model  *)
(* that takes it.  InUse ties the active turn and the client to it, and    *)
(* the threshold to the one that was last named.                           *)
(***************************************************************************)
EXTENDS SessionSettings, TLAPS

Setting ==
  [model : Model \cup {Empty}, language : Language \cup {Empty},
   prompt : Prompt \cup {Empty}, vad : BOOLEAN, silence : Nat, explicit : BOOLEAN]

Settled(c) ==
  /\ c.silence \in Thresholds
  /\ c.model \in V1 => ~c.explicit
  /\ c.prompt # Empty => c.model \in Context

InUse ==
  /\ told = Session(settings) /\ named = settings.silence
  /\ Active => turn.settings = settings /\ turn.task = Options(settings)

SettingsInv == settings \in Setting /\ Settled(settings) /\ InUse /\ UpdatesAreSafe

LEMMA Assumed ==
  /\ Empty \notin Model \cup Language \cup Prompt
  /\ Silence \subseteq Nat
  /\ V1 \subseteq Realtime /\ Context \subseteq Realtime /\ Realtime \subseteq Model
  /\ Context \subseteq Updates
BY SettingsAssumption DEF SettingsAssumption

LEMMA Span == ASSUME NEW t \in Thresholds PROVE t \in Nat /\ t # Omitted
BY DEF Thresholds, Omitted

LEMMA DefaultInSpan == Default \in Thresholds /\ Default \in Nat
BY DEF Thresholds, Default

\* A threshold that a patch gives is in range if the patch is accepted.
LEMMA GivenInSpan ==
  ASSUME NEW p, InRange(p), p.silence # Omitted
  PROVE  p.silence \in Thresholds
BY Zenon DEF InRange

\* The parts of the invariant that a step may leave alone.
LEMMA Frames ==
  /\ settings \in Setting /\ Settled(settings) /\ UNCHANGED settings
       => settings' \in Setting /\ Settled(settings')
  /\ InUse /\ UNCHANGED <<settings, turn, told, named>> => InUse'
BY DEF InUse, Active

-----------------------------------------------------------------------------
(* Patches.                                                                *)

LEMMA PatchTypes ==
  ASSUME NEW p \in Patch
  PROVE  /\ p.model \in Model \cup {Absent} /\ p.language \in Language \cup {Empty, Absent}
         /\ p.prompt \in Prompt \cup {Empty, Absent}
         /\ p.silence \in Nat
         /\ p.turn \in {"server_vad", "null", Absent}
         /\ p.turn # "server_vad" => p.silence = Omitted
<1>1. p.silence \in Silence \cup {Omitted}
  BY DEF Patch
<1>2. \A t \in Silence \cup {Omitted} : t \in Nat
  BY Assumed DEF Omitted
<1>3. p.silence \in Nat
  BY <1>1, <1>2
<1> QED BY <1>3 DEF Patch

LEMMA MergeTypes ==
  ASSUME NEW c \in Setting, NEW p \in Patch
  PROVE  Merge(c, p) \in Setting
<1>1. /\ Or(p.model, c.model) \in Model \cup {Empty}
      /\ Or(p.language, c.language) \in Language \cup {Empty}
      /\ Or(p.prompt, c.prompt) \in Prompt \cup {Empty}
  BY PatchTypes DEF Or, Setting
<1>2. (IF p.turn = Absent THEN c.vad ELSE p.turn = "server_vad") \in BOOLEAN
  BY DEF Setting
<1>3. (IF p.silence # Omitted THEN p.silence ELSE c.silence) \in Nat
  BY PatchTypes DEF Setting
<1>4. Explicit(c, p) \in BOOLEAN
  BY DEF Explicit
<1> QED BY <1>1, <1>2, <1>3, <1>4 DEF Merge, Setting

\* What an update leaves behind if it is accepted.
LEMMA MergeSettled ==
  ASSUME NEW c \in Setting, Settled(c), NEW p \in Patch, Accepts(c, p)
  PROVE  Settled(Merge(c, p))
<1> DEFINE n == Merge(c, p)
<1>1. /\ n.silence = (IF p.silence # Omitted THEN p.silence ELSE c.silence)
      /\ Options(n).model = n.model /\ Options(n).prompt = n.prompt
      /\ Options(n).silence = (IF n.model \in V1 /\ ~n.explicit THEN Omitted ELSE n.silence)
  BY DEF Merge, Options
<1>2. InRange(p) /\ Valid(Options(n))
  BY DEF Accepts
<1>3. n.silence \in Thresholds
  BY <1>1, <1>2, GivenInSpan DEF Settled
<1> HIDE DEF n
<1>4. n.silence # Omitted
  BY <1>3, Span
<1>5. n.model \in V1 => ~n.explicit
  BY <1>1, <1>2, <1>4 DEF Valid
<1>6. n.prompt # Empty => n.model \in Context
  BY <1>1, <1>2 DEF Valid
<1> QED BY <1>3, <1>5, <1>6 DEF Settled, n

-----------------------------------------------------------------------------
(* The invariant.                                                          *)

LEMMA InitInv == Init => SettingsInv
<1> SUFFICES ASSUME Init PROVE SettingsInv
  OBVIOUS
<1>1. PICK m \in {Empty} \cup Model : settings = New(m)
  BY DEF Init
<1>2. settings \in Setting
  BY <1>1, DefaultInSpan DEF New, Setting
<1>3. Settled(settings)
  BY <1>1, DefaultInSpan, Assumed DEF New, Settled
<1>4. told = Session(settings) /\ ~Active /\ ~ended /\ named = settings.silence
  BY <1>1 DEF Init, Active, New
<1> QED BY <1>2, <1>3, <1>4 DEF SettingsInv, InUse, UpdatesAreSafe

\* An update that only changes the prompt changes the task's options by it.
LEMMA OnlyPromptOptions ==
  ASSUME NEW c \in Setting, settings \in Setting, OnlyPrompt(c)
  PROVE  /\ c.model = settings.model
         /\ c.prompt = settings.prompt => c = settings
         /\ Options(c) = [Options(settings) EXCEPT !.prompt = c.prompt]
<1>1. c = [settings EXCEPT !.prompt = c.prompt]
  BY DEF OnlyPrompt
<1>2. /\ c.model = settings.model /\ c.language = settings.language /\ c.vad = settings.vad
      /\ c.silence = settings.silence /\ c.explicit = settings.explicit
  BY <1>1 DEF Setting
<1>3. c.prompt = settings.prompt => c = settings
  BY <1>1 DEF Setting
<1>4. Options(c) = [Options(settings) EXCEPT !.prompt = c.prompt]
  BY <1>2 DEF Options
<1> QED BY <1>2, <1>3, <1>4

\* The threshold of the settings is the one that was last named.
LEMMA NamedIsMerged ==
  ASSUME InUse, NEW p, Note(p)
  PROVE  named' = Merge(settings, p).silence
BY DEF InUse, Note, Merge

LEMMA StepInv == SettingsInv /\ [Next]_vars => SettingsInv'
<1> SUFFICES ASSUME SettingsInv, [Next]_vars PROVE SettingsInv'
  OBVIOUS
<1>0. settings \in Setting /\ Settled(settings) /\ InUse /\ UpdatesAreSafe
  BY DEF SettingsInv
<1>1. CASE Update
  <2>1. PICK p \in Patch : Accepts(settings, p) /\ Tell(Merge(settings, p)) /\ Note(p)
    BY <1>1 DEF Update
  <2>2. settings' \in Setting /\ Settled(settings') /\ told' = Session(settings')
    BY <1>0, <2>1, MergeTypes, MergeSettled DEF Tell
  <2>3. ~Active /\ UNCHANGED <<turn, lost, ended>>
    BY <1>1 DEF Update
  <2>4. named' = settings'.silence
    BY <1>0, <2>1, NamedIsMerged DEF Tell
  <2> QED BY <1>0, <2>2, <2>3, <2>4 DEF SettingsInv, InUse, Active, UpdatesAreSafe, Settled
<1>2. CASE UpdateActive
  <2> DEFINE M(p) == Merge(settings, p)
  <2>1. PICK p \in Patch : Accepts(settings, p) /\ Note(p) /\ OnlyPrompt(M(p)) /\ PassOn(M(p))
    BY <1>2 DEF UpdateActive
  <2> DEFINE c == M(p)
  <2>2. c \in Setting /\ Settled(c)
    BY <1>0, <2>1, MergeTypes, MergeSettled
  <2>3. Active /\ turn.settings = settings /\ turn.task = Options(settings)
    BY <1>0, <1>2 DEF UpdateActive, InUse
  <2>0. named' = c.silence
    BY <1>0, <2>1, NamedIsMerged
  <2> HIDE DEF c
  <2>4. OnlyPrompt(c) /\ PassOn(c)
    BY <2>1 DEF c
  <2>5. /\ c.model = settings.model
        /\ c.prompt = settings.prompt => c = settings
        /\ Options(c) = [Options(settings) EXCEPT !.prompt = c.prompt]
    BY <1>0, <2>2, <2>4, OnlyPromptOptions
  <2>6. turn.task.model = settings.model
    BY <2>3 DEF Options
  <2>7. CASE c.prompt = settings.prompt /\ Tell(c) /\ UNCHANGED <<turn, lost, ended>>
    <3>1. settings' = settings /\ told' = Session(settings)
      BY <2>5, <2>7 DEF Tell
    <3> QED BY <1>0, <2>0, <2>5, <2>7, <3>1 DEF SettingsInv, InUse, Active, UpdatesAreSafe, Settled
  <2>8. CASE /\ turn' = [settings |-> c, task |-> [turn.task EXCEPT !.prompt = c.prompt]]
             /\ Tell(c) /\ UNCHANGED <<lost, ended>>
    <3>1. settings' = c /\ told' = Session(c) /\ turn'.settings = c /\ turn'.task = Options(c)
      BY <2>3, <2>5, <2>8 DEF Tell
    <3> QED BY <1>0, <2>0, <2>2, <2>8, <3>1 DEF SettingsInv, InUse, Active, UpdatesAreSafe, Settled
  <2>9. ~(c.prompt # settings.prompt /\ turn.task.model \notin Updates)
    <3>1. SUFFICES ASSUME c.prompt # settings.prompt, settings.model \notin Updates PROVE FALSE
      BY <2>6
    <3>2. c.prompt # Empty \/ settings.prompt # Empty
      BY <3>1
    <3>3. settings.model \in Context
      BY <1>0, <2>2, <2>5, <3>2 DEF Settled
    <3> QED BY <3>1, <3>3, Assumed
  <2> QED BY <2>4, <2>7, <2>8, <2>9 DEF PassOn
<1>3. CASE PromptLost
  BY <1>0, <1>3, Frames DEF PromptLost, SettingsInv, UpdatesAreSafe
<1>4. CASE Refused
  BY <1>0, <1>4, Frames DEF Refused, vars, SettingsInv, UpdatesAreSafe
<1>5. CASE Append
  <2>1. turn'.settings = settings /\ turn'.task = Options(settings)
    BY <1>5 DEF Append
  <2> QED BY <1>0, <1>5, <2>1 DEF Append, SettingsInv, InUse, UpdatesAreSafe, Settled
<1>6. CASE StartFails
  BY <1>0, <1>6, Frames DEF StartFails, SettingsInv, UpdatesAreSafe
<1>7. CASE Release
  BY <1>0, <1>7, Frames DEF Release, SettingsInv, UpdatesAreSafe, InUse, Active
<1>8. CASE UNCHANGED vars
  BY <1>0, <1>8, Frames DEF vars, SettingsInv, UpdatesAreSafe
<1> QED BY <1>1, <1>2, <1>3, <1>4, <1>5, <1>6, <1>7, <1>8 DEF Next

LEMMA Invariant == Spec => []SettingsInv
BY InitInv, StepInv, PTL DEF Spec

-----------------------------------------------------------------------------
(* The theorems.                                                           *)

\* What the client was told is what its audio is recognised with, after any
\* number of updates, for any models, except that with the turn detection off
\* it is told of no threshold while the task has the one that was last named.
THEOREM ToldIsRunHolds == Spec => []ToldIsRun
<1>1. SettingsInv => ToldIsRun
  <2> SUFFICES ASSUME SettingsInv, Active PROVE ToldIsRun
    BY DEF ToldIsRun
  <2>1. /\ turn.settings = settings /\ turn.task = Options(settings) /\ told = Session(settings)
        /\ named = settings.silence /\ settings \in Setting /\ Settled(settings)
    BY DEF SettingsInv, InUse
  <2>2. Session(settings).silence = (IF settings.vad THEN Options(settings).silence ELSE Omitted)
    BY <2>1 DEF Session, Options, Settled, Setting
  <2>3. Session(settings)
          = [Options(settings) EXCEPT !.silence = IF Options(settings).vad THEN @ ELSE Omitted]
    BY <2>2 DEF Session, Options
  <2>4. Options(settings).silence
          = IF Options(settings).model \in V1 THEN Omitted ELSE named
    BY <2>1 DEF Options, Settled
  <2> QED BY <2>1, <2>3, <2>4 DEF ToldIsRun
<1> QED BY <1>1, Invariant, PTL

\* A complete update is accepted in every state that an earlier session could
\* have left, or in none: no flag of an earlier one makes it fail.
THEOREM HistoryFreeHolds == Spec => []HistoryFree
<1>1. ASSUME NEW c \in Setting, NEW d \in Setting, Settled(c), Settled(d), NEW p \in Complete,
             Accepts(c, p)
      PROVE  Accepts(d, p)
  <2>1. p \in Patch /\ p.model # Absent /\ p.language # Absent /\ p.prompt # Absent
        /\ p.turn # Absent /\ InRange(p) /\ Valid(Options(Merge(c, p)))
    BY <1>1 DEF Complete, Accepts
  <2> DEFINE m == Options(Merge(c, p))
             n == Options(Merge(d, p))
  <2>2. m.model = n.model /\ m.language = n.language /\ m.prompt = n.prompt /\ m.model = p.model
    BY <2>1 DEF Options, Merge, Or
  <2>3. /\ m.silence = (IF p.model \in V1 /\ ~Explicit(c, p) THEN Omitted
                        ELSE IF p.silence # Omitted THEN p.silence ELSE c.silence)
        /\ n.silence = (IF p.model \in V1 /\ ~Explicit(d, p) THEN Omitted
                        ELSE IF p.silence # Omitted THEN p.silence ELSE d.silence)
    BY <2>1 DEF Options, Merge, Or
  <2>4. p.model \in V1 => (Explicit(c, p) <=> Explicit(d, p))
    BY <2>1 DEF Explicit, Or
  <2>5. Valid(m)
    BY <2>1
  <2> HIDE DEF m, n
  <2>6. p.model \in V1 => n.silence = Omitted
    <3> SUFFICES ASSUME p.model \in V1 PROVE n.silence = Omitted
      OBVIOUS
    <3>1. m.silence = Omitted
      BY <2>2, <2>5 DEF Valid
    <3>2. CASE Explicit(c, p)
      <4>1. p.silence # Omitted \/ (c.silence = Omitted)
        BY <2>3, <3>1, <3>2
      <4>2. c.silence # Omitted
        BY <1>1, Span DEF Settled
      <4> QED BY <2>3, <2>4, <3>1, <3>2, <4>1, <4>2
    <3>3. CASE ~Explicit(c, p)
      BY <2>3, <2>4, <3>3
    <3> QED BY <3>2, <3>3
  <2>7. n.silence # Omitted => n.silence \in Thresholds
    BY <1>1, <2>1, <2>3, GivenInSpan DEF Settled
  <2>8. Valid(n)
    BY <2>2, <2>5, <2>6, <2>7 DEF Valid
  <2> QED BY <2>1, <2>8 DEF Accepts, n
<1>2. New(Empty) \in Setting /\ Settled(New(Empty))
  BY DefaultInSpan, Assumed DEF New, Setting, Settled
<1>3. SettingsInv => HistoryFree
  BY <1>1, <1>2 DEF SettingsInv, HistoryFree
<1> QED BY <1>3, Invariant, PTL

\* An update that is accepted never ends the session: the prompt is passed on
\* only to tasks that can take it.
THEOREM UpdatesAreSafeHolds == Spec => []UpdatesAreSafe
<1>1. SettingsInv => UpdatesAreSafe
  BY DEF SettingsInv
<1> QED BY <1>1, Invariant, PTL

=============================================================================
