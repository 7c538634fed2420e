--------------------------- MODULE SessionSettings ---------------------------
(***************************************************************************)
(* The settings of a WebSocket session: realtimeSettings and its update in *)
(* internal/httpapi/realtime_protocol.go, the check of realtime.Options,   *)
(* and session.update in handle of realtime_ws.go, which passes a new      *)
(* prompt on to the task that is taking audio.                             *)
(*                                                                         *)
(* A session.update is a patch: what it does not name is kept, and what    *)
(* results is checked as a whole.  The models differ: the first version of *)
(* Paraformer takes no silence threshold, few take a prompt, each has its  *)
(* languages.  Sample rates, which follow from the model, and the form of  *)
(* a message (unknown fields, null, the length of a prompt) are left out.  *)
(* Op_Variant: see WsBridge.                                               *)
(***************************************************************************)
EXTENDS Integers

CONSTANTS
  Model, Language, Prompt, \* what a client may name; each prompt is not empty
  Silence,  \* silence thresholds that it may name
  Realtime, \* the models with a realtime route
  V1,       \* IsParaformerV1
  Context,  \* SupportsContext
  Updates,  \* the models whose tasks take a new prompt: UpdatePrompt
  Speaks    \* SupportsLanguage: the languages of each model

Empty   == "" \* the string
Default == 1300

ASSUME SettingsAssumption ==
  /\ Empty \notin Model \cup Language \cup Prompt
  /\ Silence \subseteq Nat
  /\ V1 \cup Context \subseteq Realtime /\ Realtime \subseteq Model
  /\ Context \subseteq Updates /\ Updates \subseteq Realtime \ V1
  /\ Speaks \in [Model -> SUBSET Language]

VARIABLES
  settings, \* b.settings
  turn,     \* the active turn: its settings and the options its task runs with
  told,     \* the session that the client was last told of
  lost,     \* the connection of a task was lost
  ended,    \* the session has ended
  named     \* history: the threshold that was last named, at first Default

vars == <<settings, turn, told, lost, ended, named>>

Omitted == 0 \* a threshold that is not given: the service has its own

Options(c) ==
  [model |-> c.model, language |-> c.language, prompt |-> c.prompt, vad |-> c.vad,
   silence |-> IF c.model \in V1 /\ ~c.explicit THEN Omitted ELSE c.silence]

Thresholds == 200 .. 6000

\* Validate of realtime.Options.
Valid(o) ==
  /\ o.model \in Realtime
  /\ o.model \in V1 => o.silence = Omitted
  /\ o.language # Empty => o.language \in Speaks[o.model]
  /\ o.prompt # Empty => o.model \in Context
  /\ o.silence # Omitted => o.silence \in Thresholds

\* session: what the client is told.
Session(c) ==
  [model |-> c.model, language |-> c.language, prompt |-> c.prompt, vad |-> c.vad,
   silence |-> IF c.vad /\ c.model \notin V1 THEN c.silence ELSE Omitted]

New(m) == [model |-> m, language |-> Empty, prompt |-> Empty, vad |-> FALSE,
           silence |-> Default, explicit |-> FALSE]

NoTurn == [settings |-> New(Empty), task |-> Options(New(Empty))]

\* The model may be a parameter of the URL.
Init ==
  /\ settings \in {New(m) : m \in {Empty} \cup {m \in Model : Valid(Options(New(m)))}}
  /\ turn = NoTurn /\ told = Session(settings) /\ lost = FALSE /\ ended = FALSE
  /\ named = Default

-----------------------------------------------------------------------------
(* update.                                                                 *)

Absent == "absent" \* a field that the patch does not name
Patch ==
  {p \in [model : Model \cup {Absent}, language : Language \cup {Empty, Absent},
          prompt : Prompt \cup {Empty, Absent},
          turn : {"server_vad", "null", Absent}, silence : Silence \cup {Omitted}] :
     p.turn # "server_vad" => p.silence = Omitted}

Or(new, old) == IF new = Absent THEN old ELSE new

\* Whether a threshold was set is forgotten with the detection, or when the
\* detection is set for a model that takes none.
Explicit_Kept(c, p) ==
  p.turn # "null" /\ (c.explicit \/ p.silence # Omitted)
Explicit(c, p) ==
  \/ p.turn = Absent /\ c.explicit
  \/ p.turn = "server_vad"
       /\ (p.silence # Omitted \/ (c.explicit /\ Or(p.model, c.model) \notin V1))

Merge(c, p) ==
  [model    |-> Or(p.model, c.model),
   language |-> Or(p.language, c.language),
   prompt   |-> Or(p.prompt, c.prompt),
   vad      |-> IF p.turn = Absent THEN c.vad ELSE p.turn = "server_vad",
   silence  |-> IF p.silence # Omitted THEN p.silence ELSE c.silence,
   explicit |-> Explicit(c, p)]

InRange(p) == p.silence # Omitted => p.silence \in Thresholds

Accepts(c, p) == InRange(p) /\ Valid(Options(Merge(c, p)))

-----------------------------------------------------------------------------
(* The messages of the client.                                             *)

Active == turn # NoTurn
Tell(c) == settings' = c /\ told' = Session(c)
Note(p) == named' = IF p.silence # Omitted THEN p.silence ELSE named

Update ==
  /\ ~ended /\ ~Active
  /\ \E p \in Patch : Accepts(settings, p) /\ Tell(Merge(settings, p)) /\ Note(p)
  /\ UNCHANGED <<turn, lost, ended>>

\* Only the prompt may change while a turn takes audio.
OnlyPrompt_Any(c) == [settings EXCEPT !.language = c.language, !.prompt = c.prompt] = c
OnlyPrompt(c) == [settings EXCEPT !.prompt = c.prompt] = c

\* UpdatePrompt, which the tasks of Paraformer and Qwen-ASR refuse.
PassOn_Always(c) ==
  \/ /\ turn.task.model \in Updates
     /\ turn' = [settings |-> c, task |-> [turn.task EXCEPT !.prompt = c.prompt]]
     /\ Tell(c) /\ UNCHANGED <<lost, ended>>
  \/ /\ turn.task.model \notin Updates
     /\ ended' = TRUE /\ UNCHANGED <<settings, turn, told, lost>>
PassOn(c) ==
  \/ /\ c.prompt = settings.prompt
     /\ Tell(c) /\ UNCHANGED <<turn, lost, ended>>
  \/ /\ c.prompt # settings.prompt /\ turn.task.model \in Updates
     /\ turn' = [settings |-> c, task |-> [turn.task EXCEPT !.prompt = c.prompt]]
     /\ Tell(c) /\ UNCHANGED <<lost, ended>>
  \/ /\ c.prompt # settings.prompt /\ turn.task.model \notin Updates
     /\ ended' = TRUE /\ UNCHANGED <<settings, turn, told, lost>>

UpdateActive ==
  /\ ~ended /\ Active
  /\ \E p \in Patch :
       /\ Accepts(settings, p) /\ Note(p)
       /\ LET c == Merge(settings, p) IN OnlyPrompt(c) /\ PassOn(c)

\* The write of the new prompt fails.
PromptLost ==
  /\ ~ended /\ Active
  /\ \E p \in Patch :
       /\ Accepts(settings, p)
       /\ LET c == Merge(settings, p) IN OnlyPrompt(c) /\ c.prompt # settings.prompt
  /\ lost' = TRUE /\ ended' = TRUE
  /\ UNCHANGED <<settings, turn, told, named>>

\* An update that is not accepted leaves everything as it was.
Refused ==
  /\ ~ended
  /\ \E p \in Patch :
       \/ ~Accepts(settings, p)
       \/ Active /\ ~OnlyPrompt(Merge(settings, p))
  /\ UNCHANGED vars

\* The first append of a turn: startTurn.
Append ==
  /\ ~ended /\ ~Active /\ settings.model # Empty
  /\ turn' = [settings |-> settings, task |-> Options(settings)]
  /\ UNCHANGED <<settings, told, lost, ended, named>>

StartFails ==
  /\ ~ended /\ ~Active /\ settings.model # Empty
  /\ lost' = TRUE /\ ended' = TRUE
  /\ UNCHANGED <<settings, turn, told, named>>

\* commit, or clear: the turn takes no more audio.
Release ==
  /\ ~ended /\ Active
  /\ turn' = NoTurn
  /\ UNCHANGED <<settings, told, lost, ended, named>>

Next == Update \/ UpdateActive \/ PromptLost \/ Refused \/ Append \/ StartFails \/ Release

Spec == Init /\ [][Next]_vars

-----------------------------------------------------------------------------
(* Properties.                                                             *)

\* What the client was told is what its audio is recognised with: the same
\* model, language, prompt and turn detection as those the task of the active
\* turn was started with or has been told since, and with the detection on the
\* same threshold.  With the detection off the client is told of none, yet the
\* options of the task still have one: that last named while it was on, or
\* Default (Start sends it to Fun-ASR and to the second Paraformer; Qwen-ASR
\* has no use for it).  The first Paraformer is never given one, whatever was
\* named for other models.
ToldIsRun ==
  Active => /\ turn.settings = settings
            /\ turn.task = Options(settings)
            /\ turn.task.silence = IF turn.task.model \in V1 THEN Omitted ELSE named
            /\ told = [turn.task EXCEPT !.silence = IF turn.task.vad THEN @ ELSE Omitted]

\* An update that names the model, the language, the prompt and the turn
\* detection is accepted or not for what it says: nothing that an earlier
\* update has set, such as a threshold for another model, makes it fail.
Complete == {p \in Patch : Absent \notin {p.model, p.language, p.prompt, p.turn}}

HistoryFree == \A p \in Complete : Accepts(settings, p) <=> Accepts(New(Empty), p)

\* No update that is accepted ends the session: a prompt is passed on only
\* to a task that can take it, and an update that repeats the settings is
\* harmless with every model.
UpdatesAreSafe == ended => lost

=============================================================================
