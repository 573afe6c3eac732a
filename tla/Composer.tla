------------------------------ MODULE Composer ------------------------------
(***************************************************************************)
(* The composer of the workbench (components/chat/InputBar.tsx).  The      *)
(* draft is the store's and outlives the composer that a conversation's    *)
(* page shows; what was chosen in the composer does not, and a recognition *)
(* of speech is not stopped with it.  The route that files are uploaded to *)
(* does not exist, so none is ever attached; voices are module Library's.  *)
(***************************************************************************)
EXTENDS Integers, FiniteSets

CONSTANTS Words, Tools  \* what is typed or said, once each (a bound); skills, agents, plugins

VARIABLES
  draft,     \* the words in the draft
  used,      \* history: the words typed and said
  gone,      \* history: the words that a question took along, or the user threw away
  chosen,    \* in the composer: media mode, task mode, aspect ratio, length, voice, tools
  recording, \* the button says that it records
  hearing    \* the recognitions that hear: this composer's own, one left behind

composerVars == <<draft, used, gone, chosen, recording, hearing>>
text         == <<draft, used, gone>>
ears         == <<recording, hearing>>

NoMode == "chat"
Media  == {"image", "video", "audio"}
Tasks  == {"translate", "research", "code", "vision"}
Ratios == [image |-> {"1:1", "3:4"}, video |-> {"16:9", "1:1"}]  \* two of each
Unset  == [media |-> NoMode, task |-> NoMode, ratio |-> "1:1", length |-> 5,
           voice |-> "default", tools |-> {}]

ComposerInit ==
  /\ draft = {} /\ used = {} /\ gone = {} /\ chosen = Unset
  /\ recording = FALSE /\ hearing = {}

Shown == chosen.task # "translate"  \* where the translator takes its place

-----------------------------------------------------------------------------
(* The draft. *)

New(w) == w \notin used /\ used' = used \cup {w}

TypeWord(w) ==
  /\ Shown /\ New(w)
  /\ draft' = draft \cup {w}
  /\ UNCHANGED <<gone, chosen, ears>>

ThrowAway ==  \* Escape, or "Back to chat" of the translator
  /\ draft' = {} /\ gone' = gone \cup draft
  /\ chosen' = IF Shown THEN chosen ELSE [chosen EXCEPT !.task = NoMode]
  /\ UNCHANGED <<used, ears>>

\* The modes are for one question; ratio, length, voice and tools stay.
Submit ==
  /\ Shown /\ draft # {}
  /\ draft' = {} /\ gone' = gone \cup draft
  /\ chosen' = [chosen EXCEPT !.media = NoMode, !.task = NoMode]
  /\ UNCHANGED <<used, ears>>

-----------------------------------------------------------------------------
(* Speech. *)

ToggleVoice ==
  /\ Shown
  /\ recording' = ~recording
  /\ hearing' = IF recording THEN hearing \ {"own"} ELSE hearing \cup {"own"}
  /\ UNCHANGED <<text, chosen>>

\* (slip: what is said takes the draft's place)
SaidInstead(w) ==
  /\ hearing # {} /\ New(w)
  /\ draft' = {w}
  /\ UNCHANGED <<gone, chosen, ears>>

\* It is added to the draft that the store has now, whichever composer began to listen.
Said(w) ==
  /\ hearing # {} /\ New(w)
  /\ draft' = draft \cup {w}
  /\ UNCHANGED <<gone, chosen, ears>>

RecognitionEnds(ear) ==
  /\ hearing' = hearing \ {ear}
  /\ recording' = (recording /\ ear # "own")
  /\ UNCHANGED <<text, chosen>>

\* Another conversation's page: a new composer, and the old one's recognition goes on.
Leave ==
  /\ chosen' = Unset /\ recording' = FALSE
  /\ hearing' = IF hearing = {} THEN {} ELSE {"left"}
  /\ UNCHANGED text

-----------------------------------------------------------------------------
(* What is chosen. *)

Chooses(choice) == Shown /\ chosen' = choice /\ UNCHANGED <<text, ears>>

Pressed(mode, now) == IF now = mode THEN NoMode ELSE mode
MediaMode(m) == Chooses([chosen EXCEPT !.media = Pressed(m, @), !.task = NoMode])
TaskMode(t)  == Chooses([chosen EXCEPT !.task = Pressed(t, @), !.media = NoMode])

AspectRatio ==
  /\ chosen.media \in DOMAIN Ratios
  /\ \E ratio \in Ratios[chosen.media] : Chooses([chosen EXCEPT !.ratio = ratio])

Duration == chosen.media = "video" /\ \E n \in {5, 8} : Chooses([chosen EXCEPT !.length = n])

ChooseVoice ==
  chosen.media = "audio" /\ \E v \in {"default", "another"} : Chooses([chosen EXCEPT !.voice = v])

ToggleTool(t) == Chooses([chosen EXCEPT !.tools = IF t \in @ THEN @ \ {t} ELSE @ \cup {t}])

CloseTranslator ==
  /\ ~Shown
  /\ chosen' = [chosen EXCEPT !.task = NoMode]
  /\ UNCHANGED <<text, ears>>

ComposerNext ==
  \/ ThrowAway \/ Submit \/ ToggleVoice \/ Leave \/ AspectRatio \/ Duration
  \/ ChooseVoice \/ CloseTranslator
  \/ \E w \in Words : TypeWord(w) \/ Said(w)
  \/ \E ear \in hearing : RecognitionEnds(ear)
  \/ \E m \in Media : MediaMode(m)
  \/ \E t \in Tasks : TaskMode(t)
  \/ \E t \in Tools : ToggleTool(t)

-----------------------------------------------------------------------------
(* What must hold. *)

\* No word is lost, typed in a composer or said to it or to one that was left meanwhile:
\* it is in the draft, went with a question, or was thrown away.
WordsKept == used \subseteq draft \cup gone
==============================================================================
