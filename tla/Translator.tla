----------------------------- MODULE Translator -----------------------------
(***************************************************************************)
(* The translator of the workbench (components/chat/TranslatePane.tsx): a  *)
(* source and a target pane.  What is typed is translated when it has been *)
(* left alone for 700 ms, a document as soon as its text was extracted;    *)
(* either stops the translation before it.  Each is a stream of chunks     *)
(* that writes to the target pane.                                         *)
(***************************************************************************)
EXTENDS Integers, FiniteSets

CONSTANTS
  Texts,       \* what can be typed, or be read in a document
  NoText,      \* an empty pane
  From, To,    \* the languages of a new pane
  Others,      \* the other languages
  MaxAwaited   \* documents whose text is awaited, or that were stopped and have yet to
               \* notice it (a bound)

ASSUME NoTextIsNone == NoText \notin Texts /\ MaxAwaited \in Nat

VARIABLES
  source,     \* the text in the source pane
  pair,       \* the languages, from and to
  target,     \* the target pane: nothing, or what it translates and with which languages
  running,    \* the translations under way: at most one, abortRef's
  stopped,    \* documents whose translation was stopped and has yet to notice it
  timer,      \* the 700 ms are running
  busy,       \* the pane says that it is translating
  extracting, \* the languages at each drop of a document whose text is awaited
  upset       \* history: since the timer last ran out something failed, an answer was
              \* empty, or a document came with the text that was in the source pane
              \* already, after the languages had been changed

translatorVars == <<source, pair, target, running, stopped, timer, busy, extracting, upset>>
panes          == <<source, pair>>

Langs     == {From, To} \cup Others
Pairs     == Langs \X Langs
What(run) == [of |-> run.of, pair |-> run.pair]
Plain     == [of |-> NoText, pair |-> <<>>]  \* a warning, or a text that was in the source

Awaited   == Cardinality(extracting) + stopped  \* in Extracted it does not grow

TranslatorInit ==
  /\ source = NoText /\ pair = <<From, To>> /\ target = NoText
  /\ running = {} /\ stopped = 0
  /\ timer = FALSE /\ busy = FALSE /\ extracting = {} /\ upset = FALSE

-----------------------------------------------------------------------------
(* The effect on the source and the languages starts the 700 ms over or, when there is no
   text, empties the target.  It stops no translation. *)

Effect(text, langs, shown) ==
  /\ source' = text /\ pair' = langs
  /\ IF <<text, langs>> = panes THEN UNCHANGED <<timer, busy>> /\ target' = shown
     ELSE /\ timer' = (text # NoText)
          /\ busy' = (busy /\ text # NoText)
          /\ target' = IF text = NoText THEN NoText ELSE shown
  /\ UNCHANGED <<running, stopped, extracting, upset>>

TypeSource(text)    == Effect(text, pair, target)  \* and the button that clears the panes
ChooseFrom(l) == Effect(source, <<l, pair[2]>>, target)
ChooseTo(l)   == Effect(source, <<pair[1], l>>, target)

\* The texts are exchanged with the languages, unless a translation is shown as running.
Swap ==
  LET swapped == <<pair[2], pair[1]>> IN
  IF target = NoText \/ busy THEN Effect(source, swapped, target)
  ELSE \E text \in Texts :
         Effect(text, swapped, IF text = source THEN target
                               ELSE IF source = NoText THEN NoText ELSE Plain)

\* A pane that is closed forgets everything it awaits.
Close ==
  /\ source' = NoText /\ pair' = <<From, To>> /\ target' = NoText
  /\ running' = {} /\ stopped' = 0
  /\ timer' = FALSE /\ busy' = FALSE /\ extracting' = {} /\ upset' = FALSE

-----------------------------------------------------------------------------
(* Translations. *)

\* (slip: the translation before is left running)
BeginBeside(run) == running' = running \cup {run} /\ UNCHANGED stopped

\* The one before is told to stop.  A document notices that only later.
Begin(run) ==
  /\ running' = {run}
  /\ stopped' = IF \E r \in running : r.document THEN stopped + 1 ELSE stopped

Translate ==
  /\ timer /\ timer' = FALSE
  /\ (\E r \in running : r.document) => Awaited < MaxAwaited
  /\ Begin([of |-> source, pair |-> pair, document |-> FALSE])
  /\ busy' = TRUE /\ upset' = FALSE
  /\ UNCHANGED <<panes, target, extracting>>

Chunk(run) ==
  /\ target' = What(run)
  /\ UNCHANGED <<panes, running, stopped, timer, busy, extracting, upset>>

Done(run) ==
  /\ running' = running \ {run} /\ busy' = FALSE
  /\ upset' = (upset \/ target # What(run))
  /\ UNCHANGED <<panes, target, stopped, timer, extracting>>

Failed(run) ==
  /\ running' = running \ {run} /\ busy' = FALSE
  /\ target' = Plain /\ upset' = TRUE
  /\ UNCHANGED <<panes, stopped, timer, extracting>>

\* A document that was stopped takes away the sign that something is being translated.
Stopped ==
  /\ stopped > 0 /\ stopped' = stopped - 1
  /\ busy' = FALSE
  /\ UNCHANGED <<panes, target, running, timer, extracting, upset>>

-----------------------------------------------------------------------------
(* Documents.  A drop is taken while another document is being read. *)

DropDocument ==
  /\ Awaited < MaxAwaited /\ extracting' = extracting \cup {pair}
  /\ UNCHANGED <<panes, target, running, stopped, timer, busy, upset>>

\* Its text becomes the source, which starts the 700 ms, and is translated at once, with
\* the languages of the drop.
Extracted(langs, text) ==
  /\ extracting' = extracting \ {langs}
  /\ source' = text /\ timer' = (timer \/ text # source)
  /\ Begin([of |-> text, pair |-> langs, document |-> TRUE])
  /\ target' = NoText /\ busy' = TRUE
  /\ upset' = (upset \/ (text = source /\ langs # pair))
  /\ UNCHANGED pair

NotExtracted(langs) ==
  /\ extracting' = extracting \ {langs}
  /\ target' = Plain /\ upset' = TRUE
  /\ UNCHANGED <<panes, running, stopped, timer, busy>>

TranslatorNext ==
  \/ \E text \in Texts \cup {NoText} : TypeSource(text)
  \/ \E l \in Langs : ChooseFrom(l) \/ ChooseTo(l)
  \/ Swap \/ Close \/ Translate \/ Stopped \/ DropDocument
  \/ \E run \in running : Chunk(run) \/ Done(run) \/ Failed(run)
  \/ \E langs \in extracting : NotExtracted(langs) \/ \E text \in Texts : Extracted(langs, text)

-----------------------------------------------------------------------------
(* What must hold. *)

\* Once nothing is awaited any more, the target pane shows a translation of the text
\* beside it, in the languages above it, however typing, swapping and documents crossed,
\* unless something failed or was empty since, or the languages were changed while the
\* document shown was being read again.
TranslationShown ==
  ~timer /\ extracting = {} /\ running = {} /\ source # NoText /\ ~upset =>
    target = [of |-> source, pair |-> pair]
==============================================================================
