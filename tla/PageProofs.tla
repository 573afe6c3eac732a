----------------------------- MODULE PageProofs ------------------------------
(***************************************************************************)
(* Theorems about the parts of the page and the handlers behind them, for  *)
(* any number of words, texts, runs, calls and connections: the composer,  *)
(* the agent view, the intervals of the websocket, the translation pane,   *)
(* the broker's tokens and the arena's votes, and the sidebar's and the    *)
(* library's lists.                                                        *)
(***************************************************************************)
EXTENDS Composer, Runner, Realtime, Translator, BackOffice, Library, TLAPS

ComposerSpec == ComposerInit /\ [][ComposerNext]_composerVars
RunnerSpec   == RunnerInit /\ [][RunnerNext]_runnerVars
RealtimeSpec == RealtimeInit /\ [][RealtimeNext]_realtimeVars
TranslatorSpec == TranslatorInit /\ [][TranslatorNext]_translatorVars
OfficeSpec     == CallsInit /\ OfficeInit /\ [][OfficeNext]_<<call, officeVars>>
LibrarySpec    == CallsInit /\ LibraryInit /\ [][LibraryNext]_<<call, libraryVars>>

-----------------------------------------------------------------------------
(* The composer: the property is inductive as it stands. *)

\* Every word typed or said is in the draft, went with a question or was thrown away.
THEOREM ComposerKeepsWords == ComposerSpec => []WordsKept
<1>1. ComposerInit => WordsKept
  BY DEF ComposerInit, WordsKept
<1>2. WordsKept /\ [ComposerNext]_composerVars => WordsKept'
  <2> SUFFICES ASSUME WordsKept, [ComposerNext]_composerVars PROVE WordsKept'
    OBVIOUS
  <2> USE DEF WordsKept
  <2>1. ASSUME UNCHANGED text PROVE WordsKept'
    BY <2>1 DEF text
  <2>2. CASE ThrowAway \/ Submit
    BY <2>2 DEF ThrowAway, Submit
  <2>3. CASE ToggleVoice \/ Leave \/ AspectRatio \/ Duration \/ ChooseVoice \/ CloseTranslator
    BY <2>1, <2>3 DEF ToggleVoice, Leave, AspectRatio, Duration, ChooseVoice,
       CloseTranslator, Chooses
  <2>4. ASSUME NEW w \in Words, TypeWord(w) \/ Said(w) PROVE WordsKept'
    BY <2>4 DEF TypeWord, Said, New
  <2>5. ASSUME NEW ear \in hearing, RecognitionEnds(ear) PROVE WordsKept'
    BY <2>1, <2>5 DEF RecognitionEnds
  <2>6. ASSUME NEW m \in Media, MediaMode(m) PROVE WordsKept'
    BY <2>1, <2>6 DEF MediaMode, Chooses
  <2>7. ASSUME NEW t \in Tasks, TaskMode(t) PROVE WordsKept'
    BY <2>1, <2>7 DEF TaskMode, Chooses
  <2>8. ASSUME NEW t \in Tools, ToggleTool(t) PROVE WordsKept'
    BY <2>1, <2>8 DEF ToggleTool, Chooses
  <2>9. CASE UNCHANGED composerVars
    BY <2>1, <2>9 DEF composerVars, text
  <2> QED
    BY <2>2, <2>3, <2>4, <2>5, <2>6, <2>7, <2>8, <2>9 DEF ComposerNext
<1> QED
  BY <1>1, <1>2, PTL DEF ComposerSpec

-----------------------------------------------------------------------------
(* The websocket. *)

\* A socket is accepted after it connected; a cookie that is still looked up is that
\* of an open socket or of one that closed meanwhile.
RealtimeInv ==
  /\ socket \in [Sockets -> {"away", "open", "closed"}]
  /\ looking \subseteq Sockets /\ welcome \subseteq Sockets /\ hasty \subseteq Sockets
  /\ \A s \in welcome \cup hasty : socket[s] # "away"
  /\ \A s \in looking : socket[s] = "open" \/ s \in hasty
  /\ TimersFollow

\* The intervals are those of the open sockets that were accepted, but for the ones of
\* sockets that closed while their cookie was looked up.
THEOREM RealtimeTimersFollow == RealtimeSpec => []TimersFollow
<1> USE DEF RealtimeInv, TimersFollow
<1>1. RealtimeInit => RealtimeInv
  BY DEF RealtimeInit
<1>2. RealtimeInv /\ [RealtimeNext]_realtimeVars => RealtimeInv'
  <2> SUFFICES ASSUME RealtimeInv, [RealtimeNext]_realtimeVars PROVE RealtimeInv'
    OBVIOUS
  <2>1. ASSUME NEW s \in Sockets, Connects(s) PROVE RealtimeInv'
    BY <2>1 DEF Connects
  <2>2. ASSUME NEW s \in Sockets, Accepts(s) PROVE RealtimeInv'
    <3>1. /\ looking' = looking \ {s} /\ timers' = timers \cup {s} /\ welcome' = welcome \cup {s}
          /\ UNCHANGED <<socket, hasty>> /\ s \in looking
      BY <2>2 DEF Accepts
    <3>2. socket[s] = "open" \/ s \in hasty
      BY <3>1
    <3>3. {w \in welcome' : socket[w] = "open"} \subseteq timers'
      BY <3>1
    <3>4. timers' \subseteq {w \in welcome' : socket[w] = "open"} \cup hasty
      BY <3>1, <3>2
    <3>5. TimersFollow'
      BY <3>1, <3>3, <3>4
    <3> QED
      BY <3>1, <3>2, <3>5
  <2>3. ASSUME NEW s \in Sockets, Refuses(s) \/ Ticks(s) \/ Tells(s) PROVE RealtimeInv'
    BY <2>3 DEF Refuses, Ticks, Tells
  <2>4. ASSUME NEW s \in Sockets, Disconnects(s) PROVE RealtimeInv'
    BY <2>4 DEF Disconnects
  <2>5. CASE Breaks
    BY <2>5 DEF Breaks
  <2>6. CASE UNCHANGED realtimeVars
    BY <2>6 DEF realtimeVars
  <2> QED
    BY <2>1, <2>2, <2>3, <2>4, <2>5, <2>6 DEF RealtimeNext
<1> QED
  BY <1>1, <1>2, PTL DEF RealtimeSpec

-----------------------------------------------------------------------------
(* The agent page. *)

Statuses == {"none", "active", "awaiting", "ended"}
ReadStops == {"detail", "show", "status", "end"}
AskStops  == {"create", "list", "serve", "watch"}
Reads     == [run : Runs, at : ReadStops, got : Statuses, now : Statuses]
Requests  == [does : {"launch", "cancel", "decide"}, at : AskStops, run : Runs \cup {NoRun}]
HasRun(a) == a \in Requests /\ (a.at # "create" => a.run \in Runs)
RunnerTypes ==
  /\ status \in [Runs -> Statuses]
  /\ detail \in [run : Runs \cup {NoRun}, status : Statuses]
  /\ detail # Nothing => detail.run \in Runs
  /\ poll \in Runs \cup {NoRun}
  /\ reads \subseteq Reads
  /\ \A a \in asks : HasRun(a)
  /\ mixed \in BOOLEAN

\* While nothing is mixed, one read at most is under way, for a run that is polled, and
\* what it has shown is still there, unless a launch has cleared the view.
Calm ==
  ~mixed =>
    /\ \A l, m \in reads : l = m
    /\ reads # {} => poll # NoRun
    /\ \A l \in reads : l.at \in {"status", "end"} => detail.status \in {l.got, "none"}
    /\ poll = NoRun => detail.status # "active"

RunnerInv == RunnerTypes /\ Calm

\* What the views and the polls keep when none of them changes.
LEMMA RunnerRests ==
  ASSUME RunnerInv, UNCHANGED <<detail, poll, reads, mixed>>, status' \in [Runs -> Statuses],
         \A a \in asks' : HasRun(a)
  PROVE  RunnerInv'
BY DEF RunnerInv, RunnerTypes, Calm, Nothing

\* A request that goes on still has its run, and so has one that is new.
LEMMA AskTurns ==
  ASSUME RunnerInv, NEW a \in asks, NEW where \in AskStops, NEW r \in Runs, Turns(a, where, r)
  PROVE  \A b \in asks' : HasRun(b)
<1>1. HasRun(a)
  BY DEF RunnerInv, RunnerTypes
<1> DEFINE next == [a EXCEPT !.at = where, !.run = r]
<1>2. next \in Requests /\ next.run = r
  BY <1>1 DEF HasRun, Requests
<1>3. HasRun(next)
  BY <1>2 DEF HasRun
<1> HIDE DEF next
<1>4. asks' = (asks \ {a}) \cup {next}
  BY DEF Turns, next
<1> QED
  BY <1>3, <1>4 DEF RunnerInv, RunnerTypes

LEMMA AskBegins ==
  ASSUME RunnerInv, NEW what \in {"launch", "cancel", "decide"}, NEW where \in AskStops,
         NEW r \in Runs \cup {NoRun}, Ask(what, where, r),
         where = "create" \/ r \in Runs
  PROVE  \A b \in asks' : HasRun(b)
<1>1. HasRun([does |-> what, at |-> where, run |-> r])
  BY DEF HasRun, Requests
<1> QED
  BY <1>1 DEF Ask, RunnerInv, RunnerTypes

\* What a read is, from its beginning to its end.
LEMMA ReadBegins ==
  ASSUME NEW r \in Runs
  PROVE  Read(r) \in Reads /\ Read(r).at = "detail"
BY DEF Read, Reads, Statuses, ReadStops

LEMMA ReadGoesOn ==
  ASSUME NEW l \in Reads, NEW s \in Statuses
  PROVE  /\ [l EXCEPT !.at = "show", !.got = s] \in Reads
         /\ [l EXCEPT !.at = "show", !.got = s].at = "show"
         /\ [l EXCEPT !.at = "status"] \in Reads /\ [l EXCEPT !.at = "status"].got = l.got
         /\ [l EXCEPT !.at = "end", !.now = s] \in Reads
         /\ [l EXCEPT !.at = "end", !.now = s].got = l.got
BY DEF Reads, ReadStops

LEMMA ReadBecomes ==
  ASSUME RunnerInv, NEW l \in reads, NEW next \in Reads, Becomes(l, next)
  PROVE  /\ reads' \subseteq Reads
         /\ ~mixed => reads' = {next}
<1>1. reads' \subseteq Reads
  BY DEF RunnerInv, RunnerTypes, Becomes
<1>2. ASSUME ~mixed PROVE reads = {l}
  BY <1>2 DEF RunnerInv, Calm
<1> QED
  BY <1>1, <1>2 DEF Becomes

\* Watching a run polls it, and mixes up nothing unless reads are under way.
LEMMA WatchCalms ==
  ASSUME RunnerInv, NEW r \in Runs, Watch(r), UNCHANGED <<status, detail>>, asks' \subseteq asks
  PROVE  RunnerInv'
<1>1. Read(r) \in Reads /\ Read(r).at = "detail"
  BY ReadBegins
<1>2. RunnerTypes'
  BY <1>1 DEF RunnerInv, RunnerTypes, Watch
<1>3. Calm'
  BY <1>1, RunsOK DEF RunnerInv, Calm, Watch
<1> QED
  BY <1>2, <1>3 DEF RunnerInv

\* A view that shows a run as active is read again: the page polls, unless two reads
\* crossed or one met a change of the run between its halves.
THEOREM RunnerKeepsWatching == RunnerSpec => []KeepsWatching
<1>1. RunnerInit => RunnerInv
  <2> SUFFICES ASSUME RunnerInit PROVE RunnerInv
    OBVIOUS
  <2>1. Nothing \in [run : Runs \cup {NoRun}, status : Statuses] /\ Nothing.status = "none"
    BY DEF Nothing, Statuses
  <2>2. status \in [Runs -> Statuses]
    BY DEF RunnerInit, Statuses
  <2> QED
    BY <2>1, <2>2 DEF RunnerInit, RunnerInv, RunnerTypes, Calm
<1>2. RunnerInv /\ [RunnerNext]_runnerVars => RunnerInv'
  <2> SUFFICES ASSUME RunnerInv, [RunnerNext]_runnerVars PROVE RunnerInv'
    OBVIOUS
  <2>1. CASE Tick
    <3>1. poll \in Runs /\ Read(poll) \in Reads /\ Read(poll).at = "detail"
      BY <2>1, ReadBegins DEF Tick, RunnerInv, RunnerTypes
    <3>2. UNCHANGED <<status, detail, poll, asks>> /\ reads' = reads \cup {Read(poll)}
          /\ mixed' = (mixed \/ reads # {})
      BY <2>1 DEF Tick, engine, page
    <3>3. RunnerTypes'
      BY <3>1, <3>2 DEF RunnerInv, RunnerTypes
    <3>4. Calm'
      BY <3>1, <3>2, RunsOK DEF RunnerInv, Calm
    <3> QED
      BY <3>3, <3>4 DEF RunnerInv
  <2>2. CASE Launch
    <3>1. detail' = Nothing /\ UNCHANGED <<status, poll, reads, mixed>>
      BY <2>2 DEF Launch, Ask, engine
    <3>2. Nothing \in [run : Runs \cup {NoRun}, status : Statuses] /\ Nothing.status = "none"
      BY DEF Nothing, Statuses
    <3>3. \A b \in asks' : HasRun(b)
      BY <2>2, AskBegins DEF Launch, AskStops
    <3> QED
      BY <3>1, <3>2, <3>3 DEF RunnerInv, RunnerTypes, Calm
  <2>3. CASE Cancel \/ Decide
    <3>1. detail.run \in Runs
      BY <2>3 DEF Cancel, Decide, CanCancel, CanDecide, RunnerInv, RunnerTypes, Nothing
    <3>2. \E what \in {"cancel", "decide"} : Ask(what, "serve", detail.run)
      BY <2>3 DEF Cancel, Decide
    <3>3. UNCHANGED <<detail, status, poll, reads, mixed>>
      BY <2>3, <3>2 DEF Cancel, Decide, Ask, engine
    <3>4. \A b \in asks' : HasRun(b)
      BY <3>1, <3>2, AskBegins DEF AskStops
    <3>5. status' \in [Runs -> Statuses]
      BY <3>3 DEF RunnerInv, RunnerTypes
    <3> QED
      BY <3>3, <3>4, <3>5, RunnerRests
  <2>4. CASE LeaveTab
    BY <2>4 DEF LeaveTab, RunnerInv, RunnerTypes, Calm, Nothing, Statuses, engine
  <2>5. ASSUME NEW r \in Runs, Proceeds(r) PROVE RunnerInv'
    <3>1. status' \in [Runs -> Statuses]
      BY <2>5 DEF Proceeds, Settled, Statuses, RunnerInv, RunnerTypes
    <3> QED
      BY <2>5, <3>1, RunnerRests DEF Proceeds, page, RunnerInv, RunnerTypes
  <2>6. ASSUME NEW r \in Runs, WatchListed(r) PROVE RunnerInv'
    BY <2>6, WatchCalms DEF WatchListed, engine
  <2>7. ASSUME NEW l \in reads,
               RunDetail(l) \/ ShowDetail(l) \/ RunStatus(l) \/ EndRead(l) \/ Unread(l)
        PROVE  RunnerInv'
    <3> l \in Reads /\ status[l.run] \in Statuses
      BY DEF RunnerInv, RunnerTypes, Reads
    <3>1. CASE RunDetail(l)
      <4>1. PICK next \in Reads : next.at = "show" /\ Becomes(l, next)
        BY <3>1, ReadGoesOn DEF RunDetail
      <4>2. reads' \subseteq Reads /\ (~mixed => reads' = {next})
        BY <4>1, ReadBecomes
      <4>3. UNCHANGED <<status, detail, poll, asks, mixed>>
        BY <3>1 DEF RunDetail, engine, page
      <4> QED
        BY <4>1, <4>2, <4>3 DEF RunnerInv, RunnerTypes, Calm
    <3>2. CASE ShowDetail(l)
      <4>1. PICK next \in Reads : next.got = l.got /\ Becomes(l, next)
        BY <3>2, ReadGoesOn DEF ShowDetail
      <4>2. reads' \subseteq Reads /\ (~mixed => reads' = {next})
        BY <4>1, ReadBecomes
      <4>3. detail' = [run |-> l.run, status |-> l.got] /\ UNCHANGED <<status, poll, asks, mixed>>
        BY <3>2 DEF ShowDetail, engine
      <4>4. /\ detail' \in [run : Runs \cup {NoRun}, status : Statuses]
            /\ detail'.run \in Runs /\ detail'.status = l.got
        BY <4>3 DEF Reads
      <4> QED
        BY <4>1, <4>2, <4>3, <4>4 DEF RunnerInv, RunnerTypes, Calm
    <3>3. CASE RunStatus(l)
      <4>1. PICK next \in Reads : next.got = l.got /\ Becomes(l, next)
        BY <3>3, ReadGoesOn DEF RunStatus
      <4>2. reads' \subseteq Reads /\ (~mixed => reads' = {next})
        BY <4>1, ReadBecomes
      <4>3. UNCHANGED <<status, detail, poll, asks, mixed>>
        BY <3>3 DEF RunStatus, engine, page
      <4> QED
        BY <3>3, <4>1, <4>2, <4>3 DEF RunnerInv, RunnerTypes, Calm, RunStatus
    <3>4. CASE EndRead(l)
      <4>1. RunnerTypes'
        BY <3>4 DEF EndRead, RunnerInv, RunnerTypes, engine, Nothing
      <4>2. ASSUME ~mixed' PROVE reads' = {} /\ (poll' = NoRun => detail'.status # "active")
        BY <3>4, <4>2 DEF EndRead, RunnerInv, Calm, Settled
      <4> QED
        BY <4>1, <4>2 DEF RunnerInv, Calm
    <3>5. CASE Unread(l)
      BY <3>5 DEF Unread, RunnerInv, RunnerTypes, Calm, engine, page, Nothing
    <3> QED
      BY <2>7, <3>1, <3>2, <3>3, <3>4, <3>5
  <2>8. ASSUME NEW a \in asks,
               \/ CreateRun(a) \/ ListRuns(a) \/ CancelRun(a) \/ DecideApproval(a)
               \/ Follow(a) \/ NotServed(a)
        PROVE  RunnerInv'
    <3>1. CASE CreateRun(a)
      <4>1. PICK r \in Runs : /\ status' = [status EXCEPT ![r] = "active"]
                              /\ Turns(a, "list", r) \/ Answered(a)
        BY <3>1 DEF CreateRun, Started
      <4>2. status' \in [Runs -> Statuses]
        BY <4>1 DEF RunnerInv, RunnerTypes, Statuses
      <4>3. \A b \in asks' : HasRun(b)
        BY <4>1, AskTurns DEF AskStops, Answered, RunnerInv, RunnerTypes
      <4> QED
        BY <3>1, <4>2, <4>3, RunnerRests DEF CreateRun, page
    <3>2. CASE ListRuns(a)
      <4>1. a.run \in Runs /\ status' \in [Runs -> Statuses]
        BY <3>2 DEF ListRuns, engine, RunnerInv, RunnerTypes, HasRun
      <4>2. \A b \in asks' : HasRun(b)
        BY <3>2, <4>1, AskTurns DEF ListRuns, AskStops
      <4> QED
        BY <3>2, <4>1, <4>2, RunnerRests DEF ListRuns, page
    <3>3. CASE CancelRun(a) \/ DecideApproval(a)
      <4>1. status' \in [Runs -> Statuses]
        BY <3>3 DEF CancelRun, DecideApproval, RunnerInv, RunnerTypes, Statuses
      <4>2. Turns(a, "watch", a.run) /\ a.run \in Runs
        BY <3>3 DEF CancelRun, DecideApproval, RunnerInv, RunnerTypes, HasRun
      <4>3. \A b \in asks' : HasRun(b)
        BY <4>2, AskTurns DEF AskStops
      <4> QED
        BY <3>3, <4>1, <4>3, RunnerRests DEF CancelRun, DecideApproval, page
    <3>4. CASE Follow(a)
      <4>1. a.run \in Runs
        BY <3>4 DEF Follow, RunnerInv, RunnerTypes, HasRun
      <4> QED
        BY <3>4, <4>1, WatchCalms DEF Follow, Answered, engine
    <3>5. CASE NotServed(a)
      BY <3>5, RunnerRests DEF NotServed, Answered, page, engine, RunnerInv, RunnerTypes
    <3> QED
      BY <2>8, <3>1, <3>2, <3>3, <3>4, <3>5
  <2>9. CASE UNCHANGED runnerVars
    BY <2>9, RunnerRests DEF runnerVars, RunnerInv, RunnerTypes
  <2> QED
    BY <2>1, <2>2, <2>3, <2>4, <2>5, <2>6, <2>7, <2>8, <2>9 DEF RunnerNext
<1>3. RunnerInv => KeepsWatching
  BY DEF RunnerInv, Calm, KeepsWatching
<1> QED
  BY <1>1, <1>2, <1>3, PTL DEF RunnerSpec

-----------------------------------------------------------------------------
(* The translator: once the timer ran out, either the translation under way is one of
   what the source pane and the languages are, or none is and the target pane shows it. *)

AtMostOne == \A r, s \in running : r = s
Right(of) == of = [of |-> source, pair |-> pair]
Follows   == ~timer /\ ~upset /\ source # NoText =>
               IF running = {} THEN Right(target) ELSE \A run \in running : Right(What(run))
PaneInv   == AtMostOne /\ Follows

\* The effect starts the timer wherever it changes the text or the languages.
LEMMA EffectFollows ==
  ASSUME PaneInv, NEW typed, NEW langs, NEW show, Effect(typed, langs, show),
         <<typed, langs>> = <<source, pair>> => show = target
  PROVE  PaneInv'
<1>1. UNCHANGED <<running, upset>> /\ source' = typed /\ pair' = langs
  BY DEF Effect
<1>2. CASE <<typed, langs>> = panes
  BY <1>1, <1>2 DEF Effect, panes, PaneInv, AtMostOne, Follows, Right, What
<1>3. CASE <<typed, langs>> # panes
  <2>1. timer' = (typed # NoText)
    BY <1>3 DEF Effect
  <2> QED
    BY <1>1, <2>1 DEF PaneInv, AtMostOne, Follows
<1> QED
  BY <1>2, <1>3

\* A translation begins, and the one before it is forgotten.
LEMMA BeginFollows ==
  ASSUME NEW run, running' = {run},
         ~timer' /\ ~upset' => What(run) = [of |-> source', pair |-> pair']
  PROVE  PaneInv'
<1>1. running' # {} /\ \A r \in running' : r = run
  OBVIOUS
<1>2. Right(What(run))' <=> What(run) = [of |-> source', pair |-> pair']
  BY DEF Right, What
<1> QED
  BY <1>1, <1>2 DEF PaneInv, AtMostOne, Follows

\* Once nothing is awaited any more, the target pane shows a translation of the text
\* beside it, in the languages above it.
THEOREM TargetFollowsSource == TranslatorSpec => []TranslationShown
<1>1. TranslatorInit => PaneInv
  BY DEF TranslatorInit, PaneInv, AtMostOne, Follows
<1>2. PaneInv /\ [TranslatorNext]_translatorVars => PaneInv'
  <2> SUFFICES ASSUME PaneInv, [TranslatorNext]_translatorVars PROVE PaneInv'
    OBVIOUS
  <2> USE DEF PaneInv, AtMostOne, Follows
  <2>1. ASSUME NEW typed \in Texts \cup {NoText}, TypeSource(typed) PROVE PaneInv'
    BY <2>1, EffectFollows DEF TypeSource
  <2>2. ASSUME NEW l \in Langs, ChooseFrom(l) \/ ChooseTo(l) PROVE PaneInv'
    BY <2>2, EffectFollows DEF ChooseFrom, ChooseTo
  <2>3. CASE Swap
    <3> DEFINE swapped == <<pair[2], pair[1]>>
    <3>1. CASE target = NoText \/ busy
      <4>1. Effect(source, swapped, target)
        BY <2>3, <3>1 DEF Swap
      <4> QED
        BY <4>1, EffectFollows
    <3>2. CASE ~(target = NoText \/ busy)
      <4>1. PICK typed \in Texts :
              Effect(typed, swapped, IF typed = source THEN target
                                    ELSE IF source = NoText THEN NoText ELSE Plain)
        BY <2>3, <3>2 DEF Swap
      <4> HIDE DEF swapped
      <4> QED
        BY <4>1, EffectFollows
    <3> QED
      BY <3>1, <3>2
  <2>4. CASE Close
    BY <2>4 DEF Close
  <2>5. CASE Translate
    <3> DEFINE run == [of |-> source, pair |-> pair, document |-> FALSE]
    <3>1. running' = {run} /\ UNCHANGED <<source, pair>>
      BY <2>5 DEF Translate, Begin, panes
    <3>2. What(run) = [of |-> source', pair |-> pair']
      BY <3>1 DEF What
    <3> HIDE DEF run
    <3> QED
      BY <3>1, <3>2, BeginFollows
  <2>6. CASE Stopped \/ DropDocument
    BY <2>6 DEF Stopped, DropDocument, panes, Right, What
  <2>7. ASSUME NEW run \in running, Chunk(run) PROVE PaneInv'
    BY <2>7 DEF Chunk, panes, Right, What
  <2>8. ASSUME NEW run \in running, Done(run) PROVE PaneInv'
    <3>1. running = {run} /\ running' = {} /\ UNCHANGED <<source, pair, timer, target>>
      BY <2>8 DEF Done, panes
    <3>2. ~upset' => ~upset /\ target = What(run)
      BY <2>8 DEF Done
    <3> QED
      BY <3>1, <3>2 DEF Right
  <2>9. ASSUME NEW run \in running, Failed(run) PROVE PaneInv'
    BY <2>9 DEF Failed
  <2>10. ASSUME NEW langs \in extracting, NotExtracted(langs) PROVE PaneInv'
    BY <2>10 DEF NotExtracted
  <2>11. ASSUME NEW langs \in extracting, NEW typed \in Texts, Extracted(langs, typed) PROVE PaneInv'
    <3> DEFINE run == [of |-> typed, pair |-> langs, document |-> TRUE]
    <3>1. /\ running' = {run} /\ UNCHANGED pair
          /\ source' = typed /\ timer' = (timer \/ typed # source)
          /\ upset' = (upset \/ (typed = source /\ langs # pair))
      BY <2>11 DEF Extracted, Begin
    <3>2. ~timer' /\ ~upset' => langs = pair
      BY <3>1
    <3>3. What(run) = [of |-> typed, pair |-> langs]
      BY DEF What
    <3> HIDE DEF run
    <3> QED
      BY <3>1, <3>2, <3>3, BeginFollows
  <2>12. CASE UNCHANGED translatorVars
    BY <2>12 DEF translatorVars, panes, Right, What
  <2> QED
    BY <2>1, <2>2, <2>3, <2>4, <2>5, <2>6, <2>7, <2>8, <2>9, <2>10, <2>11, <2>12 DEF TranslatorNext
<1>3. PaneInv => TranslationShown
  BY DEF PaneInv, Follows, Right, TranslationShown
<1> QED
  BY <1>1, <1>2, <1>3, PTL DEF TranslatorSpec

-----------------------------------------------------------------------------
(* Calls are records, and a step of one leaves the others as they are. *)

CallShape ==
  /\ call = [c \in Calls |-> call[c]]
  /\ \A c \in Calls : call[c] = [does |-> call[c].does, at |-> call[c].at, row |-> call[c].row, got |-> call[c].got]
Alone(c)  == CallShape' /\ \A d \in Calls \ {c} : call'[d] = call[d]
Keeps(c)  == call'[c].does = call[c].does /\ call'[c].row = call[c].row

LEMMA CallsBegin ==
  ASSUME CallsInit
  PROVE  CallShape /\ \A c \in Calls : call[c] = Fresh /\ call[c].at = "start"
BY DEF CallsInit, CallShape, Fresh

LEMMA CallIsMade ==
  ASSUME CallShape, NEW c \in Calls, NEW what, NEW where, NEW r, NEW read, Makes(c, what, where, r, read)
  PROVE  /\ Alone(c) /\ call[c].at = "start"
         /\ call'[c].does = what /\ call'[c].at = where /\ call'[c].row = r /\ call'[c].got = read
<1> DEFINE w == [does |-> what, at |-> where, row |-> r, got |-> read]
<1>1. call[c].at = "start" /\ call' = [call EXCEPT ![c] = w]
  BY DEF Makes, Made, Fresh
<1>2. w = [does |-> w.does, at |-> w.at, row |-> w.row, got |-> w.got]
  OBVIOUS
<1>3. w.does = what /\ w.at = where /\ w.row = r /\ w.got = read
  OBVIOUS
<1> HIDE DEF w
<1>4. call'[c] = w /\ \A d \in Calls \ {c} : call'[d] = call[d]
  BY <1>1 DEF CallShape
<1>5. CallShape'
  BY <1>1, <1>2, <1>4 DEF CallShape
<1> QED
  BY <1>1, <1>3, <1>4, <1>5 DEF Alone

LEMMA CallGoesOn ==
  ASSUME CallShape, NEW c \in Calls, NEW where, NEW read, GoesWith(c, where, read)
  PROVE  Alone(c) /\ Keeps(c) /\ call'[c].at = where /\ call'[c].got = read
<1> DEFINE w == [call[c] EXCEPT !.at = where, !.got = read]
<1>1. call' = [call EXCEPT ![c] = w]
  BY DEF GoesWith
<1>2. /\ w = [does |-> w.does, at |-> w.at, row |-> w.row, got |-> w.got]
      /\ w.does = call[c].does /\ w.row = call[c].row /\ w.at = where /\ w.got = read
  <2>1. w = [does |-> call[c].does, at |-> where, row |-> call[c].row, got |-> read]
    <3> DEFINE v == [call[c] EXCEPT !.at = where]
    <3>1. v = [does |-> call[c].does, at |-> where, row |-> call[c].row, got |-> call[c].got]
      BY DEF CallShape
    <3>2. w = [v EXCEPT !.got = read]
      OBVIOUS
    <3> HIDE DEF v, w
    <3> QED
      BY <3>1, <3>2
  <2> HIDE DEF w
  <2> QED
    BY <2>1
<1> HIDE DEF w
<1>3. call'[c] = w /\ \A d \in Calls \ {c} : call'[d] = call[d]
  BY <1>1 DEF CallShape
<1>4. CallShape'
  BY <1>1, <1>2, <1>3 DEF CallShape
<1> QED
  BY <1>2, <1>3, <1>4 DEF Alone, Keeps

LEMMA CallGoes ==
  ASSUME CallShape, NEW c \in Calls, NEW where, Goes(c, where)
  PROVE  Alone(c) /\ Keeps(c) /\ call'[c].at = where /\ call'[c].got = call[c].got
<1> DEFINE w == [call[c] EXCEPT !.at = where]
<1>1. call' = [call EXCEPT ![c] = w]
  BY DEF Goes
<1>2. /\ w = [does |-> w.does, at |-> w.at, row |-> w.row, got |-> w.got]
      /\ w.does = call[c].does /\ w.row = call[c].row /\ w.at = where /\ w.got = call[c].got
  BY DEF CallShape
<1> HIDE DEF w
<1>3. call'[c] = w /\ \A d \in Calls \ {c} : call'[d] = call[d]
  BY <1>1 DEF CallShape
<1>4. CallShape'
  BY <1>1, <1>2, <1>3 DEF CallShape
<1> QED
  BY <1>2, <1>3, <1>4 DEF Alone, Keeps

LEMMA CallEnds ==
  ASSUME CallShape, NEW c \in Calls, Ends(c)
  PROVE  Alone(c) /\ Keeps(c) /\ call'[c].at = "ended" /\ call'[c].got = call[c].got
BY CallGoes DEF Ends

LEMMA CallsStay ==
  ASSUME CallShape, UNCHANGED call
  PROVE  CallShape'
BY DEF CallShape

-----------------------------------------------------------------------------
(* The token broker: as long as nothing went wrong, one call refreshes at most, and it
   holds the refresh token that the provider takes. *)

Tokens(c) == call[c].at \in {"refresh", "persist", "flag"}
CredShape == cred = [refresh |-> cred.refresh, fresh |-> cred.fresh, flagged |-> cred.flagged]
Smooth ==
  /\ ~cred.flagged
  /\ \A c \in Calls : /\ ~At(c, "flag")
                      /\ At(c, "refresh") => call[c].got = {cred.refresh} /\ good = cred.refresh
                      /\ At(c, "persist") => call[c].got = {good}
  /\ \A c, d \in Calls : Tokens(c) /\ Tokens(d) => c = d
  /\ (\A c \in Calls : ~Tokens(c)) => cred.refresh = good
TokenInv == CallShape /\ CredShape /\ (~trouble => Smooth)

LEMMA TokensRefresh == \A c \in Calls : Refreshing(c) <=> Tokens(c)
BY DEF Refreshing, Tokens, UnderWay, Made, Fresh

\* What the other calls of the office do.
LEMMA OtherCalls ==
  ASSUME CallShape, NEW c \in Calls,
         \/ AskToken(c) \/ Battle(c) \/ StoreBattle(c) \/ (\E b \in Calls : Vote(c, b))
         \/ CheckVoted(c) \/ MarkVoted(c) \/ Record(c) \/ RecordFails(c)
         \/ FirstQuestion(c) \/ InsertKey(c) \/ StoreKey(c)
         \/ (\E a \in Accounts : AddAccount(c, a) \/ ModifyAccount(c, a) \/ SetProviderModel(c, a)
                                 \/ RemoveAccount(c, a))
         \/ ForgetModels(c) \/ (\E hops \in SUBSET Accounts : SavePolicy(c, hops))
         \/ CheckHops(c) \/ SaveChain(c)
  PROVE  /\ Alone(c) /\ UNCHANGED credential
         /\ call[c].at \notin {"refresh", "persist", "flag"}
         /\ call'[c].at \notin {"refresh", "persist", "flag"}
<1>1. CASE \/ AskToken(c) \/ Battle(c) \/ (\E b \in Calls : Vote(c, b)) \/ FirstQuestion(c)
           \/ (\E hops \in SUBSET Accounts : SavePolicy(c, hops))
  <2>1. PICK what, where, r, read :
          /\ Makes(c, what, where, r, read) /\ UNCHANGED credential
          /\ where \in {"credential", "answers", "voted", "insert key", "check"}
    BY <1>1 DEF AskToken, Battle, Vote, FirstQuestion, SavePolicy, officeVars
  <2>2. Alone(c) /\ call[c].at = "start" /\ call'[c].at = where
    BY <2>1, CallIsMade
  <2> QED
    BY <2>1, <2>2
<1>2. ASSUME NEW a \in Accounts,
             AddAccount(c, a) \/ ModifyAccount(c, a) \/ SetProviderModel(c, a) \/ RemoveAccount(c, a)
      PROVE  /\ Alone(c) /\ UNCHANGED credential
             /\ call[c].at \notin {"refresh", "persist", "flag"}
             /\ call'[c].at \notin {"refresh", "persist", "flag"}
  <2>1. UNCHANGED credential /\ \E where \in {"ended", "forget"} : Makes(c, "registry", where, a, {})
    BY <1>2 DEF AddAccount, ModifyAccount, SetProviderModel, RemoveAccount, Changes
  <2> QED
    BY <2>1, CallIsMade
<1>3. CASE \/ StoreBattle(c) \/ CheckVoted(c) \/ MarkVoted(c) \/ Record(c) \/ RecordFails(c)
           \/ InsertKey(c) \/ StoreKey(c) \/ ForgetModels(c) \/ CheckHops(c) \/ SaveChain(c)
  <2>1. /\ UNCHANGED credential
        /\ \E where \in {"ended", "mark", "record", "store key", "save"} : Goes(c, where)
        /\ call[c].at \in {"answers", "voted", "mark", "record", "insert key", "store key", "forget",
                           "check", "save"}
    BY <1>3 DEF StoreBattle, CheckVoted, MarkVoted, Record, RecordFails, InsertKey, StoreKey,
                ForgetModels, CheckHops, SaveChain, Ends, At, officeVars
  <2> QED
    BY <2>1, CallGoes
<1> QED
  BY <1>1, <1>2, <1>3

\* A call that leaves the token alone, or that ends with the trouble noted.
LEMMA TokenStays ==
  ASSUME TokenInv, NEW c \in Calls, Alone(c), CredShape', UNCHANGED good,
         \/ /\ UNCHANGED cred /\ (trouble => trouble')
            /\ ~Tokens(c) /\ call'[c].at \notin {"refresh", "persist", "flag"}
         \/ trouble'
  PROVE  TokenInv'
<1>1. CallShape'
  BY DEF Alone
<1>2. CASE ~trouble'
  <2>1. /\ UNCHANGED cred /\ ~trouble /\ ~Tokens(c)
        /\ call'[c].at \notin {"refresh", "persist", "flag"}
    BY <1>2
  <2>2. \A d \in Calls : ~Tokens(d)' \/ call'[d] = call[d]
    BY <2>1 DEF Alone, Tokens
  <2>3. \A d \in Calls : Tokens(d)' <=> Tokens(d)
    BY <2>1, <2>2 DEF Alone, Tokens
  <2>4. Smooth
    BY <1>2, <2>1 DEF TokenInv
  <2>5. Smooth'
    BY <2>1, <2>2, <2>3, <2>4 DEF Smooth, At, Tokens
  <2> QED
    BY <1>1, <2>5 DEF TokenInv
<1> QED
  BY <1>1, <1>2 DEF TokenInv

\* As long as no refresh meets an error and no two overlap, the credential is not flagged,
\* and between refreshes its refresh token is the one that the provider takes.
THEOREM RefreshTokensFollow == OfficeSpec => []RefreshWorks
<1>1. CallsInit /\ OfficeInit => TokenInv
  BY CallsBegin DEF OfficeInit, TokenInv, Smooth, CredShape, At, Tokens
<1>2. TokenInv /\ [OfficeNext]_<<call, officeVars>> => TokenInv'
  <2> SUFFICES ASSUME TokenInv, [OfficeNext]_<<call, officeVars>> PROVE TokenInv'
    OBVIOUS
  <2> USE DEF TokenInv
  <2>1. CASE UNCHANGED <<call, credential>>
    BY <2>1, CallsStay DEF credential, CredShape, Smooth, At, Tokens
  <2>2. CASE AccessExpires
    <3>1. cred' = [cred EXCEPT !.fresh = FALSE] /\ UNCHANGED <<call, good, trouble>>
      BY <2>2 DEF AccessExpires
    <3>2. CredShape' /\ UNCHANGED <<cred.refresh, cred.flagged>>
      BY <3>1 DEF CredShape
    <3> QED
      BY <3>1, <3>2, CallsStay DEF Smooth, At, Tokens
  <2>3. ASSUME NEW c \in Calls, ReadCredential(c) PROVE TokenInv'
    <3>1. At(c, "credential") /\ UNCHANGED <<cred, good>>
      BY <2>3 DEF ReadCredential
    <3>2. CASE cred.fresh \/ cred.flagged
      BY <2>3, <3>1, <3>2, CallEnds, TokenStays DEF ReadCredential, At, Tokens, CredShape
    <3>3. CASE ~(cred.fresh \/ cred.flagged)
      <4>1. /\ GoesWith(c, "refresh", {cred.refresh})
            /\ trouble' = (trouble \/ \E d \in Calls : Refreshing(d))
        BY <2>3, <3>3 DEF ReadCredential
      <4>2. Alone(c) /\ call'[c].at = "refresh" /\ call'[c].got = {cred.refresh}
        BY <4>1, CallGoesOn
      <4>3. ASSUME ~trouble' PROVE Smooth'
        <5>1. Smooth /\ \A d \in Calls : ~Tokens(d)
          BY <4>1, <4>3, TokensRefresh
        <5>2. \A d \in Calls : Tokens(d)' <=> d = c
          BY <4>2, <5>1 DEF Tokens, Alone
        <5> QED
          BY <3>1, <4>2, <5>1, <5>2 DEF Smooth, At, Tokens
      <4> QED
        BY <3>1, <4>2, <4>3 DEF Alone, CredShape
    <3> QED
      BY <3>2, <3>3
  <2>4. ASSUME NEW c \in Calls, Refresh(c) PROVE TokenInv'
    <3>1. /\ At(c, "refresh") /\ UNCHANGED <<cred, trouble>>
          /\ GoesWith(c, "persist", {good'})
      BY <2>4 DEF Refresh
    <3>2. Alone(c) /\ call'[c].at = "persist" /\ call'[c].got = {good'}
      BY <3>1, CallGoesOn
    <3>3. ASSUME ~trouble PROVE Smooth'
      <4>1. Smooth /\ \A d \in Calls : Tokens(d) => d = c
        BY <3>1, <3>3 DEF Smooth, At, Tokens
      <4>2. \A d \in Calls : Tokens(d)' <=> d = c
        BY <3>2, <4>1 DEF Tokens, Alone
      <4> QED
        BY <3>1, <3>2, <4>1, <4>2 DEF Smooth, At, Tokens
    <3> QED
      BY <3>1, <3>2, <3>3 DEF Alone, CredShape
  <2>5. ASSUME NEW c \in Calls, Refused(c) PROVE TokenInv'
    <3>1. At(c, "refresh") /\ good \notin call[c].got /\ Goes(c, "flag") /\ UNCHANGED <<cred, good, trouble>>
      BY <2>5 DEF Refused, officeVars, credential
    <3>2. trouble
      BY <3>1 DEF Smooth
    <3> QED
      BY <3>1, <3>2, CallGoes, TokenStays DEF CredShape
  <2>6. ASSUME NEW c \in Calls, Unanswered(c) PROVE TokenInv'
    BY <2>6, CallGoes DEF Unanswered, Alone, CredShape
  <2>7. ASSUME NEW c \in Calls, Persist(c) PROVE TokenInv'
    <3>1. PICK new \in call[c].got : cred' = [refresh |-> new, fresh |-> TRUE, flagged |-> FALSE]
      BY <2>7 DEF Persist
    <3>2. At(c, "persist") /\ Ends(c) /\ UNCHANGED <<good, trouble>>
      BY <2>7 DEF Persist
    <3>3. CredShape' /\ cred'.refresh = new /\ ~cred'.flagged
      BY <3>1 DEF CredShape
    <3>4. Alone(c) /\ call'[c].at = "ended"
      BY <3>2, CallEnds
    <3>5. ASSUME ~trouble PROVE Smooth'
      <4>1. new = good /\ \A d \in Calls : Tokens(d) => d = c
        BY <3>2, <3>5 DEF Smooth, At, Tokens
      <4>2. \A d \in Calls : ~Tokens(d)'
        BY <3>4, <4>1 DEF Tokens, Alone
      <4> QED
        BY <3>2, <3>3, <4>1, <4>2 DEF Smooth, At, Tokens
    <3> QED
      BY <3>2, <3>3, <3>4, <3>5 DEF Alone
  <2>8. ASSUME NEW c \in Calls, PersistFails(c) PROVE TokenInv'
    BY <2>8, CallGoes, TokenStays DEF PersistFails, CredShape
  <2>9. ASSUME NEW c \in Calls, FlagCredential(c) PROVE TokenInv'
    <3>1. /\ At(c, "flag") /\ Ends(c) /\ cred' = [cred EXCEPT !.flagged = TRUE]
          /\ UNCHANGED <<good, trouble>>
      BY <2>9 DEF FlagCredential
    <3>2. trouble' /\ CredShape'
      BY <3>1 DEF Smooth, CredShape
    <3> QED
      BY <3>1, <3>2, CallEnds, TokenStays
  <2>10. ASSUME NEW c \in Calls, Fails(c) PROVE TokenInv'
    <3>1. /\ Ends(c) /\ UNCHANGED <<cred, good>> /\ trouble' = (trouble \/ Does(c, "token"))
          /\ call[c].at \notin {"refresh", "persist"}
      BY <2>10 DEF Fails
    <3>2. Alone(c) /\ call'[c].at = "ended" /\ CredShape'
      BY <3>1, CallEnds DEF CredShape
    <3>3. CASE trouble'
      BY <3>1, <3>2, <3>3, TokenStays
    <3>4. CASE ~trouble'
      <4>1. ~trouble /\ ~Tokens(c)
        BY <3>1, <3>4 DEF Smooth, Tokens, At
      <4> QED
        BY <3>1, <3>2, <4>1, TokenStays
    <3> QED
      BY <3>3, <3>4
  <2>11. ASSUME NEW c \in Calls,
                \/ AskToken(c) \/ Battle(c) \/ StoreBattle(c) \/ (\E b \in Calls : Vote(c, b))
                \/ CheckVoted(c) \/ MarkVoted(c) \/ Record(c) \/ RecordFails(c)
                \/ FirstQuestion(c) \/ InsertKey(c) \/ StoreKey(c)
                \/ (\E a \in Accounts : AddAccount(c, a) \/ ModifyAccount(c, a) \/ SetProviderModel(c, a)
                                        \/ RemoveAccount(c, a))
                \/ ForgetModels(c) \/ (\E hops \in SUBSET Accounts : SavePolicy(c, hops))
                \/ CheckHops(c) \/ SaveChain(c)
         PROVE  TokenInv'
    BY <2>11, OtherCalls, TokenStays DEF credential, Tokens, CredShape
  <2>12. CASE Discover \/ \E c \in Calls : BattleExpires(c) \/ MarkExpires(c)
    BY <2>1, <2>12 DEF Discover, BattleExpires, MarkExpires
  <2> QED
    BY <2>1, <2>2, <2>3, <2>4, <2>5, <2>6, <2>7, <2>8, <2>9, <2>10, <2>11, <2>12
    DEF OfficeNext, officeVars
<1>3. TokenInv => RefreshWorks
  BY TokensRefresh DEF TokenInv, Smooth, RefreshWorks
<1> QED
  BY <1>1, <1>2, <1>3, PTL DEF OfficeSpec

-----------------------------------------------------------------------------
(* The arena.  Unless a battle's votes crossed, one is under way at most, and it finds the
   battle either marked or without a counted vote. *)

VotingAt(c) == call[c].at \in {"voted", "mark", "record"}
VoteOf(c, b) == VotingAt(c) /\ call[c].row = b
VoteCalls ==
  /\ counted = [b \in Calls |-> counted[b]] /\ told \subseteq Calls
  /\ \A c \in Calls : /\ VotingAt(c) => Does(c, "vote") /\ call[c].row \in Calls
                      /\ Does(c, "vote") => VotingAt(c) \/ At(c, "ended")
  /\ \A c \in told : At(c, "ended") /\ call[c].row \in Calls
  /\ \A b \in Calls : b \in battles \/ b \in voted \/ counted[b] # {} \/ (\E c \in Calls : VoteOf(c, b))
                      => At(b, "ended")
OneVotes(b) ==
  /\ \A c, d \in Calls : VoteOf(c, b) /\ VoteOf(d, b) => c = d
  /\ b \in battles \/ (\E c \in Calls : VoteOf(c, b)) => counted[b] = {} \/ b \in voted
  /\ \A c \in Calls : VoteOf(c, b) => /\ At(c, "record") => b \in voted
                                      /\ At(c, "mark") \/ At(c, "record") => counted[b] = {}
VoteInv == CallShape /\ VoteCalls /\ (\A b \in Calls : b \in crossed \/ OneVotes(b)) /\ VotesCounted

LEMMA VotingIs == VoteCalls => \A b \in Calls : Voting(b) <=> \E c \in Calls : VoteOf(c, b)
BY DEF VoteCalls, Voting, VoteOf, VotingAt, UnderWay, Made, Does, At, Fresh

\* What the calls do that have no vote.
LEMMA NoVotes ==
  ASSUME CallShape, NEW c \in Calls,
         \/ AskToken(c) \/ ReadCredential(c) \/ Refresh(c) \/ Refused(c) \/ Unanswered(c)
         \/ Persist(c) \/ PersistFails(c) \/ FlagCredential(c) \/ Battle(c)
         \/ FirstQuestion(c) \/ InsertKey(c) \/ StoreKey(c)
         \/ (\E a \in Accounts : AddAccount(c, a) \/ ModifyAccount(c, a) \/ SetProviderModel(c, a)
                                 \/ RemoveAccount(c, a))
         \/ ForgetModels(c) \/ (\E hops \in SUBSET Accounts : SavePolicy(c, hops))
         \/ CheckHops(c) \/ SaveChain(c)
  PROVE  /\ Alone(c) /\ UNCHANGED arena
         /\ call[c].at \notin {"voted", "mark", "record", "ended"}
         /\ call'[c].at \notin {"voted", "mark", "record"}
         /\ call'[c].does \in {call[c].does, "token", "battle", "question", "registry", "judge"}
<1>1. CASE \/ AskToken(c) \/ Battle(c) \/ FirstQuestion(c)
           \/ (\E hops \in SUBSET Accounts : SavePolicy(c, hops))
           \/ (\E a \in Accounts : AddAccount(c, a) \/ ModifyAccount(c, a) \/ SetProviderModel(c, a)
                                   \/ RemoveAccount(c, a))
  <2>1. PICK what, where, r, read :
          /\ Makes(c, what, where, r, read) /\ UNCHANGED arena
          /\ where \in {"credential", "answers", "insert key", "check", "forget", "ended"}
          /\ what \in {"token", "battle", "question", "registry", "judge"}
    <3>1. CASE \/ AskToken(c) \/ Battle(c) \/ FirstQuestion(c)
               \/ (\E hops \in SUBSET Accounts : SavePolicy(c, hops))
      BY <3>1 DEF AskToken, Battle, FirstQuestion, SavePolicy, officeVars
    <3>2. ASSUME NEW a \in Accounts,
                 AddAccount(c, a) \/ ModifyAccount(c, a) \/ SetProviderModel(c, a) \/ RemoveAccount(c, a)
          PROVE  UNCHANGED arena /\ \E where \in {"ended", "forget"} : Makes(c, "registry", where, a, {})
      BY <3>2 DEF AddAccount, ModifyAccount, SetProviderModel, RemoveAccount, Changes
    <3> QED
      BY <1>1, <3>1, <3>2
  <2>2. Alone(c) /\ call[c].at = "start" /\ call'[c].at = where /\ call'[c].does = what
    BY <2>1, CallIsMade
  <2> QED
    BY <2>1, <2>2
<1>2. CASE \/ Refused(c) \/ Unanswered(c) \/ Persist(c) \/ PersistFails(c) \/ FlagCredential(c)
           \/ InsertKey(c) \/ StoreKey(c) \/ ForgetModels(c) \/ CheckHops(c) \/ SaveChain(c)
  <2>1. /\ UNCHANGED arena
        /\ \E where \in {"ended", "flag", "store key", "save"} : Goes(c, where)
        /\ call[c].at \in {"refresh", "persist", "flag", "insert key", "store key", "forget", "check", "save"}
    BY <1>2 DEF Refused, Unanswered, Persist, PersistFails, FlagCredential, InsertKey, StoreKey,
                ForgetModels, CheckHops, SaveChain, Ends, At, officeVars
  <2> QED
    BY <2>1, CallGoes DEF Keeps
<1>3. CASE ReadCredential(c) \/ Refresh(c)
  <2>1. /\ UNCHANGED arena /\ call[c].at \in {"credential", "refresh"}
        /\ Ends(c) \/ \E where \in {"refresh", "persist"} : \E read : GoesWith(c, where, read)
    BY <1>3 DEF ReadCredential, Refresh, At
  <2> QED
    BY <2>1, CallEnds, CallGoesOn DEF Keeps
<1> QED
  BY <1>1, <1>2, <1>3

\* A call that has no vote after its step; what it does beside that is to store its battle.
LEMMA VotesStay ==
  ASSUME VoteInv, NEW c \in Calls, Alone(c), UNCHANGED <<voted, counted, told, crossed>>,
         battles' \subseteq battles \cup {c}, c \in battles' => At(c, "ended")',
         ~At(c, "ended"), ~VotingAt(c)', Does(c, "vote")' => At(c, "ended")'
  PROVE  VoteInv'
<1>1. /\ \A d \in Calls \ {c} : call'[d] = call[d]
      /\ \A d \in told : d # c
  BY DEF Alone, VoteInv, VoteCalls
<1>2. c \notin battles /\ c \notin voted /\ counted[c] = {} /\ \A d \in Calls : ~VoteOf(d, c)
  BY DEF VoteInv, VoteCalls
<1>3. \A d \in Calls, b \in Calls : VoteOf(d, b)' => VoteOf(d, b) /\ d # c
  BY <1>1 DEF VoteOf, VotingAt
<1>4. VoteCalls'
  <2>1. \A d \in Calls : /\ VotingAt(d)' => Does(d, "vote")' /\ call'[d].row \in Calls
                         /\ Does(d, "vote")' => VotingAt(d)' \/ At(d, "ended")'
    BY <1>1 DEF VoteInv, VoteCalls, VotingAt, Does, At
  <2>2. \A d \in told' : At(d, "ended")' /\ call'[d].row \in Calls
    BY <1>1 DEF VoteInv, VoteCalls, At
  <2>3. ASSUME NEW b \in Calls, b \in battles' \/ b \in voted \/ counted[b] # {} \/ (\E d \in Calls : VoteOf(d, b)')
        PROVE  At(b, "ended")'
    <3>1. CASE b = c
      BY <1>2, <1>3, <2>3, <3>1
    <3>2. CASE b # c
      <4>1. At(b, "ended")
        BY <1>3, <2>3, <3>2 DEF VoteInv, VoteCalls
      <4> QED
        BY <1>1, <3>2, <4>1 DEF At
    <3> QED
      BY <3>1, <3>2
  <2> QED
    BY <2>1, <2>2, <2>3 DEF VoteInv, VoteCalls
<1>5. ASSUME NEW b \in Calls, b \notin crossed PROVE OneVotes(b)'
  <2>1. OneVotes(b)
    BY <1>5 DEF VoteInv
  <2>2. b \in battles' => b \in battles \/ counted[b] = {}
    BY <1>2
  <2>3. \A d \in Calls \ {c} : At(d, "record")' = At(d, "record") /\ At(d, "mark")' = At(d, "mark")
    BY <1>1 DEF At
  <2> QED
    BY <1>3, <2>1, <2>2, <2>3 DEF OneVotes
<1>6. VotesCounted'
  BY <1>1 DEF VoteInv, VoteCalls, VotesCounted
<1> QED
  BY <1>4, <1>5, <1>6 DEF VoteInv, Alone

\* A call that goes on with its vote: other battles are not touched, and for its own it
\* is the only one unless the votes crossed.
LEMMA VoteGoesOn ==
  ASSUME VoteInv, NEW c \in Calls, VotingAt(c), Alone(c), Keeps(c), UNCHANGED <<battles, crossed>>,
         NEW b, b = call[c].row,
         voted' \in {voted, voted \cup {b}},
         \/ UNCHANGED <<counted, told>>
         \/ At(c, "record") /\ At(c, "ended")' /\ Count(c) /\ told' \in {told, told \cup {c}},
         \/ At(c, "ended")'
         \/ At(c, "voted") /\ At(c, "mark")' /\ b \notin voted /\ UNCHANGED voted
         \/ At(c, "mark") /\ At(c, "record")' /\ b \in voted'
  PROVE  VoteInv'
<1>1. b \in Calls /\ VoteOf(c, b) /\ Does(c, "vote") /\ At(b, "ended") /\ c # b
  BY DEF VoteInv, VoteCalls, VoteOf, VotingAt, At
<1>2. (\A d \in Calls \ {c} : call'[d] = call[d]) /\ call'[c].row = b /\ Does(c, "vote")' /\ CallShape'
  BY <1>1 DEF Alone, Keeps, Does
<1>3. /\ counted' = [a \in Calls |-> counted'[a]]
      /\ \A a \in Calls \ {b} : counted'[a] = counted[a]
      /\ counted'[b] = counted[b] \/ (counted[b] = {} /\ counted'[b] = {c})
  <2>1. CASE UNCHANGED counted
    BY <2>1 DEF VoteInv, VoteCalls
  <2>2. CASE Count(c)
    BY <1>1, <2>2 DEF Count, VoteInv, VoteCalls
  <2> QED
    BY <2>1, <2>2
<1>4. \A d \in Calls, a \in Calls : /\ d # c => (VoteOf(d, a)' <=> VoteOf(d, a))
                                    /\ VoteOf(d, a)' => VoteOf(d, a)
  BY <1>1, <1>2 DEF VoteOf, VotingAt
<1>5. VoteCalls'
  <2>1. \A d \in Calls : /\ VotingAt(d)' => Does(d, "vote")' /\ call'[d].row \in Calls
                         /\ Does(d, "vote")' => VotingAt(d)' \/ At(d, "ended")'
    BY <1>1, <1>2 DEF VoteInv, VoteCalls, VotingAt, Does, At
  <2>2. told' \subseteq Calls /\ \A d \in told' : At(d, "ended")' /\ call'[d].row \in Calls
    <3>1. \A d \in told : d \in Calls /\ d # c /\ At(d, "ended") /\ call[d].row \in Calls
      BY DEF VoteInv, VoteCalls, VotingAt, At
    <3>2. told' = told \/ (told' = told \cup {c} /\ At(c, "ended")')
      OBVIOUS
    <3> QED
      BY <1>1, <1>2, <3>1, <3>2 DEF At
  <2>3. ASSUME NEW a \in Calls, a \in battles \/ a \in voted' \/ counted'[a] # {} \/ (\E d \in Calls : VoteOf(d, a)')
        PROVE  At(a, "ended")'
    <3>1. At(a, "ended")
      BY <1>1, <1>3, <1>4, <2>3 DEF VoteInv, VoteCalls
    <3> QED
      BY <1>2, <3>1 DEF At, VotingAt
  <2> QED
    BY <1>3, <2>1, <2>2, <2>3 DEF VoteCalls
<1>6. ASSUME NEW a \in Calls, a \notin crossed PROVE OneVotes(a)'
  <2>1. OneVotes(a)
    BY <1>6 DEF VoteInv
  <2>2. CASE a # b
    <3>1. ~VoteOf(c, a) /\ ~VoteOf(c, a)' /\ counted'[a] = counted[a] /\ (a \in voted' <=> a \in voted)
      BY <1>1, <1>2, <1>3, <2>2 DEF VoteOf
    <3>2. \A d \in Calls : /\ VoteOf(d, a)' <=> VoteOf(d, a)
                           /\ VoteOf(d, a) => (At(d, "record")' <=> At(d, "record")) /\ (At(d, "mark")' <=> At(d, "mark"))
      BY <1>2, <1>4, <3>1 DEF At
    <3> QED
      BY <2>1, <3>1, <3>2 DEF OneVotes
  <2>3. CASE a = b
    <3>1. \A d \in Calls : VoteOf(d, a) => d = c
      BY <1>1, <2>1, <2>3 DEF OneVotes
    <3>2. \A d \in Calls : VoteOf(d, a)' => d = c
      BY <1>4, <3>1
    <3>3. counted[a] = {} \/ a \in voted
      BY <1>1, <2>1, <2>3 DEF OneVotes
    <3>4. At(c, "record") => a \in voted
      BY <1>1, <2>1, <2>3 DEF OneVotes
    <3>5. At(c, "mark") => counted[a] = {}
      BY <1>1, <2>1, <2>3 DEF OneVotes
    <3>6. counted'[a] = {} \/ a \in voted'
      BY <1>3, <2>3, <3>3, <3>4 DEF VotingAt, At
    <3>7. At(c, "record")' => a \in voted' /\ counted'[a] = {}
      BY <2>3, <3>5 DEF At
    <3>8. At(c, "mark")' => counted'[a] = {}
      BY <2>3, <3>3 DEF At
    <3> QED
      BY <3>2, <3>6, <3>7, <3>8 DEF OneVotes
  <2> QED
    BY <2>2, <2>3
<1>7. VotesCounted'
  <2>1. ASSUME NEW d \in told', call'[d].row \notin crossed PROVE counted'[call'[d].row] = {d}
    <3>1. CASE d = c
      <4>1. At(c, "record") /\ Count(c)
        <5>1. c \notin told
          BY DEF VoteInv, VoteCalls, VotingAt, At
        <5> QED
          BY <2>1, <3>1, <5>1
      <4>2. counted[b] = {}
        BY <1>1, <1>2, <2>1, <3>1, <4>1 DEF VoteInv, OneVotes
      <4> QED
        BY <1>1, <1>2, <3>1, <4>1, <4>2 DEF Count, VoteInv, VoteCalls
    <3>2. CASE d # c
      <4>1. d \in told /\ d \in Calls /\ call'[d] = call[d] /\ counted[call[d].row] = {d} /\ call[d].row \in Calls
        BY <1>2, <2>1, <3>2 DEF VoteInv, VoteCalls, VotesCounted
      <4> QED
        BY <1>3, <4>1
    <3> QED
      BY <3>1, <3>2
  <2> QED
    BY <2>1 DEF VotesCounted
<1> QED
  BY <1>2, <1>5, <1>6, <1>7 DEF VoteInv

LEMMA VotesRest ==
  ASSUME VoteInv, UNCHANGED <<call, voted, counted, told, crossed>>, battles' \subseteq battles
  PROVE  VoteInv'
<1>1. CallShape' /\ VotesCounted'
  BY CallsStay DEF VoteInv, VotesCounted
<1>2. \A c \in Calls, b \in Calls : VoteOf(c, b)' <=> VoteOf(c, b)
  BY DEF VoteOf, VotingAt
<1>3. VoteCalls'
  BY <1>2 DEF VoteInv, VoteCalls, VotingAt, At, Does
<1>4. ASSUME NEW b \in Calls, b \notin crossed PROVE OneVotes(b)'
  <2>1. OneVotes(b)
    BY <1>4 DEF VoteInv
  <2> QED
    BY <1>2, <2>1 DEF OneVotes, At
<1> QED
  BY <1>1, <1>3, <1>4 DEF VoteInv

\* A voter who is told that his vote is recorded has it counted, and no other vote of the
\* battle, unless two of its votes were under way at once or its mark expired under one.
THEOREM ToldVotesCount == OfficeSpec => []VotesCounted
<1>1. CallsInit /\ OfficeInit => VoteInv
  <2> SUFFICES ASSUME CallsInit, OfficeInit PROVE VoteInv
    OBVIOUS
  <2>1. CallShape /\ \A c \in Calls : call[c] = Fresh /\ call[c].at = "start" /\ call[c].does = "nothing"
    BY CallsBegin DEF Fresh
  <2>2. /\ battles = {} /\ voted = {} /\ told = {} /\ crossed = {}
        /\ counted = [b \in Calls |-> counted[b]] /\ \A b \in Calls : counted[b] = {}
    BY DEF OfficeInit
  <2>3. \A c \in Calls, b \in Calls : ~VoteOf(c, b)
    BY <2>1 DEF VoteOf, VotingAt
  <2> QED
    BY <2>1, <2>2, <2>3 DEF VoteInv, VoteCalls, OneVotes, VotesCounted, VotingAt, Does
<1>2. VoteInv /\ [OfficeNext]_<<call, officeVars>> => VoteInv'
  <2> SUFFICES ASSUME VoteInv, [OfficeNext]_<<call, officeVars>> PROVE VoteInv'
    OBVIOUS
  <2>1. CASE UNCHANGED <<call, arena>>
    BY <2>1, VotesRest DEF arena
  <2>2. ASSUME NEW c \in Calls,
               \/ AskToken(c) \/ ReadCredential(c) \/ Refresh(c) \/ Refused(c) \/ Unanswered(c)
               \/ Persist(c) \/ PersistFails(c) \/ FlagCredential(c) \/ Battle(c)
               \/ FirstQuestion(c) \/ InsertKey(c) \/ StoreKey(c)
               \/ (\E a \in Accounts : AddAccount(c, a) \/ ModifyAccount(c, a) \/ SetProviderModel(c, a)
                                       \/ RemoveAccount(c, a))
               \/ ForgetModels(c) \/ (\E hops \in SUBSET Accounts : SavePolicy(c, hops))
               \/ CheckHops(c) \/ SaveChain(c)
         PROVE  VoteInv'
    <3>1. /\ Alone(c) /\ UNCHANGED arena
          /\ call[c].at \notin {"voted", "mark", "record", "ended"}
          /\ call'[c].at \notin {"voted", "mark", "record"}
          /\ call'[c].does \in {call[c].does, "token", "battle", "question", "registry", "judge"}
      BY <2>2, NoVotes DEF VoteInv
    <3>2. ~Does(c, "vote")' /\ c \notin battles
      BY <3>1 DEF VoteInv, VoteCalls, VotingAt, At, Does
    <3> QED
      BY <3>1, <3>2, VotesStay DEF arena, VotingAt, At
  <2>3. ASSUME NEW c \in Calls, StoreBattle(c) \/ Fails(c) \/ (CheckVoted(c) /\ Ends(c)) PROVE VoteInv'
    <3>1. /\ Ends(c) /\ UNCHANGED <<voted, counted, told, crossed>> /\ battles' \subseteq battles \cup {c}
          /\ ~At(c, "ended")
      BY <2>3 DEF StoreBattle, Fails, CheckVoted, At, arena, officeVars
    <3>2. Alone(c) /\ call'[c].at = "ended"
      BY <3>1, CallEnds DEF VoteInv
    <3> QED
      BY <3>1, <3>2, VotesStay DEF VotingAt, At
  <2>4. ASSUME NEW b \in Calls, BattleExpires(b) PROVE VoteInv'
    <3>1. battles' \subseteq battles /\ UNCHANGED <<call, voted, counted, told, crossed>>
      BY <2>4 DEF BattleExpires
    <3> QED
      BY <3>1, VotesRest
  <2>5. ASSUME NEW b \in Calls, MarkExpires(b) PROVE VoteInv'
    <3>1. /\ b \notin battles /\ voted' = voted \ {b} /\ UNCHANGED <<call, battles, counted, told>>
          /\ crossed' = IF \E c \in Calls : VoteOf(c, b) THEN crossed \cup {b} ELSE crossed
      BY <2>5, VotingIs DEF MarkExpires, Crossed, VoteInv
    <3>2. CallShape' /\ VoteCalls' /\ VotesCounted'
      BY <3>1 DEF VoteInv, CallShape, VoteCalls, VotesCounted, VoteOf, VotingAt, At, Does
    <3>3. ASSUME NEW a \in Calls, a \notin crossed' PROVE OneVotes(a)'
      <4>1. OneVotes(a) /\ a \notin crossed
        BY <3>1, <3>3 DEF VoteInv
      <4>2. CASE a = b
        BY <3>1, <3>3, <4>1, <4>2 DEF OneVotes, VoteOf, VotingAt, At
      <4>3. CASE a # b
        BY <3>1, <4>1, <4>3 DEF OneVotes, VoteOf, VotingAt, At
      <4> QED
        BY <4>2, <4>3
    <3> QED
      BY <3>2, <3>3 DEF VoteInv
  <2>6. ASSUME NEW c \in Calls, NEW b \in Calls, Vote(c, b) PROVE VoteInv'
    <3>1. /\ b \in battles /\ UNCHANGED <<battles, voted, counted, told>>
          /\ crossed' = IF \E d \in Calls : VoteOf(d, b) THEN crossed \cup {b} ELSE crossed
          /\ Makes(c, "vote", "voted", b, {})
      BY <2>6, VotingIs DEF Vote, Crossed, VoteInv
    <3>2. /\ Alone(c) /\ call[c].at = "start"
          /\ call'[c].does = "vote" /\ call'[c].at = "voted" /\ call'[c].row = b
      BY <3>1, CallIsMade DEF VoteInv
    <3>3. At(b, "ended") /\ c # b /\ c \notin told /\ \A a \in Calls : ~VoteOf(c, a)
      BY <3>1, <3>2 DEF VoteInv, VoteCalls, At, VoteOf, VotingAt
    <3>4. \A d \in Calls, a \in Calls : VoteOf(d, a)' <=> VoteOf(d, a) \/ (d = c /\ a = b)
      BY <3>2, <3>3 DEF VoteOf, VotingAt, Alone
    <3>5. VoteCalls'
      <4>1. \A d \in Calls : /\ VotingAt(d)' => Does(d, "vote")' /\ call'[d].row \in Calls
                             /\ Does(d, "vote")' => VotingAt(d)' \/ At(d, "ended")'
        BY <3>2 DEF VoteInv, VoteCalls, VotingAt, Does, At, Alone
      <4>2. \A d \in told : At(d, "ended")' /\ call'[d].row \in Calls
        BY <3>2, <3>3 DEF VoteInv, VoteCalls, At, Alone
      <4>3. ASSUME NEW a \in Calls, a \in battles \/ a \in voted \/ counted[a] # {} \/ (\E d \in Calls : VoteOf(d, a)')
            PROVE  At(a, "ended")'
        <5>1. At(a, "ended")
          BY <3>1, <3>4, <4>3 DEF VoteInv, VoteCalls
        <5> QED
          BY <3>2, <5>1 DEF At, Alone
      <4> QED
        BY <3>1, <4>1, <4>2, <4>3 DEF VoteInv, VoteCalls
    <3>6. ASSUME NEW a \in Calls, a \notin crossed' PROVE OneVotes(a)'
      <4>1. OneVotes(a) /\ a \notin crossed
        BY <3>1, <3>6 DEF VoteInv
      <4>2. \A d \in Calls : VoteOf(d, a) => d # c /\ call'[d] = call[d]
        BY <3>2, <3>3 DEF Alone
      <4>3. CASE a = b
        <5>1. \A d \in Calls : ~VoteOf(d, b)
          BY <3>1, <3>6, <4>3
        <5>2. \A d \in Calls : VoteOf(d, a)' => d = c
          BY <3>4, <4>3, <5>1
        <5>3. counted[a] = {} \/ a \in voted
          BY <3>1, <4>1, <4>3 DEF OneVotes
        <5> QED
          BY <3>1, <3>2, <5>2, <5>3 DEF OneVotes, At
      <4>4. CASE a # b
        <5>1. \A d \in Calls : VoteOf(d, a)' <=> VoteOf(d, a)
          BY <3>4, <4>4
        <5> QED
          BY <3>1, <4>1, <4>2, <5>1 DEF OneVotes, At
      <4> QED
        BY <4>3, <4>4
    <3>7. VotesCounted'
      BY <3>1, <3>2, <3>3 DEF VoteInv, VotesCounted, VoteCalls, Alone
    <3> QED
      BY <3>2, <3>5, <3>6, <3>7 DEF VoteInv, Alone
  <2>7. ASSUME NEW c \in Calls, CheckVoted(c), ~Ends(c) PROVE VoteInv'
    <3>1. At(c, "voted") /\ Goes(c, "mark") /\ call[c].row \notin voted /\ UNCHANGED arena
      BY <2>7 DEF CheckVoted, officeVars
    <3>2. Alone(c) /\ Keeps(c) /\ call'[c].at = "mark"
      BY <3>1, CallGoes DEF VoteInv
    <3> QED
      BY <3>1, <3>2, VoteGoesOn DEF VotingAt, At, arena
  <2>8. ASSUME NEW c \in Calls, MarkVoted(c) PROVE VoteInv'
    <3>1. /\ At(c, "mark") /\ Goes(c, "record") /\ voted' = voted \cup {call[c].row}
          /\ UNCHANGED <<battles, counted, told, crossed>>
      BY <2>8 DEF MarkVoted
    <3>2. Alone(c) /\ Keeps(c) /\ call'[c].at = "record"
      BY <3>1, CallGoes DEF VoteInv
    <3> QED
      BY <3>1, <3>2, VoteGoesOn DEF VotingAt, At
  <2>9. ASSUME NEW c \in Calls, Record(c) \/ RecordFails(c) PROVE VoteInv'
    <3>1. /\ At(c, "record") /\ Ends(c) /\ UNCHANGED <<battles, voted, crossed>>
          /\ UNCHANGED <<counted, told>> \/ (Count(c) /\ told' \in {told, told \cup {c}})
      BY <2>9 DEF Record, RecordFails
    <3>2. Alone(c) /\ Keeps(c) /\ call'[c].at = "ended"
      BY <3>1, CallEnds DEF VoteInv
    <3> QED
      BY <3>1, <3>2, VoteGoesOn DEF VotingAt, At
  <2>10. CASE AccessExpires \/ Discover
    BY <2>1, <2>10 DEF AccessExpires, Discover
  <2> QED
    BY <2>1, <2>2, <2>3, <2>4, <2>5, <2>6, <2>7, <2>8, <2>9, <2>10 DEF OfficeNext, officeVars
<1>3. VoteInv => VotesCounted
  BY DEF VoteInv
<1> QED
  BY <1>1, <1>2, <1>3, PTL DEF OfficeSpec

-----------------------------------------------------------------------------
(* The tables behind the sidebar: which lists a statement changes. *)

RowsShape == rows = [l \in Lists |-> rows[l]]
ChatIds   == {r[1] : r \in rows["chats"]}
OnlyList(list) == RowsShape' /\ \A l \in Lists \ {list} : rows'[l] = rows[l]

LEMMA ListIsSet ==
  ASSUME RowsShape, NEW list \in Lists, NEW S, rows' = [rows EXCEPT ![list] = S]
  PROVE  OnlyList(list) /\ rows'[list] = S
BY DEF RowsShape, OnlyList

LEMMA ListGrows ==
  ASSUME RowsShape, NEW list \in Lists, NEW id, rows' = Inserted(list, id)
  PROVE  OnlyList(list) /\ rows'[list] = rows[list] \cup {<<id, FALSE>>}
BY DEF RowsShape, OnlyList, Inserted

LEMMA ListShrinks ==
  ASSUME RowsShape, NEW list \in Lists, NEW id, rows' = Deleted(list, id)
  PROVE  /\ RowsShape' /\ rows'[list] \subseteq rows[list]
         /\ \A l \in Lists \ {list, "messages"} : rows'[l] = rows[l]
         /\ list # "messages" => rows'[list] = rows[list] \ Of(list, id)
BY DEF RowsShape, Deleted

LEMMA HasIs == \A list \in Lists : \A id : Has(list, id) <=> \E r \in rows[list] : r[1] = id
BY DEF Has, Of

LEMMA ListNames ==
  /\ {"chats", "projects", "prompts", "memories", "personas", "features", "voices", "users",
      "tasks", "assets", "messages"} = Lists
  /\ Sidelists = {"chats", "projects", "prompts", "memories", "personas", "features", "voices", "users"}
BY DEF Lists, Sidelists

LEMMA FlagKeepsIds ==
  ASSUME NEW S, NEW id, NEW flag
  PROVE  \A r \in Flag(S, id, flag) : \E s \in S : s[1] = r[1]
BY DEF Flag

\* The steps of the library: clicks, calls that go on, calls that nobody clicked, shares.
Clicking(c) ==
  \/ \E list \in Sidelists : Load(c, list)
  \/ NewConversation(c) \/ NewPersona(c) \/ NewProject(c) \/ Remember(c)
  \/ RemoveConversation(c) \/ RemovePrompt(c) \/ Forget(c)
  \/ Pin(c) \/ Activate(c) \/ Toggle(c)
  \/ InviteUser(c) \/ ToggleUser(c) \/ ChangeUser(c) \/ DeleteUser(c)
GoesOn(c) ==
  \/ Lost(c) \/ ListConversations(c) \/ ListProjects(c) \/ ListPrompts(c)
  \/ ListMemories(c) \/ ListPersonas(c) \/ ListPlugins(c) \/ ListVoices(c) \/ ListUsers(c)
  \/ ShowRows(c) \/ Capabilities(c) \/ ShowCapabilities(c)
  \/ CreateConversation(c) \/ SaveMemory(c) \/ CreatePersona(c) \/ CreateProject(c) \/ MissingRoute(c)
  \/ DeleteConversation(c) \/ DeletePrompt(c) \/ DeleteMemory(c)
  \/ ModifyUser(c) \/ RemoveUser(c)
  \/ PatchConversation(c) \/ PatchPersona(c) \/ Activated(c) \/ PatchPlugin(c) \/ Toggled(c)
  \/ CloneVoice(c) \/ InsertVersion(c) \/ InsertDefault(c) \/ DropWorkspace(c)
Unclicked(c) ==
  \/ CreatePrompt(c) \/ CreateScheduled(c) \/ DeleteScheduled(c) \/ DropProject(c)
  \/ CreateChat(c) \/ UpdateChat(c) \/ DeleteChat(c) \/ AddProject(c) \/ DeleteProject(c)
  \/ AddTask(c) \/ DeleteTask(c) \/ AddLibrary(c) \/ DeleteLibrary(c) \/ SetSettings(c)
  \/ RemoveVoice(c) \/ UpdateScheduled(c) \/ AddMessage(c) \/ DeleteMessage(c)
Begins(c) == SubmitSample(c) \/ CreateCatalogAsset(c) \/ GetWorkspace(c) \/ RemoveWorkspace(c)

LEMMA LibrarySteps ==
  LibraryNext => \E c \in Calls : \/ Clicking(c) \/ GoesOn(c) \/ Unclicked(c) \/ Begins(c)
                                  \/ (\E chat \in Ids : Share(c, chat)) \/ ReadToken(c) \/ MintToken(c)
BY DEF LibraryNext, Clicking, GoesOn, Unclicked, Begins

\* A click in the sidebar makes a call and changes nothing yet.
LEMMA Clicks ==
  ASSUME NEW c \in Calls, Clicking(c)
  PROVE  \E what, where, row, got :
           /\ Click(c, what, where, row, got)
           /\ what \in {"load", "create", "remove", "pin", "activate", "toggle", "user"}
           /\ where \in {"list", "insert", "delete", "update"}
BY DEF Clicking, Load, NewConversation, NewPersona, NewProject, Remember, RemoveConversation,
   RemovePrompt, Forget, Pin, Activate, Toggle, InviteUser, ToggleUser, ChangeUser,
   DeleteUser, Create, Remove

-----------------------------------------------------------------------------
(* Share links: a conversation that is not shared twice at once has one token at most,
   and a row that is gone does not come back. *)

Past(id) == id \in Ids /\ (id \in Calls => call[id].at \notin {"start", "insert"})
Sharing(c) == call[c].at \in {"token", "mint"}
ShareCalls ==
  /\ token = [i \in Ids |-> token[i]]
  /\ \A c \in Calls : /\ Sharing(c) => Does(c, "share") /\ call[c].row \in Ids
                      /\ Does(c, "share") => Sharing(c) \/ At(c, "ended")
                      /\ At(c, "mint") => Past(call[c].row)
  /\ \A id \in ChatIds : Past(id)
  /\ \A i \in Ids : token[i] # {} => Past(i)
  /\ \A link \in links : Past(link[1])
OneToken ==
  /\ \A c \in Calls : At(c, "mint") /\ call[c].row \notin together => token[call[c].row] = {}
  /\ \A c, d \in Calls : Sharing(c) /\ Sharing(d) /\ call[c].row = call[d].row
                         => c = d \/ call[c].row \in together
LinkInv == CallShape /\ RowsShape /\ ShareCalls /\ OneToken /\ LinkOpens

LEMMA PastStays ==
  ASSUME NEW c \in Calls, Alone(c), At(c, "start") \/ call'[c].at \notin {"start", "insert"}, NEW id, Past(id)
  PROVE  Past(id)'
BY DEF Alone, Past, Ids, At

\* A call that shares nothing; it may insert a conversation, and delete some.
LEMMA LinksStay ==
  ASSUME LinkInv, NEW c \in Calls, Alone(c), UNCHANGED <<token, links, together>>, RowsShape',
         \A id \in ChatIds' : \/ id \in ChatIds
                              \/ id = c /\ call[c].at \in {"start", "insert"},
         c \in ChatIds' \/ ~At(c, "start") => call'[c].at \notin {"start", "insert"},
         ~Sharing(c), ~Sharing(c)', Does(c, "share")' => At(c, "ended")'
  PROVE  LinkInv'
<1>1. \A id : Past(id) => Past(id)'
  BY PastStays
<1>2. \A d \in Calls \ {c} : call'[d] = call[d]
  BY DEF Alone
<1>3. ShareCalls'
  <2>1. ASSUME NEW d \in Calls
        PROVE  /\ Sharing(d)' => Does(d, "share")' /\ call'[d].row \in Ids
               /\ Does(d, "share")' => Sharing(d)' \/ At(d, "ended")'
               /\ At(d, "mint")' => Past(call[d].row)'
    <3>1. CASE d = c
      BY <3>1 DEF Sharing, At
    <3>2. CASE d # c
      <4>1. call'[d] = call[d]
        BY <1>2, <3>2
      <4> QED
        BY <1>1, <4>1 DEF LinkInv, ShareCalls, Sharing, Does, At
    <3> QED
      BY <3>1, <3>2
  <2>2. ASSUME NEW id \in ChatIds' PROVE Past(id)'
    <3>1. CASE id \in ChatIds
      BY <1>1, <3>1 DEF LinkInv, ShareCalls
    <3>2. CASE id = c
      BY <2>2, <3>2 DEF Past, Ids
    <3> QED
      BY <3>1, <3>2
  <2>3. /\ token' = [i \in Ids |-> token'[i]] /\ (\A i \in Ids : token'[i] # {} => Past(i)')
        /\ \A link \in links' : Past(link[1])'
    BY <1>1 DEF LinkInv, ShareCalls
  <2> QED
    BY <2>1, <2>2, <2>3 DEF ShareCalls
<1>4. OneToken'
  <2>1. \A d \in Calls : Sharing(d)' => d # c /\ Sharing(d) /\ call'[d] = call[d]
    BY <1>2 DEF Sharing
  <2>2. \A d \in Calls : At(d, "mint") => Sharing(d)
    BY DEF Sharing, At
  <2>3. \A d \in Calls : At(d, "mint")' => Sharing(d)'
    BY DEF Sharing, At
  <2> QED
    BY <2>1, <2>2, <2>3 DEF LinkInv, OneToken, At
<1>5. LinkOpens'
  <2>1. ASSUME NEW link \in links, Has("chats", link[1])', link[1] \notin together PROVE link[2] \in token[link[1]]
    <3>1. link[1] \in ChatIds'
      BY <2>1, HasIs DEF ChatIds, Has, Of
    <3>2. link[1] # c \/ call[c].at \notin {"start", "insert"}
      BY DEF LinkInv, ShareCalls, Past
    <3>3. link[1] \in ChatIds
      BY <3>1, <3>2
    <3>4. Has("chats", link[1])
      BY <3>3 DEF ChatIds, Has, Of
    <3> QED
      BY <2>1, <3>4 DEF LinkInv, LinkOpens, Opens
  <2> QED
    BY <2>1 DEF LinkOpens, Opens
<1> QED
  BY <1>3, <1>4, <1>5 DEF LinkInv, Alone

\* The ids of the conversations after an insert, a delete and a change of another list.
LEMMA ChatsAfterInsert ==
  ASSUME RowsShape, NEW list \in Lists, NEW c, rows' = Inserted(list, c)
  PROVE  RowsShape' /\ \A id \in ChatIds' : id \in ChatIds \/ (id = c /\ list = "chats")
<1>1. OnlyList(list) /\ rows'[list] = rows[list] \cup {<<c, FALSE>>}
  BY ListGrows
<1>2. ASSUME NEW id \in ChatIds' PROVE id \in ChatIds \/ (id = c /\ list = "chats")
  <2>1. PICK r \in rows'["chats"] : id = r[1]
    BY <1>2 DEF ChatIds
  <2>2. r \in rows["chats"] \/ (r = <<c, FALSE>> /\ list = "chats")
    BY <1>1, <2>1, ListNames DEF OnlyList
  <2>3. CASE r = <<c, FALSE>> /\ list = "chats"
    BY <2>1, <2>3
  <2>4. CASE r \in rows["chats"]
    BY <2>1, <2>4 DEF ChatIds
  <2> QED
    BY <2>2, <2>3, <2>4
<1> QED
  BY <1>1, <1>2 DEF OnlyList

LEMMA ChatsAfterDelete ==
  ASSUME RowsShape, NEW list \in Lists, NEW id, rows' = Deleted(list, id)
  PROVE  RowsShape' /\ ChatIds' \subseteq ChatIds
<1>1. RowsShape' /\ rows'["chats"] \subseteq rows["chats"]
  BY ListShrinks, ListNames
<1> QED
  BY <1>1 DEF ChatIds

LEMMA ChatsBeside ==
  ASSUME RowsShape, NEW list \in Lists \ {"chats"}, OnlyList(list)
  PROVE  RowsShape' /\ ChatIds' \subseteq ChatIds
BY ListNames DEF OnlyList, ChatIds

\* What the calls do to the tables beside sharing: they leave the conversations alone,
\* delete some, or insert one.
LEMMA RowsOfMoves ==
  ASSUME RowsShape, NEW c \in Calls, GoesOn(c)
  PROVE  /\ RowsShape' /\ UNCHANGED <<token, links, together>>
         /\ \A id \in ChatIds' : id \in ChatIds \/ (id = c /\ At(c, "insert"))
<1> DEFINE Goal == /\ RowsShape' /\ UNCHANGED <<token, links, together>>
                   /\ \A id \in ChatIds' : id \in ChatIds \/ (id = c /\ At(c, "insert"))
<1>1. ASSUME UNCHANGED <<rows, token, links, together>> PROVE Goal
  BY <1>1 DEF RowsShape, ChatIds
<1>2. ASSUME NEW list \in Lists \ {"chats"}, OnlyList(list), UNCHANGED <<token, links, together>> PROVE Goal
  BY <1>2, ChatsBeside
<1>3. CASE \/ Lost(c) \/ ListConversations(c) \/ ListProjects(c) \/ ListPrompts(c)
           \/ ListMemories(c) \/ ListPersonas(c) \/ ListPlugins(c) \/ ListVoices(c) \/ ListUsers(c)
           \/ ShowRows(c) \/ Capabilities(c) \/ ShowCapabilities(c)
           \/ CreateProject(c) \/ MissingRoute(c) \/ Activated(c) \/ Toggled(c)
  BY <1>1, <1>3 DEF Lost, ListConversations, ListProjects, ListPrompts, ListMemories, ListPersonas,
     ListPlugins, ListVoices, ListUsers, Answers, ShowRows, Capabilities, ShowCapabilities,
     CreateProject, MissingRoute, Activated, Toggled, libraryVars, tables
<1>4. CASE SaveMemory(c) \/ CreatePersona(c) \/ InsertDefault(c) \/ CloneVoice(c) \/ CreateConversation(c)
  <2>1. /\ UNCHANGED <<token, links, together>>
        /\ rows' = rows \/ \E list \in Lists : rows' = Inserted(list, c) /\ (list = "chats" => At(c, "insert"))
    BY <1>4, ListNames DEF SaveMemory, CreatePersona, CreateConversation, Inserts, Serves,
       InsertDefault, CloneVoice
  <2> QED
    BY <1>1, <2>1, ChatsAfterInsert
<1>5. CASE DeleteConversation(c) \/ DeletePrompt(c) \/ DeleteMemory(c) \/ DropWorkspace(c)
  <2>1. /\ UNCHANGED <<token, links, together>>
        /\ rows' = rows \/ \E list \in Lists, id \in call[c].got : rows' = Deleted(list, id)
    BY <1>5, ListNames DEF DeleteConversation, DeletePrompt, DeleteMemory, Deletes, DropWorkspace
  <2> QED
    BY <1>1, <2>1, ChatsAfterDelete
<1>6. CASE ModifyUser(c) \/ RemoveUser(c) \/ PatchPersona(c) \/ PatchPlugin(c) \/ InsertVersion(c)
  <2>1. /\ UNCHANGED <<token, links, together>>
        /\ rows' = rows \/ \E list \in {"users", "personas", "features", "assets"} : \E S :
                             rows' = [rows EXCEPT ![list] = S]
    BY <1>6 DEF ModifyUser, RemoveUser, PatchPersona, PatchPlugin, InsertVersion
  <2> QED
    BY <1>1, <1>2, <2>1, ListIsSet, ListNames
<1>7. CASE PatchConversation(c)
  <2>1. /\ UNCHANGED <<token, links, together>>
        /\ rows' = rows \/ \E id, flag : rows' = [rows EXCEPT !["chats"] = Flag(@, id, flag)]
    BY <1>7 DEF PatchConversation
  <2>2. ASSUME NEW id, NEW flag, rows' = [rows EXCEPT !["chats"] = Flag(@, id, flag)]
        PROVE  RowsShape' /\ ChatIds' \subseteq ChatIds
    <3> DEFINE S == Flag(rows["chats"], id, flag)
    <3>1. rows' = [rows EXCEPT !["chats"] = S] /\ \A r \in S : \E s \in rows["chats"] : s[1] = r[1]
      BY <2>2, FlagKeepsIds
    <3> HIDE DEF S
    <3>2. RowsShape' /\ rows'["chats"] = S
      BY <3>1, ListIsSet, ListNames DEF OnlyList
    <3> QED
      BY <3>1, <3>2 DEF ChatIds
  <2> QED
    BY <1>1, <2>1, <2>2
<1> QED
  BY <1>3, <1>4, <1>5, <1>6, <1>7 DEF GoesOn

\* A call goes on from an await to one that is no insert and no share.
LEMMA CallsOfMoves ==
  ASSUME CallShape, NEW c \in Calls, GoesOn(c)
  PROVE  /\ Alone(c) /\ Keeps(c)
         /\ call'[c].at \in {"ended", "answer", "capabilities", "capable", "list", "activated", "toggled"}
         /\ \/ Lost(c)
            \/ call[c].at \in {"list", "answer", "capabilities", "capable", "insert", "delete", "update",
                               "activated", "toggled", "clone", "version", "default", "drop"}
<1> DEFINE Where == {"ended", "answer", "capabilities", "capable", "list", "activated", "toggled"}
           Before == {"list", "answer", "capabilities", "capable", "insert", "delete", "update",
                      "activated", "toggled", "clone", "version", "default", "drop"}
<1>1. Lost(c) \/ call[c].at \in Before
  BY DEF GoesOn, ListConversations, ListProjects, ListPrompts, ListMemories, ListPersonas,
     ListPlugins, ListVoices, ListUsers, Answers, ShowRows, Capabilities, ShowCapabilities,
     CreateConversation, SaveMemory, CreatePersona, Inserts, CreateProject, MissingRoute,
     DeleteConversation, DeletePrompt, DeleteMemory, Deletes, ModifyUser, RemoveUser, PatchConversation,
     PatchPersona, Activated, PatchPlugin, Toggled, CloneVoice, InsertVersion, InsertDefault,
     DropWorkspace, Serves, At
<1>2. \/ Ends(c) \/ \E read : GoesWith(c, "answer", read) \/ GoesWith(c, "capable", read)
      \/ Goes(c, "capabilities") \/ Goes(c, "list") \/ Goes(c, "activated") \/ Goes(c, "toggled")
  BY DEF GoesOn, Lost, ListConversations, ListProjects, ListPrompts, ListMemories, ListPersonas,
     ListPlugins, ListVoices, ListUsers, Answers, ShowRows, Capabilities, ShowCapabilities,
     CreateConversation, SaveMemory, CreatePersona, Inserts, CreateProject, MissingRoute,
     DeleteConversation, DeletePrompt, DeleteMemory, Deletes, ModifyUser, RemoveUser, PatchConversation,
     PatchPersona, Activated, PatchPlugin, Toggled, CloneVoice, InsertVersion, InsertDefault,
     DropWorkspace, Reloads
<1>3. Alone(c) /\ Keeps(c) /\ call'[c].at \in Where
  BY <1>2, CallEnds, CallGoes, CallGoesOn
<1> QED
  BY <1>1, <1>3

\* A call that nobody in the sidebar clicked: one statement, or the first of two.
LEMMA RowsOfOthers ==
  ASSUME RowsShape, CallShape, NEW c \in Calls, Unclicked(c) \/ Begins(c)
  PROVE  /\ Alone(c) /\ At(c, "start") /\ call'[c].does \in {"elsewhere", "voice", "asset", "workspace"}
         /\ call'[c].at \in {"ended", "clone", "version", "default", "drop"}
         /\ RowsShape' /\ UNCHANGED <<token, links, together>>
         /\ \A id \in ChatIds' : id \in ChatIds \/ id = c
<1>1. /\ Alone(c) /\ At(c, "start") /\ call'[c].does \in {"elsewhere", "voice", "asset", "workspace"}
      /\ call'[c].at \in {"ended", "clone", "version", "default", "drop"}
  <2>1. PICK what, where, r, read :
          /\ Makes(c, what, where, r, read)
          /\ what \in {"elsewhere", "voice", "asset", "workspace"}
          /\ where \in {"ended", "clone", "version", "default", "drop"}
    BY DEF Unclicked, Begins, CreatePrompt, CreateScheduled, DeleteScheduled, DropProject,
       CreateChat, UpdateChat, DeleteChat, AddProject, DeleteProject, AddTask, DeleteTask,
       AddLibrary, DeleteLibrary, SetSettings, RemoveVoice, UpdateScheduled, AddMessage,
       DeleteMessage, Adds, Drops, Elsewhere, SubmitSample, CreateCatalogAsset, GetWorkspace,
       RemoveWorkspace
  <2>2. Alone(c) /\ call[c].at = "start" /\ call'[c].does = what /\ call'[c].at = where
    BY <2>1, CallIsMade
  <2> QED
    BY <2>1, <2>2 DEF At
<1>2. UNCHANGED <<token, links, together>>
  BY DEF Unclicked, Begins, CreatePrompt, CreateScheduled, DeleteScheduled, DropProject, CreateChat,
     UpdateChat, DeleteChat, AddProject, DeleteProject, AddTask, DeleteTask, AddLibrary,
     DeleteLibrary, SetSettings, RemoveVoice, UpdateScheduled, AddMessage, DeleteMessage, Adds, Drops,
     Elsewhere, SubmitSample, CreateCatalogAsset, GetWorkspace, RemoveWorkspace, libraryVars, tables
<1>3. RowsShape' /\ \A id \in ChatIds' : id \in ChatIds \/ id = c
  <2>1. \/ rows' = rows
        \/ \E list \in Lists : rows' = Inserted(list, c)
        \/ \E list \in Lists : \E id : rows' = Deleted(list, id)
        \/ \E list \in {"tasks", "messages", "personas"} : \E S : rows' = [rows EXCEPT ![list] = S]
    BY ListNames DEF Unclicked, Begins, CreatePrompt, CreateScheduled, DeleteScheduled,
       DropProject, CreateChat, UpdateChat, DeleteChat, AddProject, DeleteProject, AddTask,
       DeleteTask, AddLibrary, DeleteLibrary, SetSettings, RemoveVoice, UpdateScheduled,
       AddMessage, DeleteMessage, Adds, Drops, SubmitSample, CreateCatalogAsset, GetWorkspace,
       RemoveWorkspace, libraryVars, tables
  <2>2. CASE rows' = rows
    BY <2>2 DEF RowsShape, ChatIds
  <2>3. ASSUME NEW list \in {"tasks", "messages", "personas"}, NEW S, rows' = [rows EXCEPT ![list] = S]
        PROVE  RowsShape' /\ ChatIds' \subseteq ChatIds
    <3>1. list \in Lists /\ list # "chats"
      BY ListNames
    <3> QED
      BY <2>3, <3>1, ListIsSet, ChatsBeside
  <2> QED
    BY <2>1, <2>2, <2>3, ChatsAfterInsert, ChatsAfterDelete
<1> QED
  BY <1>1, <1>2, <1>3

\* The three steps of a share: asked for, the token read, a token written.
LEMMA ShareKeepsLinks ==
  ASSUME LinkInv, NEW c \in Calls, NEW chat \in Ids, Share(c, chat)
  PROVE  LinkInv'
<1>1. /\ Makes(c, "share", "token", chat, {}) /\ UNCHANGED <<rows, token, links>>
      /\ together' = IF \E d \in Calls : UnderWay(d) /\ Does(d, "share") /\ call[d].row = chat
                     THEN together \cup {chat} ELSE together
  BY DEF Share, tables
<1>2. /\ Alone(c) /\ call[c].at = "start"
      /\ call'[c].does = "share" /\ call'[c].at = "token" /\ call'[c].row = chat
  BY <1>1, CallIsMade DEF LinkInv
<1>3. \A d \in Calls \ {c} : call'[d] = call[d]
  BY <1>2 DEF Alone
<1>4. RowsShape' /\ ChatIds' = ChatIds /\ \A id : Past(id) => Past(id)'
  <2>1. At(c, "start")
    BY <1>2 DEF At
  <2> QED
    BY <1>1, <1>2, <2>1, PastStays DEF RowsShape, ChatIds, LinkInv
<1>5. ShareCalls'
  <2>1. ASSUME NEW d \in Calls
        PROVE  /\ Sharing(d)' => Does(d, "share")' /\ call'[d].row \in Ids
               /\ Does(d, "share")' => Sharing(d)' \/ At(d, "ended")'
               /\ At(d, "mint")' => Past(call[d].row)'
    <3>1. CASE d = c
      BY <1>2, <3>1 DEF Sharing, Does, At
    <3>2. CASE d # c
      <4>1. call'[d] = call[d]
        BY <1>3, <3>2
      <4> QED
        BY <1>4, <4>1 DEF LinkInv, ShareCalls, Sharing, Does, At
    <3> QED
      BY <3>1, <3>2
  <2>2. /\ token' = [i \in Ids |-> token'[i]] /\ (\A i \in Ids : token'[i] # {} => Past(i)')
        /\ (\A link \in links' : Past(link[1])') /\ \A id \in ChatIds' : Past(id)'
    BY <1>1, <1>4 DEF LinkInv, ShareCalls
  <2> QED
    BY <2>1, <2>2 DEF ShareCalls
<1>6. OneToken'
  <2>1. \A d \in Calls : Sharing(d) => UnderWay(d) /\ Does(d, "share")
    BY DEF Sharing, UnderWay, Made, Fresh, LinkInv, ShareCalls
  <2>2. \A d \in Calls : At(d, "mint")' => d # c /\ At(d, "mint") /\ call'[d].row = call[d].row
    BY <1>2, <1>3 DEF At
  <2>3. ASSUME NEW d \in Calls, NEW e \in Calls, Sharing(d)', Sharing(e)', call'[d].row = call'[e].row, d # e
        PROVE  call'[d].row \in together'
    <3>1. CASE d # c /\ e # c
      <4>1. call'[d] = call[d] /\ call'[e] = call[e]
        BY <1>3, <3>1
      <4> QED
        BY <1>1, <2>3, <4>1 DEF LinkInv, OneToken, Sharing
    <3>2. ASSUME NEW f \in Calls \ {c}, Sharing(f)', call'[f].row = chat PROVE chat \in together'
      <4>1. call'[f] = call[f] /\ Sharing(f)
        BY <1>3, <3>2 DEF Sharing
      <4> QED
        BY <1>1, <2>1, <3>2, <4>1
    <3> QED
      BY <1>2, <2>3, <3>1, <3>2
  <2>4. together \subseteq together'
    BY <1>1
  <2> QED
    BY <1>1, <2>2, <2>3, <2>4 DEF LinkInv, OneToken, At
<1>7. LinkOpens'
  <2>1. together \subseteq together' /\ \A id : Has("chats", id)' <=> Has("chats", id)
    BY <1>1 DEF Has, Of
  <2> QED
    BY <1>1, <2>1 DEF LinkInv, LinkOpens, Opens
<1> QED
  BY <1>2, <1>4, <1>5, <1>6, <1>7 DEF LinkInv, Alone

\* A share that goes on; its token, if it writes one, is its conversation's alone.
LEMMA TokenKeepsLinks ==
  ASSUME LinkInv, NEW c \in Calls, Sharing(c), Alone(c), Keeps(c), UNCHANGED <<rows, together>>,
         NEW chat, chat = call[c].row,
         \/ At(c, "mint")' /\ At(c, "token") /\ UNCHANGED <<token, links>> /\ Has("chats", chat) /\ token[chat] = {}
         \/ At(c, "ended")' /\ UNCHANGED token /\ links' = links \cup ({chat} \X token[chat])
         \/ /\ At(c, "ended")' /\ At(c, "mint") /\ links' = links \cup {<<chat, c>>}
            /\ token' = IF Has("chats", chat) THEN [token EXCEPT ![chat] = {c}] ELSE token
  PROVE  LinkInv'
<1>1. chat \in Ids /\ Does(c, "share") /\ ~At(c, "start")
  BY DEF LinkInv, ShareCalls, Sharing, At
<1>2. /\ \A d \in Calls \ {c} : call'[d] = call[d]
      /\ call'[c].row = chat /\ call'[c].does = "share" /\ call'[c].at \in {"mint", "ended"}
  BY <1>1 DEF Alone, Keeps, At, Does
<1>3. \A id : Past(id) => Past(id)'
  BY <1>2, PastStays
<1>4. RowsShape' /\ ChatIds' = ChatIds /\ \A id : Has("chats", id)' <=> Has("chats", id)
  BY DEF RowsShape, ChatIds, LinkInv, Has, Of
<1>5. Has("chats", chat) => Past(chat)
  BY HasIs DEF LinkInv, ShareCalls, ChatIds, Has, Of
<1>6. At(c, "mint") \/ token[chat] # {} => Past(chat)
  BY <1>1 DEF LinkInv, ShareCalls
<1>7. /\ token' = [i \in Ids |-> token'[i]] /\ \A i \in Ids \ {chat} : token'[i] = token[i]
      /\ UNCHANGED token \/ (At(c, "mint") /\ token'[chat] = {c} /\ At(c, "ended")')
  BY <1>1 DEF LinkInv, ShareCalls
<1>8. ShareCalls'
  <2>1. ASSUME NEW d \in Calls
        PROVE  /\ Sharing(d)' => Does(d, "share")' /\ call'[d].row \in Ids
               /\ Does(d, "share")' => Sharing(d)' \/ At(d, "ended")'
               /\ At(d, "mint")' => Past(call[d].row)'
    <3>1. CASE d = c
      <4>1. At(c, "mint")' => Past(chat)'
        BY <1>3, <1>5 DEF At
      <4> QED
        BY <1>1, <1>2, <3>1, <4>1 DEF Sharing, Does, At
    <3>2. CASE d # c
      <4>1. call'[d] = call[d]
        BY <1>2, <3>2
      <4> QED
        BY <1>3, <4>1 DEF LinkInv, ShareCalls, Sharing, Does, At
    <3> QED
      BY <3>1, <3>2
  <2>2. \A i \in Ids : token'[i] # {} => Past(i)'
    BY <1>3, <1>6, <1>7 DEF LinkInv, ShareCalls
  <2>3. ASSUME NEW link \in links' PROVE Past(link[1])'
    <3>1. CASE link \in links
      BY <1>3, <3>1 DEF LinkInv, ShareCalls
    <3>2. CASE link \notin links
      <4>1. link[1] = chat /\ (At(c, "mint") \/ token[chat] # {})
        BY <2>3, <3>2
      <4> QED
        BY <1>3, <1>6, <4>1
    <3> QED
      BY <3>1, <3>2
  <2>4. \A id \in ChatIds' : Past(id)'
    BY <1>3, <1>4 DEF LinkInv, ShareCalls
  <2> QED
    BY <1>7, <2>1, <2>2, <2>3, <2>4 DEF ShareCalls
<1>9. OneToken'
  <2>1. \A d \in Calls : Sharing(d)' => Sharing(d) /\ call'[d].row = call[d].row
    BY <1>2 DEF Sharing
  <2>2. ASSUME NEW d \in Calls, At(d, "mint")', call'[d].row \notin together PROVE token'[call'[d].row] = {}
    <3>1. CASE d = c
      BY <1>2, <2>2, <3>1 DEF At
    <3>2. CASE d # c
      <4>1. call'[d] = call[d] /\ token[call[d].row] = {} /\ Sharing(d) /\ call[d].row \in Ids
        BY <1>2, <2>2, <3>2 DEF LinkInv, OneToken, ShareCalls, At, Sharing
      <4>2. call[d].row # chat
        BY <2>2, <3>2, <4>1 DEF LinkInv, OneToken
      <4> QED
        BY <1>7, <4>1, <4>2
    <3> QED
      BY <3>1, <3>2
  <2> QED
    BY <2>1, <2>2 DEF LinkInv, OneToken
<1>10. LinkOpens'
  <2>1. ASSUME NEW link \in links', Has("chats", link[1]), link[1] \notin together
        PROVE  link[2] \in token'[link[1]]
    <3>1. CASE link \notin links
      BY <1>1, <1>7, <2>1, <3>1 DEF LinkInv, ShareCalls
    <3>2. CASE link \in links
      <4>1. link[2] \in token[link[1]] /\ link[1] \in Ids
        BY <2>1, <3>2 DEF LinkInv, LinkOpens, Opens, ShareCalls, Past
      <4>2. link[1] = chat => ~At(c, "mint")
        BY <2>1, <4>1 DEF LinkInv, OneToken
      <4> QED
        BY <1>7, <4>1, <4>2
    <3> QED
      BY <3>1, <3>2
  <2> QED
    BY <1>4, <2>1 DEF LinkOpens, Opens
<1> QED
  BY <1>4, <1>8, <1>9, <1>10 DEF LinkInv, Alone

\* A share link handed out opens its conversation as long as that exists, unless two
\* shares of it were under way at once.
THEOREM ShareLinksOpen == LibrarySpec => []LinkOpens
<1>1. CallsInit /\ LibraryInit => LinkInv
  <2> SUFFICES ASSUME CallsInit, LibraryInit PROVE LinkInv
    OBVIOUS
  <2>1. CallShape /\ \A c \in Calls : call[c].at = "start" /\ call[c].does = "nothing"
    BY CallsBegin DEF Fresh
  <2>2. RowsShape /\ rows["chats"] = {<<Seed, FALSE>>}
    <3>1. RowsShape /\ rows["chats"] = {<<Seed, "chats" = "users">>}
      BY ListNames DEF LibraryInit, RowsShape
    <3> QED
      BY <3>1
  <2>3. \A id \in ChatIds : id = Seed
    BY <2>2 DEF ChatIds
  <2>4. Past(Seed)
    BY SeedIsNoCall DEF Past, Ids
  <2>5. token = [i \in Ids |-> token[i]] /\ links = {} /\ \A i \in Ids : token[i] = {}
    BY DEF LibraryInit
  <2> QED
    BY <2>1, <2>2, <2>3, <2>4, <2>5 DEF LinkInv, ShareCalls, OneToken, LinkOpens, Sharing, Does, At
<1>2. LinkInv /\ [LibraryNext]_<<call, libraryVars>> => LinkInv'
  <2> SUFFICES ASSUME LinkInv, [LibraryNext]_<<call, libraryVars>> PROVE LinkInv'
    OBVIOUS
  <2>1. ASSUME NEW c \in Calls, Clicking(c) PROVE LinkInv'
    <3>1. PICK what, where, row, got :
            /\ Click(c, what, where, row, got)
            /\ what \in {"load", "create", "remove", "pin", "activate", "toggle", "user"}
            /\ where \in {"list", "insert", "delete", "update"}
      BY <2>1, Clicks
    <3>2. Makes(c, what, where, row, got) /\ UNCHANGED <<rows, token, links, together>>
      BY <3>1 DEF Click, tables
    <3>3. Alone(c) /\ call[c].at = "start" /\ call'[c].does = what /\ call'[c].at = where
      BY <3>2, CallIsMade DEF LinkInv
    <3>4. RowsShape' /\ ChatIds' = ChatIds /\ c \notin ChatIds
      BY <3>2, <3>3 DEF RowsShape, ChatIds, LinkInv, ShareCalls, Past
    <3> QED
      BY <3>1, <3>2, <3>3, <3>4, LinksStay DEF Sharing, Does, At
  <2>2. ASSUME NEW c \in Calls, GoesOn(c) PROVE LinkInv'
    <3>1. /\ Alone(c) /\ Keeps(c) /\ ~Sharing(c)' /\ call'[c].at \notin {"start", "insert"}
          /\ ~Sharing(c) /\ (Does(c, "share") => At(c, "ended")')
      <4>1. Lost(c) => ~Does(c, "share") /\ ~Sharing(c)
        BY DEF Lost, Sidebar, Does, LinkInv, ShareCalls
      <4>2. ~Sharing(c) /\ (Does(c, "share") => At(c, "ended"))
        BY <2>2, <4>1, CallsOfMoves DEF LinkInv, ShareCalls, Sharing, At
      <4>3. At(c, "ended") => Lost(c)
        BY <2>2, CallsOfMoves DEF LinkInv, At
      <4> QED
        BY <2>2, <4>1, <4>2, <4>3, CallsOfMoves DEF LinkInv, Sharing, At
    <3>2. /\ RowsShape' /\ UNCHANGED <<token, links, together>>
          /\ \A id \in ChatIds' : id \in ChatIds \/ (id = c /\ At(c, "insert"))
      BY <2>2, RowsOfMoves DEF LinkInv
    <3> QED
      BY <3>1, <3>2, LinksStay DEF Keeps, Does, At
  <2>3. ASSUME NEW c \in Calls, Unclicked(c) \/ Begins(c) PROVE LinkInv'
    <3>1. /\ Alone(c) /\ At(c, "start") /\ call'[c].does \in {"elsewhere", "voice", "asset", "workspace"}
          /\ call'[c].at \in {"ended", "clone", "version", "default", "drop"}
          /\ RowsShape' /\ UNCHANGED <<token, links, together>>
          /\ \A id \in ChatIds' : id \in ChatIds \/ id = c
      BY <2>3, RowsOfOthers DEF LinkInv
    <3> QED
      BY <3>1, LinksStay DEF Sharing, Does, At
  <2>4. ASSUME NEW c \in Calls, ReadToken(c) PROVE LinkInv'
    <3> DEFINE chat == call[c].row
    <3>1. /\ At(c, "token") /\ UNCHANGED <<rows, token, together>>
          /\ \/ Goes(c, "mint") /\ UNCHANGED links /\ Has("chats", chat) /\ token[chat] = {}
             \/ Ends(c) /\ links' = links \cup ({chat} \X token[chat])
      BY <2>4 DEF ReadToken, tables
    <3>2. /\ Alone(c) /\ Keeps(c)
          /\ \/ At(c, "mint")' /\ UNCHANGED links /\ Has("chats", chat) /\ token[chat] = {}
             \/ At(c, "ended")' /\ links' = links \cup ({chat} \X token[chat])
      BY <3>1, CallGoes, CallEnds DEF LinkInv, At
    <3>3. Sharing(c)
      BY <3>1 DEF Sharing, At
    <3> QED
      BY <3>1, <3>2, <3>3, TokenKeepsLinks
  <2>5. ASSUME NEW c \in Calls, MintToken(c) PROVE LinkInv'
    <3> DEFINE chat == call[c].row
    <3>1. /\ At(c, "mint") /\ UNCHANGED <<rows, together>> /\ Ends(c) /\ links' = links \cup {<<chat, c>>}
          /\ token' = IF Has("chats", chat) THEN [token EXCEPT ![chat] = {c}] ELSE token
      BY <2>5 DEF MintToken
    <3>2. Alone(c) /\ Keeps(c) /\ At(c, "ended")' /\ Sharing(c)
      BY <3>1, CallEnds DEF LinkInv, At, Sharing
    <3> QED
      BY <3>1, <3>2, TokenKeepsLinks
  <2>6. CASE UNCHANGED <<call, libraryVars>>
    <3>1. UNCHANGED <<call, rows, token, links, together>>
      BY <2>6 DEF libraryVars, tables
    <3>2. CallShape' /\ RowsShape' /\ ChatIds' = ChatIds /\ \A id : Past(id) <=> Past(id)'
      BY <3>1, CallsStay DEF LinkInv, RowsShape, ChatIds, Past
    <3>3. ShareCalls'
      BY <3>1, <3>2 DEF LinkInv, ShareCalls, Sharing, Does, At
    <3>4. OneToken' /\ LinkOpens'
      BY <3>1 DEF LinkInv, OneToken, LinkOpens, Opens, Has, Of, Sharing, At
    <3> QED
      BY <3>2, <3>3, <3>4 DEF LinkInv
  <2> QED
    BY <2>1, <2>2, <2>3, <2>4, <2>5, <2>6, ShareKeepsLinks, LibrarySteps
<1>3. LinkInv => LinkOpens
  BY DEF LinkInv
<1> QED
  BY <1>1, <1>2, <1>3, PTL DEF LibrarySpec

-----------------------------------------------------------------------------
(* The sidebar.  As long as nothing goes astray one call of it is under way at most, and
   every list it does not load again is empty or as in its table. *)

Loading(c) == call[c].at \in {"list", "answer", "insert", "delete", "update", "activated", "toggled",
                              "capabilities", "capable"}

\* What a call of the sidebar does tells its awaits and its list.
Kind(c) ==
  /\ Loading(c) => Sidebar(c)
  /\ Sidebar(c) => Loading(c) \/ At(c, "ended")
  /\ Does(c, "toggle") => call[c].at \in {"update", "toggled", "ended"}
  /\ At(c, "toggled") => Does(c, "toggle")
  /\ At(c, "activated") => Does(c, "activate")
  /\ Sidebar(c) /\ ~Does(c, "toggle") => call[c].row \in Sidelists
  /\ Does(c, "pin") => call[c].row = "chats"
  /\ Does(c, "activate") => call[c].row = "personas"
  /\ Does(c, "user") => call[c].row = "users"
Flagged == \A r \in rows["features"] : r = <<r[1], r[2]>> /\ r[2] \in BOOLEAN

\* What a call has read is what the tables hold.
HasRead(c) ==
  /\ At(c, "answer") => call[c].got = Listed(call[c].row)
  /\ At(c, "activated") => On(call[c].got) \subseteq On(rows["personas"])
  /\ At(c, "update") /\ Does(c, "activate") =>
       \E r : call[c].got = {r} /\ \E p \in rows["personas"] : p[1] = r[1]
  /\ At(c, "toggled") => call[c].got = Listed("features")
  /\ At(c, "update") /\ Does(c, "toggle") =>
       \E r \in Listed("features") : /\ call[c].row = r[1]
                                     /\ call[c].got = Flag(Listed("features"), r[1], ~r[2])
  /\ At(c, "capable") => call[c].got \subseteq rows["features"]

Shows(list)     == shown[list] \in {{}, Listed(list)}
Renews(c, list) == \/ call[c].at \in {"list", "answer"} /\ call[c].row = list
                   \/ At(c, "activated") /\ list = "personas"
                   \/ At(c, "toggled") /\ list = "features"
PersonaOn == persona \subseteq On(rows["personas"])
ToolsOn   == tools \subseteq On(rows["features"])
Orderly ==
  /\ \A c, d \in Calls : Loading(c) /\ Loading(d) => c = d
  /\ \A c \in Calls : HasRead(c)
  /\ \A list \in Sidelists : Shows(list) \/ \E c \in Calls : Renews(c, list)
  /\ PersonaOn \/ \E c \in Calls : At(c, "activated")
  /\ ToolsOn \/ \E c \in Calls : At(c, "toggled")
SideShape == CallShape /\ RowsShape /\ shown = [l \in Sidelists |-> shown[l]]
SideInv   == SideShape /\ Flagged /\ (\A c \in Calls : Kind(c)) /\ (~astray => Orderly)

LEMMA BusyIs ==
  ASSUME \A c \in Calls : Kind(c)
  PROVE  Busy <=> \E c \in Calls : Loading(c)
BY DEF Kind, Busy, UnderWay, Made, Fresh, Sidebar, Loading, At

LEMMA RestFollows ==
  ASSUME SideInv
  PROVE  SidebarFollows
<1>1. ASSUME ~astray, ~Busy PROVE (\A list \in Sidelists : Shows(list)) /\ PersonaOn /\ ToolsOn
  <2>1. Orderly /\ \A c \in Calls : ~Loading(c)
    BY <1>1, BusyIs DEF SideInv
  <2> QED
    BY <2>1 DEF Orderly, Renews, Loading, At
<1> QED
  BY <1>1 DEF SidebarFollows, Shows, PersonaOn, ToolsOn

LEMMA OthersKeepKind ==
  ASSUME \A d \in Calls : Kind(d), NEW c \in Calls, Alone(c), Kind(c)'
  PROVE  \A d \in Calls : Kind(d)'
<1>1. ASSUME NEW d \in Calls \ {c} PROVE Kind(d)'
  <2>1. call'[d] = call[d] /\ Kind(d)
    BY DEF Alone
  <2> QED
    BY <2>1 DEF Kind, Loading, Sidebar, Does, At
<1> QED
  BY <1>1

\* The step of a call of the sidebar, the only one under way.
LEMMA SidebarStep ==
  ASSUME SideInv, ~astray, NEW c \in Calls, Loading(c), Alone(c), HasRead(c)',
         \A list \in Sidelists : Shows(list) \/ Renews(c, list) => Shows(list)' \/ Renews(c, list)',
         PersonaOn \/ At(c, "activated") => PersonaOn' \/ At(c, "activated")',
         ToolsOn \/ At(c, "toggled") => ToolsOn' \/ At(c, "toggled")'
  PROVE  Orderly'
<1>1. Orderly
  BY DEF SideInv
<1>2. \A d \in Calls \ {c} : call'[d] = call[d] /\ ~Loading(d) /\ ~Loading(d)'
  BY <1>1 DEF Orderly, Alone, Loading
<1>3. \A d \in Calls : Renews(d, "personas") \/ At(d, "activated") \/ At(d, "toggled")
                       \/ (\E list \in Sidelists : Renews(d, list)) => d = c
  BY <1>2 DEF Renews, Loading, At
<1>4. \A d \in Calls : Loading(d)' => d = c
  BY <1>2
<1>5. \A d \in Calls : HasRead(d)'
  BY <1>2 DEF HasRead, Loading, At
<1> QED
  BY <1>1, <1>3, <1>4, <1>5 DEF Orderly

\* The step of any other call that leaves the sidebar and what it lists.
LEMMA OtherStep ==
  ASSUME SideInv, Orderly, NEW c \in Calls, Alone(c), ~Loading(c), ~Loading(c)',
         UNCHANGED <<archived, sidebar>>, \A list \in Sidelists : rows'[list] = rows[list]
  PROVE  Orderly'
<1>1. \A d \in Calls \ {c} : call'[d] = call[d]
  BY DEF Alone
<1>2. \A list \in Sidelists : Listed(list)' = Listed(list)
  BY DEF Listed
<1>3. \A d \in Calls : /\ Loading(d)' => Loading(d) /\ d # c
                       /\ \A list \in Sidelists : Renews(d, list) => Renews(d, list)'
                       /\ At(d, "activated") => At(d, "activated")'
                       /\ At(d, "toggled") => At(d, "toggled")'
  BY <1>1 DEF Renews, Loading, At
<1>4. ASSUME NEW d \in Calls PROVE HasRead(d)'
  <2>1. CASE d = c
    BY <2>1 DEF HasRead, Loading, At
  <2>2. CASE d # c
    <3>1. call'[d] = call[d] /\ HasRead(d) /\ "features" \in Sidelists /\ "personas" \in Sidelists
      BY <1>1, <2>2, ListNames DEF Orderly
    <3>2. At(d, "answer") => call[d].row \in Sidelists
      BY DEF SideInv, Kind, Loading, At, Does
    <3> QED
      BY <1>2, <3>1, <3>2 DEF HasRead, At, Does
  <2> QED
    BY <2>1, <2>2
<1>5. (PersonaOn => PersonaOn') /\ (ToolsOn => ToolsOn') /\ \A list \in Sidelists : Shows(list) => Shows(list)'
  <2>1. UNCHANGED <<shown, tools, persona, rows["personas"], rows["features"]>>
    BY ListNames DEF sidebar
  <2> QED
    BY <1>2, <2>1 DEF PersonaOn, ToolsOn, Shows, On
<1> QED
  BY <1>3, <1>4, <1>5 DEF Orderly

\* The switch of a plugin: the list on the page changes as the table does.
LEMMA FlagOfPart ==
  ASSUME NEW S, NEW id, id # "agent", NEW flag
  PROVE  {r \in Flag(S, id, flag) : r[1] # "agent"} = Flag({r \in S : r[1] # "agent"}, id, flag)
<1> DEFINE L == {r \in S : r[1] # "agent"}
<1>1. <<id, flag>>[1] = id
  OBVIOUS
<1>2. ASSUME NEW r PROVE r \in Flag(S, id, flag) /\ r[1] # "agent" <=> r \in Flag(L, id, flag)
  <2>1. r \in Flag(S, id, flag) <=> (r \in S /\ r[1] # id) \/ (r = <<id, flag>> /\ \E s \in S : s[1] = id)
    BY DEF Flag
  <2>2. r \in Flag(L, id, flag) <=> (r \in L /\ r[1] # id) \/ (r = <<id, flag>> /\ \E s \in L : s[1] = id)
    BY DEF Flag
  <2>3. (\E s \in L : s[1] = id) <=> (\E s \in S : s[1] = id)
    OBVIOUS
  <2> QED
    BY <1>1, <2>1, <2>2, <2>3
<1> QED
  BY <1>2

LEMMA FlagIsSet ==
  ASSUME NEW S, NEW r \in S, NEW flag \in BOOLEAN
  PROVE  (<<r[1], TRUE>> \in Flag(S, r[1], flag)) = flag
<1>1. <<r[1], flag>> \in Flag(S, r[1], flag)
  BY DEF Flag
<1>2. \A s \in Flag(S, r[1], flag) : s[1] # r[1] \/ s = <<r[1], flag>>
  BY DEF Flag
<1>3. <<r[1], TRUE>>[1] = r[1] /\ <<r[1], TRUE>>[2] = TRUE /\ <<r[1], flag>>[2] = flag
  OBVIOUS
<1>4. <<r[1], TRUE>> \in Flag(S, r[1], flag) => <<r[1], TRUE>> = <<r[1], flag>>
  BY <1>2, <1>3
<1>5. CASE flag = TRUE
  BY <1>1, <1>5
<1>6. CASE flag = FALSE
  <2>1. <<r[1], TRUE>> # <<r[1], FALSE>>
    OBVIOUS
  <2>2. <<r[1], TRUE>> \notin Flag(S, r[1], flag)
    BY <1>4, <1>6, <2>1
  <2> QED
    BY <1>6, <2>2
<1> QED
  BY <1>5, <1>6

\* The rows of plugins change in one place.
LEMMA FeaturesStay ==
  ASSUME RowsShape, NEW c \in Calls,
         \/ Clicking(c) \/ (GoesOn(c) /\ ~PatchPlugin(c)) \/ Unclicked(c) \/ Begins(c)
         \/ (\E chat \in Ids : Share(c, chat)) \/ ReadToken(c) \/ MintToken(c)
  PROVE  RowsShape' /\ rows'["features"] = rows["features"]
<1> DEFINE Goal == RowsShape' /\ rows'["features"] = rows["features"]
           Rest  == {"chats", "projects", "prompts", "memories", "personas", "voices", "users",
                    "tasks", "assets", "messages"}
<1>1. CASE rows' = rows
  BY <1>1 DEF RowsShape
<1>2. CASE \E list \in Rest : rows' = Inserted(list, c)
  BY <1>2, ListGrows, ListNames DEF OnlyList
<1>3. CASE \E list \in Rest : \E id : rows' = Deleted(list, id)
  BY <1>3, ListShrinks, ListNames
<1>4. CASE \E list \in Rest : \E S : rows' = [rows EXCEPT ![list] = S]
  BY <1>4, ListIsSet, ListNames DEF OnlyList
<1>5. CASE \/ Clicking(c) \/ (\E chat \in Ids : Share(c, chat)) \/ ReadToken(c) \/ MintToken(c)
  <2>1. UNCHANGED rows
    <3>1. CASE Clicking(c)
      BY <3>1, Clicks DEF Click, tables
    <3> QED
      BY <1>5, <3>1 DEF Share, ReadToken, MintToken, tables
  <2> QED
    BY <1>1, <2>1
<1>6. CASE Unclicked(c) \/ Begins(c)
  <2>1. \/ rows' = rows
        \/ \E list \in Rest : rows' = Inserted(list, c)
        \/ \E list \in Rest : \E id : rows' = Deleted(list, id)
        \/ \E list \in Rest : \E S : rows' = [rows EXCEPT ![list] = S]
    BY <1>6 DEF Unclicked, Begins, CreatePrompt, CreateScheduled, DeleteScheduled,
       DropProject, CreateChat, UpdateChat, DeleteChat, AddProject, DeleteProject, AddTask,
       DeleteTask, AddLibrary, DeleteLibrary, SetSettings, RemoveVoice, UpdateScheduled,
       AddMessage, DeleteMessage, Adds, Drops, SubmitSample, CreateCatalogAsset, GetWorkspace,
       RemoveWorkspace, libraryVars, tables
  <2> QED
    BY <1>1, <1>2, <1>3, <1>4, <2>1
<1>7. CASE GoesOn(c) /\ ~PatchPlugin(c)
  <2>1. \/ rows' = rows
        \/ \E list \in Rest : rows' = Inserted(list, c)
        \/ \E list \in Rest : \E id : rows' = Deleted(list, id)
        \/ \E list \in Rest : \E S : rows' = [rows EXCEPT ![list] = S]
    BY <1>7 DEF GoesOn, Lost, ListConversations, ListProjects, ListPrompts, ListMemories,
       ListPersonas, ListPlugins, ListVoices, ListUsers, Answers, ShowRows, Capabilities,
       ShowCapabilities, CreateConversation, SaveMemory, CreatePersona, Inserts,
       CreateProject, MissingRoute, DeleteConversation, DeletePrompt, DeleteMemory, Deletes,
       ModifyUser, RemoveUser, PatchConversation, PatchPersona, Activated, Toggled,
       CloneVoice, InsertVersion, InsertDefault, DropWorkspace, libraryVars, tables
  <2> QED
    BY <1>1, <1>2, <1>3, <1>4, <2>1
<1> QED
  BY <1>5, <1>6, <1>7

\* A click makes a call of the sidebar; with another under way it goes astray.
LEMMA ClickFollows ==
  ASSUME SideInv, NEW c \in Calls, Clicking(c)
  PROVE  SideInv'
<1>1. PICK what, where, r, read :
        /\ Click(c, what, where, r, read)
        /\ \/ what = "load" /\ where = "list" /\ r \in Sidelists
           \/ what = "create" /\ where = "insert" /\ r \in Sidelists
           \/ what = "remove" /\ where = "delete" /\ r \in Sidelists
           \/ what = "pin" /\ where = "update" /\ r = "chats"
           \/ what = "user" /\ where = "update" /\ r = "users"
           \/ /\ what = "activate" /\ where = "update" /\ r = "personas"
              /\ \E p \in shown["personas"] : read = {<<p[1], ~p[2]>>}
           \/ /\ what = "toggle" /\ where = "update"
              /\ \E p \in shown["features"] : r = p[1] /\ read = Flag(shown["features"], p[1], ~p[2])
  <2>1. {"chats", "personas", "projects", "memories", "prompts", "users"} \subseteq Sidelists
    BY ListNames
  <2>2. CASE \E list \in Sidelists : Load(c, list)
    BY <2>2 DEF Load
  <2>3. CASE NewConversation(c) \/ NewPersona(c) \/ NewProject(c) \/ Remember(c) \/ InviteUser(c)
    BY <2>1, <2>3 DEF NewConversation, NewPersona, NewProject, Remember, InviteUser, Create
  <2>4. CASE RemoveConversation(c) \/ RemovePrompt(c) \/ Forget(c) \/ DeleteUser(c)
    BY <2>1, <2>4 DEF RemoveConversation, RemovePrompt, Forget, DeleteUser, Remove
  <2>5. CASE Pin(c) \/ ToggleUser(c) \/ ChangeUser(c)
    BY <2>5 DEF Pin, ToggleUser, ChangeUser
  <2>6. CASE Activate(c)
    BY <2>6 DEF Activate
  <2>7. CASE Toggle(c)
    BY <2>7 DEF Toggle
  <2> QED
    BY <2>2, <2>3, <2>4, <2>5, <2>6, <2>7 DEF Clicking
<1>2. /\ Makes(c, what, where, r, read) /\ astray' = (astray \/ Busy)
      /\ UNCHANGED <<rows, archived, shown, tools, persona>>
  BY <1>1 DEF Click, tables, sidebar
<1>3. /\ Alone(c) /\ call[c].at = "start"
      /\ call'[c].does = what /\ call'[c].at = where /\ call'[c].row = r /\ call'[c].got = read
  BY <1>2, CallIsMade DEF SideInv, SideShape
<1>4. SideShape' /\ Flagged'
  BY <1>2, <1>3 DEF Alone, SideInv, SideShape, RowsShape, Flagged
<1>5. \A d \in Calls : Kind(d)'
  <2>1. Kind(c)'
    BY <1>1, <1>3, ListNames DEF Kind, Loading, Sidebar, Does, At
  <2> QED
    BY <1>3, <2>1, OthersKeepKind DEF SideInv
<1>6. ASSUME ~astray' PROVE Orderly'
  <2>1. ~astray /\ Orderly /\ \A d \in Calls : ~Loading(d)
    BY <1>2, <1>6, BusyIs DEF SideInv
  <2>2. \A d \in Calls : (Loading(d)' => d = c) /\ ~At(d, "activated")' /\ ~At(d, "toggled")'
    BY <1>1, <1>3, <2>1 DEF Alone, Loading, At
  <2>3. \A list \in Sidelists : Shows(list) /\ Listed(list)' = Listed(list)
    BY <1>2, <2>1 DEF Orderly, Renews, Loading, At, Listed
  <2>4. PersonaOn' /\ ToolsOn'
    BY <1>2, <2>1 DEF Orderly, PersonaOn, ToolsOn, Loading, At
  <2>5. ASSUME NEW d \in Calls \ {c} PROVE HasRead(d)'
    BY <2>2 DEF HasRead, Loading, At
  <2>6. HasRead(c)'
    <3>1. CASE what = "activate"
      <4>1. PICK p \in shown["personas"] : read = {<<p[1], ~p[2]>>}
        BY <1>1, <3>1
      <4>2. p \in rows["personas"]
        BY <2>3, <4>1, ListNames DEF Shows, Listed
      <4> DEFINE q == <<p[1], ~p[2]>>
      <4>3. q[1] = p[1] /\ read = {q}
        BY <4>1
      <4> HIDE DEF q
      <4>4. \E s : read = {s} /\ \E t \in rows["personas"] : t[1] = s[1]
        BY <4>2, <4>3
      <4> QED
        BY <1>1, <1>2, <1>3, <3>1, <4>4 DEF HasRead, At, Does
    <3>2. CASE what = "toggle"
      <4>1. PICK p \in shown["features"] : r = p[1] /\ read = Flag(shown["features"], p[1], ~p[2])
        BY <1>1, <3>2
      <4>2. shown["features"] = Listed("features")
        BY <2>3, <4>1, ListNames DEF Shows
      <4>3. \E s \in Listed("features") : r = s[1] /\ read = Flag(Listed("features"), s[1], ~s[2])
        BY <4>1, <4>2
      <4>4. Listed("features")' = Listed("features")
        BY <2>3, ListNames
      <4> QED
        BY <1>1, <1>3, <3>2, <4>3, <4>4 DEF HasRead, At, Does
    <3>3. CASE what \notin {"activate", "toggle"}
      BY <1>1, <1>3, <3>3 DEF HasRead, At, Does
    <3> QED
      BY <3>1, <3>2, <3>3
  <2>7. \A list \in Sidelists : Shows(list)'
    BY <1>2, <2>3 DEF Shows
  <2> QED
    BY <2>2, <2>4, <2>5, <2>6, <2>7 DEF Orderly
<1> QED
  BY <1>4, <1>5, <1>6 DEF SideInv

\* A call that is not of the sidebar, or one of it that is lost.
LEMMA BesideFollows ==
  ASSUME SideInv, NEW c \in Calls,
         \/ Unclicked(c) \/ Begins(c) \/ Lost(c) \/ CloneVoice(c) \/ InsertVersion(c)
         \/ InsertDefault(c) \/ DropWorkspace(c)
         \/ (\E chat \in Ids : Share(c, chat)) \/ ReadToken(c) \/ MintToken(c)
  PROVE  SideInv'
<1>1. UNCHANGED sidebar /\ RowsShape' /\ rows'["features"] = rows["features"]
  <2>1. UNCHANGED sidebar
    BY DEF Unclicked, Begins, CreatePrompt, CreateScheduled, DeleteScheduled, DropProject,
       CreateChat, UpdateChat, DeleteChat, AddProject, DeleteProject, AddTask, DeleteTask,
       AddLibrary, DeleteLibrary, SetSettings, RemoveVoice, UpdateScheduled, AddMessage,
       DeleteMessage, Adds, Drops, Elsewhere, SubmitSample, CreateCatalogAsset, GetWorkspace,
       RemoveWorkspace, Lost, CloneVoice, InsertVersion, InsertDefault, DropWorkspace, Share,
       ReadToken, MintToken, libraryVars
  <2>2. (GoesOn(c) /\ ~PatchPlugin(c)) \/ Unclicked(c) \/ Begins(c)
        \/ (\E chat \in Ids : Share(c, chat)) \/ ReadToken(c) \/ MintToken(c)
    <3>1. CASE Lost(c) \/ CloneVoice(c) \/ InsertVersion(c) \/ InsertDefault(c) \/ DropWorkspace(c)
      <4>1. ~PatchPlugin(c)
        <5>1. CASE Lost(c)
          <6>1. astray' = TRUE /\ Ends(c)
            BY <5>1 DEF Lost
          <6>2. call'[c].at = "ended"
            BY <6>1, CallEnds DEF SideInv, SideShape
          <6>3. ~Goes(c, "toggled")
            BY <6>2, CallGoes DEF SideInv, SideShape
          <6> QED
            BY <6>3 DEF PatchPlugin
        <5>2. CASE ~Lost(c)
          BY <3>1, <5>2 DEF CloneVoice, InsertVersion, InsertDefault, DropWorkspace, PatchPlugin, At
        <5> QED
          BY <5>1, <5>2
      <4> QED
        BY <3>1, <4>1 DEF GoesOn
    <3> QED
      BY <3>1
  <2> QED
    BY <2>1, <2>2, FeaturesStay DEF SideInv, SideShape
<1>2. /\ Alone(c) /\ Kind(c)' /\ ~Loading(c)' /\ (Loading(c) => astray')
  <2>1. CASE Unclicked(c) \/ Begins(c)
    BY <2>1, RowsOfOthers DEF SideInv, SideShape, Kind, Loading, Sidebar, Does, At
  <2>2. CASE \E chat \in Ids : Share(c, chat)
    <3>1. PICK chat : Makes(c, "share", "token", chat, {})
      BY <2>2 DEF Share
    <3>2. Alone(c) /\ call[c].at = "start" /\ call'[c].does = "share" /\ call'[c].at = "token"
      BY <3>1, CallIsMade DEF SideInv, SideShape
    <3> QED
      BY <3>2 DEF Kind, Loading, Sidebar, Does, At
  <2>3. CASE ReadToken(c) \/ MintToken(c)
    <3>1. (Goes(c, "mint") \/ Ends(c)) /\ call[c].at \in {"token", "mint"}
      BY <2>3 DEF ReadToken, MintToken, At
    <3>2. Alone(c) /\ Keeps(c) /\ call'[c].at \in {"mint", "ended"}
      BY <3>1, CallGoes, CallEnds DEF SideInv, SideShape
    <3> QED
      BY <3>1, <3>2 DEF SideInv, Kind, Keeps, Loading, Sidebar, Does, At
  <2>4. CASE Lost(c) \/ CloneVoice(c) \/ InsertVersion(c) \/ InsertDefault(c) \/ DropWorkspace(c)
    <3>1. Ends(c) /\ (astray' \/ call[c].at = "version")
      BY <2>4 DEF Lost, CloneVoice, InsertVersion, InsertDefault, DropWorkspace, At
    <3>2. Alone(c) /\ Keeps(c) /\ call'[c].at = "ended"
      BY <3>1, CallEnds DEF SideInv, SideShape
    <3> QED
      BY <3>1, <3>2 DEF SideInv, Kind, Keeps, Loading, Sidebar, Does, At
  <2> QED
    BY <2>1, <2>2, <2>3, <2>4
<1>3. SideShape' /\ Flagged' /\ \A d \in Calls : Kind(d)'
  <2>1. \A d \in Calls : Kind(d)'
    BY <1>2, OthersKeepKind DEF SideInv
  <2> QED
    BY <1>1, <1>2, <2>1 DEF Alone, SideInv, SideShape, sidebar, Flagged
<1>4. ASSUME ~astray' PROVE Orderly'
  <2>1. ~astray /\ UNCHANGED archived /\ \A list \in Sidelists : rows'[list] = rows[list]
    <3>1. CASE \/ SubmitSample(c) \/ GetWorkspace(c) \/ RemoveWorkspace(c)
               \/ (\E chat \in Ids : Share(c, chat)) \/ ReadToken(c) \/ MintToken(c)
      BY <1>4, <3>1 DEF SubmitSample, GetWorkspace, RemoveWorkspace, Share, ReadToken, MintToken,
         libraryVars, tables
    <3>2. CASE CreateCatalogAsset(c)
      <4>1. rows' = Inserted("assets", c) /\ UNCHANGED <<archived, astray>>
        BY <3>2 DEF CreateCatalogAsset
      <4> QED
        BY <1>4, <4>1, ListGrows, ListNames DEF OnlyList, SideInv, SideShape
    <3>3. CASE InsertVersion(c)
      <4>1. UNCHANGED <<archived, astray>> /\ (rows' = rows \/ \E S : rows' = [rows EXCEPT !["assets"] = S])
        BY <3>3 DEF InsertVersion
      <4> QED
        BY <1>4, <4>1, ListIsSet, ListNames DEF OnlyList, SideInv, SideShape
    <3>4. CASE Unclicked(c) \/ Lost(c) \/ CloneVoice(c) \/ InsertDefault(c) \/ DropWorkspace(c)
      <4>1. astray' = TRUE
        BY <3>4 DEF Unclicked, CreatePrompt, CreateScheduled, DeleteScheduled, DropProject,
           CreateChat, UpdateChat, DeleteChat, AddProject, DeleteProject, AddTask, DeleteTask,
           AddLibrary, DeleteLibrary, SetSettings, RemoveVoice, UpdateScheduled, AddMessage,
           DeleteMessage, Adds, Drops, Elsewhere, Lost, CloneVoice, InsertDefault,
           DropWorkspace
      <4> QED
        BY <1>4, <4>1
    <3> QED
      BY <3>1, <3>2, <3>3, <3>4 DEF Begins
  <2> QED
    BY <1>1, <1>2, <1>4, <2>1, OtherStep DEF SideInv
<1> QED
  BY <1>3, <1>4 DEF SideInv

\* The step of a call of the sidebar: what is left to show of it.
LEMMA StepFollows ==
  ASSUME SideInv, NEW c \in Calls, Loading(c), Alone(c), Keeps(c), UNCHANGED astray,
         call'[c].at \in {"ended", "list", "answer", "capabilities", "capable", "activated", "toggled"},
         At(c, "activated")' => Does(c, "activate"), At(c, "toggled")' => Does(c, "toggle"),
         Does(c, "toggle") => call'[c].at \in {"toggled", "ended"},
         RowsShape', Flagged', shown' = [l \in Sidelists |-> shown'[l]],
         ~astray => Orderly'
  PROVE  SideInv'
<1>1. Kind(c)'
  BY DEF SideInv, Kind, Keeps, Loading, Sidebar, Does, At
<1>2. \A d \in Calls : Kind(d)'
  BY <1>1, OthersKeepKind DEF SideInv
<1> QED
  BY <1>2 DEF SideInv, SideShape, Alone

LEMMA AnswerFollows ==
  ASSUME SideInv, NEW c \in Calls, NEW list \in Sidelists, Answers(c, list)
  PROVE  SideInv'
<1>1. /\ At(c, "list") /\ call[c].row = list /\ GoesWith(c, "answer", Listed(list))
      /\ UNCHANGED <<rows, archived, shown, tools, persona, astray>>
  BY DEF Answers, Serves, libraryVars, tables, sidebar
<1>2. /\ Alone(c) /\ Keeps(c) /\ call'[c].at = "answer" /\ call'[c].got = Listed(list) /\ call'[c].row = list
      /\ Loading(c) /\ ~Does(c, "toggle")
  BY <1>1, CallGoesOn DEF SideInv, SideShape, Keeps, Loading, Kind, At
<1>3. \A l \in Sidelists : Listed(l)' = Listed(l)
  BY <1>1 DEF Listed
<1>4. ASSUME ~astray PROVE Orderly'
  <2>1. HasRead(c)'
    BY <1>2, <1>3 DEF HasRead, At
  <2>2. \A l \in Sidelists : Shows(l) \/ Renews(c, l) => Shows(l)' \/ Renews(c, l)'
    BY <1>1, <1>2, <1>3 DEF Shows, Renews, At
  <2>3. PersonaOn \/ At(c, "activated") => PersonaOn'
    BY <1>1 DEF PersonaOn, At
  <2>4. ToolsOn \/ At(c, "toggled") => ToolsOn'
    BY <1>1 DEF ToolsOn, At
  <2> QED
    BY <1>2, <1>4, <2>1, <2>2, <2>3, <2>4, SidebarStep
<1>5. RowsShape' /\ Flagged' /\ shown' = [l \in Sidelists |-> shown'[l]]
  BY <1>1 DEF SideInv, SideShape, RowsShape, Flagged
<1> QED
  BY <1>1, <1>2, <1>4, <1>5, StepFollows DEF At

LEMMA ShowFollows ==
  ASSUME SideInv, NEW c \in Calls, ShowRows(c)
  PROVE  SideInv'
<1>1. /\ At(c, "answer") /\ shown' = [shown EXCEPT ![call[c].row] = call[c].got]
      /\ Goes(c, "capabilities") \/ Ends(c)
      /\ UNCHANGED <<rows, archived, tools, persona, astray>>
  BY DEF ShowRows, tables
<1>2. /\ Alone(c) /\ Keeps(c) /\ call'[c].at \in {"capabilities", "ended"}
      /\ Loading(c) /\ ~Does(c, "toggle") /\ call[c].row \in Sidelists
  BY <1>1, CallGoes, CallEnds DEF SideInv, SideShape, Loading, Kind, At
<1>3. \A l \in Sidelists : Listed(l)' = Listed(l)
  BY <1>1 DEF Listed
<1>4. /\ shown' = [l \in Sidelists |-> shown'[l]] /\ shown'[call[c].row] = call[c].got
      /\ \A l \in Sidelists \ {call[c].row} : shown'[l] = shown[l]
  BY <1>1, <1>2 DEF SideInv, SideShape
<1>5. ASSUME ~astray PROVE Orderly'
  <2>1. call[c].got = Listed(call[c].row)
    BY <1>1, <1>5 DEF SideInv, Orderly, HasRead
  <2>2. HasRead(c)'
    BY <1>2 DEF HasRead, At
  <2>3. \A l \in Sidelists : Shows(l) \/ Renews(c, l) => Shows(l)'
    <3>1. ASSUME NEW l \in Sidelists, l = call[c].row PROVE Shows(l)'
      BY <1>3, <1>4, <2>1, <3>1 DEF Shows
    <3>2. ASSUME NEW l \in Sidelists, l # call[c].row, Shows(l) \/ Renews(c, l) PROVE Shows(l)'
      BY <1>1, <1>3, <1>4, <3>2 DEF Shows, Renews, At
    <3> QED
      BY <3>1, <3>2
  <2>4. PersonaOn \/ At(c, "activated") => PersonaOn'
    BY <1>1 DEF PersonaOn, At
  <2>5. ToolsOn \/ At(c, "toggled") => ToolsOn'
    BY <1>1 DEF ToolsOn, At
  <2> QED
    BY <1>2, <1>5, <2>2, <2>3, <2>4, <2>5, SidebarStep
<1>6. RowsShape' /\ Flagged'
  BY <1>1 DEF SideInv, SideShape, RowsShape, Flagged
<1> QED
  BY <1>1, <1>2, <1>4, <1>5, <1>6, StepFollows DEF At

LEMMA CapabilitiesFollow ==
  ASSUME SideInv, NEW c \in Calls, Capabilities(c) \/ ShowCapabilities(c)
  PROVE  SideInv'
<1>1. /\ UNCHANGED <<rows, archived, shown, persona, astray>>
      /\ \/ /\ At(c, "capabilities") /\ UNCHANGED tools
            /\ GoesWith(c, "capable", {r \in rows["features"] : r[1] # "plugin"})
         \/ At(c, "capable") /\ Ends(c) /\ tools' = On(call[c].got)
  BY DEF Capabilities, ShowCapabilities, libraryVars, tables, sidebar
<1>2. /\ Alone(c) /\ Keeps(c) /\ Loading(c) /\ ~Does(c, "toggle")
      /\ \/ At(c, "capabilities") /\ call'[c].at = "capable" /\ call'[c].got \subseteq rows["features"]
         \/ At(c, "capable") /\ call'[c].at = "ended"
  BY <1>1, CallGoesOn, CallEnds DEF SideInv, SideShape, Loading, Kind, At
<1>3. \A l \in Sidelists : Listed(l)' = Listed(l)
  BY <1>1 DEF Listed
<1>4. ASSUME ~astray PROVE Orderly'
  <2>1. HasRead(c)'
    BY <1>1, <1>2 DEF HasRead, At
  <2>2. \A l \in Sidelists : Shows(l) \/ Renews(c, l) => Shows(l)'
    BY <1>1, <1>3 DEF Shows, Renews, At
  <2>3. PersonaOn \/ At(c, "activated") => PersonaOn'
    BY <1>1 DEF PersonaOn, At
  <2>4. ToolsOn \/ At(c, "toggled") => ToolsOn'
    <3>1. At(c, "capable") => call[c].got \subseteq rows["features"]
      BY <1>4 DEF SideInv, Orderly, HasRead
    <3> QED
      BY <1>1, <3>1 DEF ToolsOn, At, On
  <2> QED
    BY <1>2, <1>4, <2>1, <2>2, <2>3, <2>4, SidebarStep
<1>5. RowsShape' /\ Flagged' /\ shown' = [l \in Sidelists |-> shown'[l]]
  BY <1>1 DEF SideInv, SideShape, RowsShape, Flagged
<1> QED
  BY <1>1, <1>2, <1>4, <1>5, StepFollows DEF At

\* A handler that changes the list it was asked for, which is loaded again, or nothing.
LEMMA TableFollows ==
  ASSUME SideInv, NEW c \in Calls,
         \/ CreateConversation(c) \/ SaveMemory(c) \/ CreatePersona(c) \/ CreateProject(c) \/ MissingRoute(c)
         \/ DeleteConversation(c) \/ DeletePrompt(c) \/ DeleteMemory(c)
         \/ ModifyUser(c) \/ RemoveUser(c) \/ PatchConversation(c)
  PROVE  SideInv'
<1>1. /\ UNCHANGED <<archived, shown, tools, persona, astray>>
      /\ call[c].at \in {"insert", "delete", "update"}
      /\ Ends(c) \/ Goes(c, "list")
  BY DEF CreateConversation, SaveMemory, CreatePersona, Inserts, CreateProject, MissingRoute,
     DeleteConversation, DeletePrompt, DeleteMemory, Deletes, ModifyUser, RemoveUser, PatchConversation,
     Serves, At, Reloads, libraryVars, tables, sidebar
<1>2. /\ Alone(c) /\ Keeps(c) /\ Loading(c) /\ call'[c].row = call[c].row
      /\ call'[c].at \in {"ended", "list"}
  BY <1>1, CallGoes, CallEnds DEF SideInv, SideShape, Loading, Keeps
<1>3. /\ RowsShape' /\ rows'["features"] = rows["features"]
      /\ ~Does(c, "toggle") /\ call[c].row \in Sidelists
      /\ \A l \in Sidelists \ {call[c].row} : rows'[l] = rows[l]
      /\ rows' = rows \/ At(c, "list")'
      /\ On(rows["personas"]) \subseteq On(rows'["personas"])
  <2> DEFINE Goal == /\ RowsShape' /\ rows'["features"] = rows["features"]
                     /\ ~Does(c, "toggle") /\ call[c].row \in Sidelists
                     /\ \A l \in Sidelists \ {call[c].row} : rows'[l] = rows[l]
                     /\ rows' = rows \/ At(c, "list")'
                     /\ On(rows["personas"]) \subseteq On(rows'["personas"])
  <2>1. ASSUME Reloads(c) PROVE At(c, "list")'
    BY <2>1, CallGoes DEF Reloads, SideInv, SideShape, At
  <2>2. ASSUME ~Does(c, "toggle"), call[c].row \in Sidelists, UNCHANGED rows PROVE Goal
    BY <2>2 DEF SideInv, SideShape, RowsShape
  <2>3. CASE CreateConversation(c) \/ SaveMemory(c) \/ CreatePersona(c)
    <3>1. PICK list \in {"chats", "memories", "personas"} :
            /\ rows' = Inserted(list, c) /\ Reloads(c) /\ At(c, "insert") /\ call[c].row = list
      BY <2>3 DEF CreateConversation, SaveMemory, CreatePersona, Inserts, Serves
    <3>2. OnlyList(list) /\ rows[list] \subseteq rows'[list]
      <4>1. list \in Lists /\ RowsShape
        BY ListNames DEF SideInv, SideShape
      <4>2. OnlyList(list) /\ rows'[list] = rows[list] \cup {<<c, FALSE>>}
        BY <3>1, <4>1, ListGrows
      <4> QED
        BY <4>2
    <3>3. ~Does(c, "toggle")
      BY <3>1 DEF SideInv, Kind, At, Does
    <3>4. rows["personas"] \subseteq rows'["personas"]
      BY <3>1, <3>2, ListNames DEF OnlyList
    <3>5. On(rows["personas"]) \subseteq On(rows'["personas"])
      BY <3>4 DEF On
    <3> QED
      BY <2>1, <3>1, <3>2, <3>3, <3>5, ListNames DEF OnlyList
  <2>4. CASE CreateProject(c) \/ MissingRoute(c)
    <3>1. At(c, "insert") /\ call[c].row \in {"projects", "users"} /\ UNCHANGED rows
      BY <2>4 DEF CreateProject, MissingRoute, Serves, libraryVars, tables
    <3>2. ~Does(c, "toggle") /\ call[c].row \in Sidelists
      BY <3>1, ListNames DEF SideInv, Kind, At, Does
    <3> QED
      BY <2>2, <3>1, <3>2
  <2>5. CASE DeleteConversation(c) \/ DeletePrompt(c) \/ DeleteMemory(c)
    <3>1. PICK list \in {"chats", "prompts", "memories"} :
            /\ At(c, "delete") /\ call[c].row = list
            /\ UNCHANGED rows \/ (Reloads(c) /\ \E id : rows' = Deleted(list, id))
      BY <2>5 DEF DeleteConversation, DeletePrompt, DeleteMemory, Deletes, Serves
    <3>2. ~Does(c, "toggle") /\ list \in Sidelists
      BY <3>1, ListNames DEF SideInv, Kind, At, Does
    <3>3. CASE UNCHANGED rows
      BY <2>2, <3>1, <3>2, <3>3
    <3>4. ASSUME NEW id, rows' = Deleted(list, id), Reloads(c) PROVE Goal
      <4>1. RowsShape' /\ \A l \in Lists \ {list, "messages"} : rows'[l] = rows[l]
        BY <3>4, ListShrinks, ListNames DEF SideInv, SideShape
      <4>2. rows'["personas"] = rows["personas"] /\ rows'["features"] = rows["features"]
        BY <4>1, ListNames
      <4> QED
        BY <2>1, <3>1, <3>2, <3>4, <4>1, <4>2, ListNames
    <3> QED
      BY <3>1, <3>3, <3>4
  <2>6. CASE ModifyUser(c) \/ RemoveUser(c) \/ PatchConversation(c)
    <3>1. PICK list \in {"chats", "users"} :
            /\ call[c].row = list /\ ~Does(c, "toggle")
            /\ UNCHANGED rows \/ (Reloads(c) /\ \E S : rows' = [rows EXCEPT ![list] = S])
      <4>1. CASE ModifyUser(c) \/ PatchConversation(c)
        BY <4>1 DEF ModifyUser, PatchConversation, SideInv, Kind, Does
      <4>2. CASE RemoveUser(c)
        BY <4>2 DEF RemoveUser, Serves, SideInv, Kind, Does, At
      <4> QED
        BY <2>6, <4>1, <4>2
    <3>2. list \in Sidelists
      BY ListNames
    <3>3. CASE UNCHANGED rows
      BY <2>2, <3>1, <3>2, <3>3
    <3>4. ASSUME NEW S, rows' = [rows EXCEPT ![list] = S], Reloads(c) PROVE Goal
      <4>1. OnlyList(list)
        BY <3>4, ListIsSet, ListNames DEF SideInv, SideShape
      <4>2. rows'["personas"] = rows["personas"] /\ rows'["features"] = rows["features"]
        BY <4>1, ListNames DEF OnlyList
      <4> QED
        BY <2>1, <3>1, <3>2, <3>4, <4>1, <4>2, ListNames DEF OnlyList
    <3> QED
      BY <3>1, <3>3, <3>4
  <2> QED
    BY <2>3, <2>4, <2>5, <2>6
<1>4. ASSUME ~astray PROVE Orderly'
  <2>1. HasRead(c)'
    BY <1>2 DEF HasRead, At
  <2>2. \A l \in Sidelists : Shows(l) \/ Renews(c, l) => Shows(l)' \/ Renews(c, l)'
    <3>1. ASSUME NEW l \in Sidelists, Shows(l) \/ Renews(c, l) PROVE Shows(l)' \/ Renews(c, l)'
      <4>1. Shows(l)
        BY <1>1, <3>1 DEF Renews, At
      <4>2. CASE rows'[l] = rows[l]
        BY <1>1, <4>1, <4>2 DEF Shows, Listed
      <4>3. CASE rows'[l] # rows[l]
        BY <1>2, <1>3, <4>3 DEF Renews, At
      <4> QED
        BY <4>2, <4>3
    <3> QED
      BY <3>1
  <2>3. PersonaOn \/ At(c, "activated") => PersonaOn'
    BY <1>1, <1>3 DEF PersonaOn, At
  <2>4. ToolsOn \/ At(c, "toggled") => ToolsOn'
    BY <1>1, <1>3 DEF ToolsOn, At
  <2> QED
    BY <1>2, <1>4, <2>1, <2>2, <2>3, <2>4, SidebarStep
<1>5. RowsShape' /\ Flagged' /\ shown' = [l \in Sidelists |-> shown'[l]]
  BY <1>1, <1>3 DEF SideInv, SideShape, Flagged
<1> QED
  BY <1>1, <1>2, <1>3, <1>4, <1>5, StepFollows DEF At

\* The flag of a persona, which one statement takes from every other.
LEMMA PersonaFollows ==
  ASSUME SideInv, NEW c \in Calls, PatchPersona(c) \/ Activated(c)
  PROVE  SideInv'
<1>1. CASE PatchPersona(c)
  <2>1. PICK q \in call[c].got :
          rows' = [rows EXCEPT !["personas"] = {<<p[1], p[1] = q[1] /\ q[2]>> : p \in @}]
    BY <1>1 DEF PatchPersona
  <2>2. /\ Does(c, "activate") /\ At(c, "update") /\ Goes(c, "activated")
        /\ UNCHANGED <<archived, shown, tools, persona, astray>>
    BY <1>1 DEF PatchPersona, sidebar
  <2>3. /\ Alone(c) /\ Keeps(c) /\ Loading(c) /\ call'[c].at = "activated" /\ call'[c].got = call[c].got
        /\ ~Does(c, "toggle")
    BY <2>2, CallGoes DEF SideInv, SideShape, Loading, At, Does
  <2> DEFINE S == {<<p[1], p[1] = q[1] /\ q[2]>> : p \in rows["personas"]}
  <2>4. OnlyList("personas") /\ rows'["personas"] = S
    BY <2>1, ListIsSet, ListNames DEF SideInv, SideShape
  <2>5. \A l \in Sidelists : l = "personas" \/ Listed(l)' = Listed(l)
    BY <2>2, <2>4, ListNames DEF Listed, OnlyList
  <2>6. ASSUME ~astray PROVE Orderly'
    <3>1. PICK r : call[c].got = {r} /\ \E p \in rows["personas"] : p[1] = r[1]
      BY <2>2, <2>6 DEF SideInv, Orderly, HasRead
    <3>2. q = r
      BY <3>1
    <3>3. On(call[c].got) \subseteq On(S)
      <4>1. ASSUME NEW id \in On(call[c].got) PROVE id \in On(S)
        <5>1. q[2] /\ id = q[1]
          BY <3>1, <3>2, <4>1 DEF On
        <5>2. PICK p \in rows["personas"] : p[1] = q[1]
          BY <3>1, <3>2
        <5> DEFINE s == <<p[1], p[1] = q[1] /\ q[2]>>
        <5>3. s \in S /\ s[1] = id /\ s[2]
          BY <5>1, <5>2
        <5> HIDE DEF s, S
        <5> QED
          BY <5>3 DEF On
      <4> QED
        BY <4>1
    <3>4. HasRead(c)'
      BY <2>3, <2>4, <3>3 DEF HasRead, At
    <3>5. \A l \in Sidelists : Shows(l) \/ Renews(c, l) => Shows(l)' \/ Renews(c, l)'
      BY <2>2, <2>3, <2>5 DEF Shows, Renews, At
    <3>6. ToolsOn \/ At(c, "toggled") => ToolsOn'
      BY <2>2, <2>4, ListNames DEF ToolsOn, At, OnlyList
    <3> QED
      BY <2>3, <2>6, <3>4, <3>5, <3>6, SidebarStep DEF At
  <2>7. RowsShape' /\ Flagged' /\ shown' = [l \in Sidelists |-> shown'[l]]
    BY <2>2, <2>4, ListNames DEF SideInv, SideShape, Flagged, OnlyList
  <2> QED
    BY <2>2, <2>3, <2>6, <2>7, StepFollows DEF At
<1>2. CASE Activated(c)
  <2>1. /\ At(c, "activated") /\ persona' = On(call[c].got) /\ Goes(c, "list")
        /\ UNCHANGED <<rows, archived, shown, tools, astray>>
    BY <1>2 DEF Activated, Reloads, tables
  <2>2. /\ Alone(c) /\ Keeps(c) /\ Loading(c) /\ call'[c].at = "list" /\ call'[c].row = "personas"
        /\ ~Does(c, "toggle")
    BY <2>1, CallGoes DEF SideInv, SideShape, Loading, Kind, Keeps, At, Does
  <2>3. \A l \in Sidelists : Listed(l)' = Listed(l)
    BY <2>1 DEF Listed
  <2>4. ASSUME ~astray PROVE Orderly'
    <3>1. On(call[c].got) \subseteq On(rows["personas"])
      BY <2>1, <2>4 DEF SideInv, Orderly, HasRead
    <3>2. HasRead(c)'
      BY <2>2 DEF HasRead, At
    <3>3. \A l \in Sidelists : Shows(l) \/ Renews(c, l) => Shows(l)' \/ Renews(c, l)'
      BY <2>1, <2>2, <2>3 DEF Shows, Renews, At
    <3>4. PersonaOn'
      BY <2>1, <3>1 DEF PersonaOn
    <3>5. ToolsOn \/ At(c, "toggled") => ToolsOn'
      BY <2>1 DEF ToolsOn, At
    <3> QED
      BY <2>2, <2>4, <3>2, <3>3, <3>4, <3>5, SidebarStep
  <2>5. RowsShape' /\ Flagged' /\ shown' = [l \in Sidelists |-> shown'[l]]
    BY <2>1 DEF SideInv, SideShape, RowsShape, Flagged
  <2> QED
    BY <2>1, <2>2, <2>4, <2>5, StepFollows DEF At
<1> QED
  BY <1>1, <1>2

\* The switch of a plugin: what the page worked out is what the table lists after it.
LEMMA PluginFollows ==
  ASSUME SideInv, NEW c \in Calls, PatchPlugin(c) \/ Toggled(c)
  PROVE  SideInv'
<1>1. CASE PatchPlugin(c)
  <2> DEFINE id == call[c].row
             flag == <<id, TRUE>> \in call[c].got
             S == Flag(rows["features"], id, flag)
  <2>1. /\ Does(c, "toggle") /\ At(c, "update") /\ Goes(c, "toggled") /\ rows' = [rows EXCEPT !["features"] = S]
        /\ UNCHANGED <<archived, shown, tools, persona, astray>>
    BY <1>1 DEF PatchPlugin, sidebar
  <2>2. /\ Alone(c) /\ Keeps(c) /\ Loading(c) /\ call'[c].at = "toggled" /\ call'[c].got = call[c].got
    BY <2>1, CallGoes DEF SideInv, SideShape, Loading, At
  <2>3. OnlyList("features") /\ rows'["features"] = S
    BY <2>1, ListIsSet, ListNames DEF SideInv, SideShape
  <2>4. \A l \in Sidelists : l = "features" \/ Listed(l)' = Listed(l)
    BY <2>1, <2>3, ListNames DEF Listed, OnlyList
  <2>5. ASSUME ~astray PROVE Orderly'
    <3>1. PICK r \in Listed("features") : id = r[1] /\ call[c].got = Flag(Listed("features"), r[1], ~r[2])
      BY <2>1, <2>5 DEF SideInv, Orderly, HasRead
    <3>2. r \in rows["features"] /\ r[1] # "agent" /\ r[2] \in BOOLEAN
      BY <3>1 DEF Listed, SideInv, Flagged
    <3>3. flag = ~r[2]
      <4> DEFINE g == ~r[2]
      <4>1. g \in BOOLEAN /\ r \in Listed("features") /\ call[c].got = Flag(Listed("features"), r[1], g)
        BY <3>1
      <4> HIDE DEF g
      <4>2. <<r[1], TRUE>> \in call[c].got <=> g
        BY <4>1, FlagIsSet
      <4>3. flag = g
        BY <3>1, <4>1, <4>2
      <4> QED
        BY <4>3 DEF g
    <3>4. Listed("features") = {s \in rows["features"] : s[1] # "agent"}
      BY DEF Listed
    <3>5. Listed("features")' = {s \in S : s[1] # "agent"}
      BY <2>3 DEF Listed
    <3>6. {s \in S : s[1] # "agent"} = Flag(Listed("features"), id, flag)
      BY <3>1, <3>2, <3>4, FlagOfPart
    <3>7. call[c].got = Listed("features")'
      BY <3>1, <3>3, <3>5, <3>6
    <3>8. HasRead(c)'
      BY <2>2, <3>7 DEF HasRead, At
    <3>9. \A l \in Sidelists : Shows(l) \/ Renews(c, l) => Shows(l)' \/ Renews(c, l)'
      BY <2>1, <2>2, <2>4 DEF Shows, Renews, At
    <3>10. PersonaOn \/ At(c, "activated") => PersonaOn'
      BY <2>1, <2>3, ListNames DEF PersonaOn, At, OnlyList
    <3> QED
      BY <2>2, <2>5, <3>8, <3>9, <3>10, SidebarStep DEF At
  <2>6. Flagged'
    <3>1. ASSUME NEW r \in S PROVE r = <<r[1], r[2]>> /\ r[2] \in BOOLEAN
      <4>1. r \in rows["features"] \/ r = <<id, flag>>
        BY <3>1 DEF Flag
      <4>2. <<id, flag>>[1] = id /\ <<id, flag>>[2] = flag /\ flag \in BOOLEAN
        OBVIOUS
      <4> QED
        BY <4>1, <4>2 DEF SideInv, Flagged
    <3> QED
      BY <2>3, <3>1 DEF Flagged
  <2>7. RowsShape' /\ shown' = [l \in Sidelists |-> shown'[l]]
    BY <2>1, <2>3 DEF SideInv, SideShape, OnlyList
  <2> QED
    BY <2>1, <2>2, <2>5, <2>6, <2>7, StepFollows DEF At
<1>2. CASE Toggled(c)
  <2>1. /\ At(c, "toggled") /\ shown' = [shown EXCEPT !["features"] = call[c].got]
        /\ tools' = On(call[c].got) /\ Ends(c) /\ UNCHANGED <<rows, archived, persona, astray>>
    BY <1>2 DEF Toggled, tables
  <2>2. Alone(c) /\ Keeps(c) /\ Loading(c) /\ call'[c].at = "ended" /\ Does(c, "toggle")
    BY <2>1, CallEnds DEF SideInv, SideShape, Loading, Kind, At
  <2>3. \A l \in Sidelists : Listed(l)' = Listed(l)
    BY <2>1 DEF Listed
  <2>4. /\ shown' = [l \in Sidelists |-> shown'[l]] /\ shown'["features"] = call[c].got
        /\ \A l \in Sidelists \ {"features"} : shown'[l] = shown[l]
    BY <2>1, ListNames DEF SideInv, SideShape
  <2>5. ASSUME ~astray PROVE Orderly'
    <3>1. call[c].got = Listed("features")
      BY <2>1, <2>5 DEF SideInv, Orderly, HasRead
    <3>2. HasRead(c)'
      BY <2>2 DEF HasRead, At
    <3>3. \A l \in Sidelists : Shows(l) \/ Renews(c, l) => Shows(l)'
      BY <2>1, <2>3, <2>4, <3>1 DEF Shows, Renews, At
    <3>4. PersonaOn \/ At(c, "activated") => PersonaOn'
      BY <2>1 DEF PersonaOn, At
    <3>5. ToolsOn'
      <4>1. Listed("features") \subseteq rows["features"]
        BY DEF Listed
      <4> QED
        BY <2>1, <3>1, <4>1 DEF ToolsOn, On
    <3> QED
      BY <2>2, <2>5, <3>2, <3>3, <3>4, <3>5, SidebarStep
  <2>6. RowsShape' /\ Flagged'
    BY <2>1 DEF SideInv, SideShape, RowsShape, Flagged
  <2> QED
    BY <2>1, <2>2, <2>4, <2>5, <2>6, StepFollows DEF At
<1> QED
  BY <1>1, <1>2

\* A page that is left to finish one thing before the next, and that nobody changes anything
\* behind, shows the rows there are, and asks with a persona and with tools still on.
THEOREM ListsFollowTables == LibrarySpec => []SidebarFollows
<1>1. CallsInit /\ LibraryInit => SideInv
  <2> SUFFICES ASSUME CallsInit, LibraryInit PROVE SideInv
    OBVIOUS
  <2>1. CallShape /\ \A c \in Calls : call[c].at = "start" /\ call[c].does = "nothing"
    BY CallsBegin DEF Fresh
  <2>2. RowsShape /\ rows["features"] = Features \X {TRUE}
    BY ListNames DEF LibraryInit, RowsShape
  <2>3. Flagged
    <3>1. ASSUME NEW r \in Features \X {TRUE} PROVE r = <<r[1], r[2]>> /\ r[2] \in BOOLEAN
      <4> DEFINE yes == {TRUE}
      <4>1. yes \subseteq BOOLEAN
        OBVIOUS
      <4> HIDE DEF yes
      <4>2. ASSUME r \in Features \X yes PROVE r = <<r[1], r[2]>> /\ r[2] \in yes
        BY <4>2
      <4> QED
        BY <3>1, <4>1, <4>2 DEF yes
    <3> QED
      BY <2>2, <3>1 DEF Flagged
  <2>4. /\ shown = [l \in Sidelists |-> shown[l]] /\ tools = {} /\ persona = {}
        /\ \A l \in Sidelists : shown[l] = {}
    BY DEF LibraryInit
  <2> QED
    BY <2>1, <2>2, <2>3, <2>4
    DEF SideInv, SideShape, Kind, Orderly, HasRead, Loading, Sidebar, Shows, PersonaOn, ToolsOn, Does, At
<1>2. SideInv /\ [LibraryNext]_<<call, libraryVars>> => SideInv'
  <2> SUFFICES ASSUME SideInv, [LibraryNext]_<<call, libraryVars>> PROVE SideInv'
    OBVIOUS
  <2>1. ASSUME NEW c \in Calls, GoesOn(c) PROVE SideInv'
    <3>1. \/ Lost(c) \/ CloneVoice(c) \/ InsertVersion(c) \/ InsertDefault(c) \/ DropWorkspace(c)
          \/ (\E list \in Sidelists : Answers(c, list)) \/ ShowRows(c)
          \/ Capabilities(c) \/ ShowCapabilities(c)
          \/ CreateConversation(c) \/ SaveMemory(c) \/ CreatePersona(c) \/ CreateProject(c) \/ MissingRoute(c)
          \/ DeleteConversation(c) \/ DeletePrompt(c) \/ DeleteMemory(c)
          \/ ModifyUser(c) \/ RemoveUser(c) \/ PatchConversation(c)
          \/ PatchPersona(c) \/ Activated(c) \/ PatchPlugin(c) \/ Toggled(c)
      BY <2>1, ListNames DEF GoesOn, ListConversations, ListProjects, ListPrompts, ListMemories,
         ListPersonas, ListPlugins, ListVoices, ListUsers
    <3> QED
      BY <3>1, BesideFollows, AnswerFollows, ShowFollows, CapabilitiesFollow, TableFollows,
         PersonaFollows, PluginFollows
  <2>2. CASE UNCHANGED <<call, libraryVars>>
    <3>1. UNCHANGED <<call, rows, archived, shown, tools, persona, astray>>
      BY <2>2 DEF libraryVars, tables, sidebar
    <3>2. SideShape' /\ Flagged'
      BY <3>1, CallsStay DEF SideInv, SideShape, RowsShape, Flagged
    <3>3. \A c \in Calls : Kind(c)'
      BY <3>1 DEF SideInv, Kind, Loading, Sidebar, Does, At
    <3>4. \A l : Listed(l)' = Listed(l)
      BY <3>1 DEF Listed
    <3>5. ASSUME ~astray PROVE Orderly'
      <4>1. /\ \A c \in Calls : HasRead(c)' <=> HasRead(c)
            /\ \A l : (Shows(l)' <=> Shows(l)) /\ \A c \in Calls : (Renews(c, l)' <=> Renews(c, l))
            /\ (PersonaOn' <=> PersonaOn) /\ (ToolsOn' <=> ToolsOn)
        BY <3>1, <3>4 DEF HasRead, Shows, Renews, PersonaOn, ToolsOn, At, Does
      <4> QED
        BY <3>1, <3>5, <4>1 DEF SideInv, Orderly, Loading, At
    <3> QED
      BY <3>1, <3>2, <3>3, <3>5 DEF SideInv
  <2> QED
    BY <2>1, <2>2, LibrarySteps, ClickFollows, BesideFollows
<1> QED
  BY <1>1, <1>2, RestFollows, PTL DEF LibrarySpec
==============================================================================
