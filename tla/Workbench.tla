----------------------------- MODULE Workbench -----------------------------
(***************************************************************************)
(* One conversation of the workbench: the page and its store, which show   *)
(* questions at once and answers as they stream in                         *)
(* (chat/[conversationId]/page.tsx, store/chat.ts, lib/streaming.ts), and  *)
(* the handler that stores both and relays the gateway's stream            *)
(* (chat/workbench-stream.controller.ts).  A run is one call of the        *)
(* handler: a question sent, an answer regenerated or a retry.  Nothing    *)
(* keeps the page from starting a run while another streams.               *)
(***************************************************************************)
EXTENDS Integers, Sequences, FiniteSets, SequencesExt

CONSTANTS Runs, NoRun,
          MaxChunks,  \* bound of the chunks of an answer
          MaxLists,   \* bound of the loads and ratings begun
          MaxTrouble  \* bound of the statements that fail

ASSUME WorkbenchConstantsOK ==
  /\ Runs \subseteq Nat /\ NoRun \notin Runs
  /\ MaxChunks \in Nat \ {0} /\ {MaxLists, MaxTrouble} \subseteq Nat

VARIABLES
  shown,      \* messages[conversationId] of the store
  page,       \* run -> what the page does about it
  question,   \* run -> the run that asked what it answers
  seen,       \* run -> the chunks the page has
  db,         \* chat_messages
  server,     \* run -> the statement its handler has reached
  content,    \* run -> the chunks the handler has
  held,       \* load() or rate() in flight: the list it will put in place
  crossed,    \* history: two runs were under way at once, or a list read before a
              \* change replaced the page's
  removed,    \* history: until then, the runs whose answer was taken off the page
  lists, trouble

client        == <<shown, page, question, seen>>
handler       == <<db, server, content>>
runHistory    == <<removed, crossed, lists>>
workbenchVars == <<client, handler, held, runHistory, trouble>>

Question(r)         == [id |-> "user", role |-> "user", run |-> r, size |-> 0]
Bubble(r, n)        == [id |-> "streaming-assistant", role |-> "assistant", run |-> r, size |-> n]
MessageRow(role, r)  == [role |-> role, run |-> r]
Entry(m)            == [id |-> "row", role |-> m.role, run |-> m.run,
                        size |-> IF m.role = "user" THEN 0 ELSE content[m.run]]
NoList              == [why |-> "none", list |-> <<>>, stale |-> FALSE]

Busy == \E r \in Runs : page[r] = "waiting"

\* A list that load or rate holds grows stale with every change of the page.
Changes(list) ==
  /\ shown' = list
  /\ held' = [held EXCEPT !.stale = held.why # "none"]
At(r, stop)      == server[r] = stop
Reaches(r, stop) == server' = [server EXCEPT ![r] = stop]

WorkbenchInit ==
  /\ shown = <<>> /\ page = [r \in Runs |-> "none"]
  /\ question = [r \in Runs |-> NoRun] /\ seen = [r \in Runs |-> 0]
  /\ db = <<>> /\ server = [r \in Runs |-> "none"] /\ content = [r \in Runs |-> 0]
  /\ held = [NoList EXCEPT !.why = "load"]
  /\ removed = {} /\ crossed = FALSE /\ lists = 1 /\ trouble = 0

Crosses(condition, gone) ==
  /\ crossed' = (crossed \/ condition)
  /\ removed' = IF crossed' THEN {} ELSE removed \cup gone

-----------------------------------------------------------------------------
(* The page. *)

\* Runs are numbered as they begin.
Starts(r, q, gone) ==
  /\ page[r] = "none" /\ \A p \in Runs : p < r => page[p] # "none"
  /\ page' = [page EXCEPT ![r] = "waiting"]
  /\ Reaches(r, "question")
  /\ question' = [question EXCEPT ![r] = q]
  /\ Crosses(Busy, gone)
  /\ UNCHANGED <<seen, db, content, lists, trouble>>

\* The question is shown before anything is sent.  The page's own save of it has no
\* route and is ignored.
Send(r) ==
  /\ Starts(r, r, {})
  /\ Changes(Append(shown, Question(r)))

\* Deep Research puts a bubble up first.  Saving its sources has no route either,
\* so it always falls back to a plain run.
Research(r) ==
  /\ Starts(r, r, {})
  /\ Changes(shown \o <<Question(r), Bubble(r, 0)>>)

LastQuestion(list) ==
  LET asked == {i \in DOMAIN list : list[i].role = "user"}
  IN IF asked = {} THEN NoRun ELSE list[Max(asked)].run

\* The messages at some places of the list, in their order.
Kept(list, places) ==
  [k \in 1 .. Cardinality(places) |->
     list[CHOOSE i \in places : Cardinality({j \in places : j <= i}) = k]]

\* What streams next takes the place of a bubble at the end of the list.
Covered(list) ==
  IF list # <<>> /\ Last(list).id = "streaming-assistant" THEN {Last(list).run} ELSE {}

\* Every answer that streamed in keeps the one id, so all of them leave the page.
\* No message the page knows has a numeric id, so none is deleted on the server.
Regenerate(r) ==
  \E i \in DOMAIN shown :
    LET same == {j \in DOMAIN shown : /\ shown[j].id = shown[i].id
                                      /\ shown[j].id = "row" => shown[j] = shown[i]}
        rest == Kept(shown, DOMAIN shown \ same)
    IN /\ shown[i].role = "assistant" /\ LastQuestion(rest) # NoRun
       /\ Starts(r, LastQuestion(rest), Covered(rest) \cup {shown[j].run : j \in same})
       /\ Changes(rest)

\* Edit and Retry: the list stays, its last question is asked again, and the answer
\* goes where the last one was.
AskAgain(r) ==
  /\ LastQuestion(shown) # NoRun
  /\ Starts(r, LastQuestion(shown), Covered(shown))
  /\ UNCHANGED <<shown, held>>

\* (slip: the last message is replaced, whatever it is)
UpdateLast(r) ==
  Changes(IF shown = <<>> THEN <<Bubble(r, seen'[r])>>
          ELSE [shown EXCEPT ![Len(shown)] = Bubble(r, seen'[r])])

\* updateStreamingMessage: the last message, if it is a bubble, whoever's it is.
UpdateStreaming(r) ==
  Changes(IF shown # <<>> /\ Last(shown).id = "streaming-assistant"
          THEN [shown EXCEPT ![Len(shown)] = [@ EXCEPT !.run = r, !.size = seen'[r]]]
          ELSE Append(shown, Bubble(r, seen'[r])))

ReadChunk(r) ==
  /\ page[r] = "waiting" /\ seen[r] < content[r]
  /\ seen' = [seen EXCEPT ![r] = @ + 1]
  /\ UpdateStreaming(r)
  /\ UNCHANGED <<page, question, handler, runHistory, trouble>>

\* finalizeStreamingMessage keeps the bubble and its id.
StreamEnds(r) ==
  /\ page[r] = "waiting" /\ seen[r] = content[r] /\ server[r] \in {"closed", "refused", "hung"}
  /\ page' = [page EXCEPT ![r] = IF At(r, "closed") THEN "done" ELSE "failed"]
  /\ UNCHANGED <<shown, question, seen, handler, held, runHistory, trouble>>

-----------------------------------------------------------------------------
(* Loading and rating, which put a whole list in place: one at a time here. *)

Holds(why, list) ==
  /\ held.why = "none" /\ lists < MaxLists /\ lists' = lists + 1
  /\ held' = [why |-> why, list |-> list, stale |-> why = "load" /\ Busy]
  /\ UNCHANGED <<client, handler, removed, crossed, trouble>>

\* When the page opens, and at a click on Retry.
LoadReads == Holds("load", [i \in DOMAIN db |-> Entry(db[i])])

LoadShows ==
  /\ held.why = "load"
  /\ shown' = held.list /\ held' = NoList
  /\ Crosses(held.stale \/ Busy, {})
  /\ UNCHANGED <<page, question, seen, handler, lists, trouble>>

LoadFails ==  \* three times in a row
  /\ held.why = "load"
  /\ held' = NoList
  /\ UNCHANGED <<client, handler, runHistory, trouble>>

RateStarts ==
  /\ \E i \in DOMAIN shown : shown[i].role = "assistant"
  /\ Holds("rate", shown)

\* Whether the rating was stored or not, the list it began with is put back.
RateEnds ==
  /\ held.why = "rate"
  /\ shown' = held.list /\ held' = NoList
  /\ Crosses(held.stale, {})
  /\ UNCHANGED <<page, question, seen, handler, lists, trouble>>

-----------------------------------------------------------------------------
(* The handler. *)

Fails(r, stop) ==
  /\ trouble < MaxTrouble /\ trouble' = trouble + 1
  /\ Reaches(r, stop) /\ UNCHANGED db

StoreQuestion(r) ==
  /\ At(r, "question")
  /\ \/ /\ db' = Append(db, MessageRow("user", question[r])) /\ UNCHANGED trouble
        /\ Reaches(r, "gateway")
     \/ Fails(r, "refused")
  /\ UNCHANGED <<client, content, held, runHistory>>

AskGateway(r) ==
  /\ At(r, "gateway")
  /\ Reaches(r, "relay") \/ Reaches(r, "refused")
  /\ UNCHANGED <<client, db, content, held, runHistory, trouble>>

\* A chunk is passed on as it comes, to a browser that may have gone.
Relay(r) ==
  /\ At(r, "relay") /\ content[r] < MaxChunks
  /\ content' = [content EXCEPT ![r] = @ + 1]
  /\ UNCHANGED <<client, db, server, held, runHistory, trouble>>

\* (slip: an answer cut short is not kept)
GatewayEndsLossy(r) ==
  /\ At(r, "relay")
  /\ Reaches(r, "save") \/ Reaches(r, "closed")
  /\ UNCHANGED <<client, db, content, held, runHistory, trouble>>

\* The stream ends, or breaks off in the middle.
GatewayEnds(r) ==
  /\ At(r, "relay")
  /\ Reaches(r, "save") \/ Reaches(r, "rescue")
  /\ UNCHANGED <<client, db, content, held, runHistory, trouble>>

\* finalize, in the try and again in the catch: an empty answer is not stored.
SaveAnswer(r) ==
  /\ server[r] \in {"save", "rescue"}
  /\ \/ /\ content[r] = 0
        /\ Reaches(r, "closed") /\ UNCHANGED <<db, trouble>>
     \/ /\ content[r] > 0
        /\ db' = Append(db, MessageRow("assistant", r)) /\ UNCHANGED trouble
        /\ Reaches(r, IF At(r, "save") THEN "audit" ELSE "audit again")
     \/ content[r] > 0 /\ Fails(r, IF At(r, "save") THEN "rescue" ELSE "hung")
  /\ UNCHANGED <<client, content, held, runHistory>>

\* (slip: the answer is saved before and after the audit)
AuditThenSave(r) ==
  /\ server[r] \in {"audit", "audit again"}
  /\ IF At(r, "audit") THEN Reaches(r, "rescue") ELSE Reaches(r, "closed")
  /\ UNCHANGED <<client, db, content, held, runHistory, trouble>>

\* The audit row and the conversation's date: an error stores the answer again.
AuditAnswer(r) ==
  /\ server[r] \in {"audit", "audit again"}
  /\ \/ Reaches(r, "closed") /\ UNCHANGED <<db, trouble>>
     \/ Fails(r, IF At(r, "audit") THEN "rescue" ELSE "hung")
  /\ UNCHANGED <<client, content, held, runHistory>>

-----------------------------------------------------------------------------

Serve(r) == StoreQuestion(r) \/ AskGateway(r) \/ GatewayEnds(r) \/ SaveAnswer(r) \/ AuditAnswer(r)

WorkbenchNext ==
  \/ \E r \in Runs : \/ Send(r) \/ Research(r) \/ Regenerate(r) \/ AskAgain(r)
                     \/ ReadChunk(r) \/ StreamEnds(r)
                     \/ Serve(r) \/ Relay(r)
  \/ LoadReads \/ LoadShows \/ LoadFails \/ RateStarts \/ RateEnds

WorkbenchSpec == WorkbenchInit /\ [][WorkbenchNext]_workbenchVars

\* A handler that runs goes on, and so does the gateway it waits for.
WorkbenchFairness == \A r \in Runs : WF_workbenchVars(Serve(r))

WorkbenchFairSpec == WorkbenchSpec /\ WorkbenchFairness

-----------------------------------------------------------------------------
(* What must hold. *)

Stored(r) == {i \in DOMAIN db : db[i] = MessageRow("assistant", r)}

\* An answer that began to stream is stored, whatever becomes of the page and
\* however the stream ends, if the database answers.
AnswerIsStored ==
  \A r \in Runs : content[r] > 0 ~> Stored(r) # {} \/ trouble > 0

\* Both ends of a stream call finalize, yet an answer is stored once, and a second
\* time only when a statement after its insert failed.
StoredOnce ==
  \A r \in Runs : Cardinality(Stored(r)) <= 1 + (IF trouble > 0 THEN 1 ELSE 0)

\* A page that runs one thing at a time, with no stale list put in place, shows all
\* of every finished answer and of every question, until they are taken off.
AnswersShown ==
  ~crossed /\ trouble = 0 =>
    \A r \in Runs :
      /\ page[r] = "done" /\ content[r] > 0 /\ r \notin removed =>
           \E i \in DOMAIN shown : /\ shown[i].role = "assistant" /\ shown[i].run = r
                                   /\ shown[i].size = content[r]
      /\ page[r] # "none" /\ question[r] = r =>
           \E i \in DOMAIN shown : shown[i].role = "user" /\ shown[i].run = r

\* Runs keep the promise of module Transcript, although both ends of a stream store the
\* answer, and pages repeat questions and lose interest.
PhaseOf(stop) ==
  CASE stop = "none"                          -> "none"
    [] stop = "question"                      -> "asked"
    [] stop \in {"refused", "closed", "hung"} -> "closed"
    [] OTHER                                  -> "open"

Record == INSTANCE Transcript WITH
  rows <- db, stage <- [r \in Runs |-> PhaseOf(server[r])], text <- content, mishaps <- trouble
KeepsTranscript == Record!Spec
=============================================================================
