------------------------------ MODULE Uploads ------------------------------
(***************************************************************************)
(* The files a user uploads (chat/chat.controller.ts, uploadFile) and the  *)
(* loop of the worker that reads them (worker/main.py, ingestion_loop).    *)
(* The handler of an upload charges the user's space, stores the object,   *)
(* writes a job and its file in three statements and publishes an event;   *)
(* the loop takes events and, once a second, jobs that are still queued.   *)
(* All files have the size 1; each upload is one handler and one job.      *)
(***************************************************************************)
EXTENDS Integers, FiniteSets, Sequences

CONSTANTS Uploads, NoUpload,
          MaxQuota,   \* bound of user_storage_quotas.quota_bytes
          MaxTrouble  \* bound of the handlers and loops that break off

ASSUME UploadsConstantsOK ==
  /\ IsFiniteSet(Uploads) /\ NoUpload \notin Uploads
  /\ MaxQuota \in Nat \ {0} /\ MaxTrouble \in Nat

VARIABLES
  backend,  \* OBJECT_STORAGE_BACKEND
  quota, usedBytes,
  handler,  \* upload -> the statement its handler has reached
  object,   \* the uploads whose object is stored
  job,      \* file_ingestion_jobs
  file,     \* file_ingestion_files
  events,   \* simha:ingestion, as far as the worker has not taken it
  loop,     \* the worker's ingestion_loop
  trouble

space       == <<backend, quota, usedBytes>>
uploadsVars == <<space, handler, object, job, file, events, loop, trouble>>

HandlerEnded == {"new", "refused", "accepted", "broken"}
Handlers     == HandlerEnded \cup
                {"charge", "store", "giveback", "job", "file", "backend", "publish"}
NoFile       == [status |-> "none", backend |-> "none"]
Listening    == [stop |-> "listen", job |-> NoUpload, sees |-> "none", todo |-> {}, polled |-> FALSE]

Goes(u, stop) == handler' = [handler EXCEPT ![u] = stop]
LoopAt(stop)  == loop.stop = stop

UploadsInit ==
  /\ backend \in {"s3", "local"} /\ quota \in 1 .. MaxQuota /\ usedBytes = 0
  /\ handler = [u \in Uploads |-> "new"]
  /\ object = {}
  /\ job = [u \in Uploads |-> "none"]
  /\ file = [u \in Uploads |-> NoFile]
  /\ events = <<>> /\ loop = Listening /\ trouble = 0

-----------------------------------------------------------------------------
(* The handler of an upload. *)

\* The rate limit, a missing file or an unknown type end it here.
Arrive(u) ==
  /\ handler[u] = "new"
  /\ Goes(u, "charge") \/ Goes(u, "refused")
  /\ UNCHANGED <<space, object, job, file, events, loop, trouble>>

\* One UPDATE compares and adds.
Charge(u) ==
  /\ handler[u] = "charge"
  /\ IF usedBytes < quota THEN usedBytes' = usedBytes + 1 /\ Goes(u, "store")
                     ELSE UNCHANGED usedBytes /\ Goes(u, "refused")
  /\ UNCHANGED <<backend, quota, object, job, file, events, loop, trouble>>

StoreObject(u) ==
  /\ handler[u] = "store"
  /\ \/ object' = object \cup {u} /\ Goes(u, "job")
     \/ UNCHANGED object /\ Goes(u, "giveback")
  /\ UNCHANGED <<space, job, file, events, loop, trouble>>

\* (slip: the space of an object that was not stored stays charged)
KeepBytes(u) ==
  /\ handler[u] = "giveback"
  /\ Goes(u, "refused")
  /\ UNCHANGED <<space, object, job, file, events, loop, trouble>>

GiveBack(u) ==
  /\ handler[u] = "giveback"
  /\ usedBytes' = IF usedBytes > 0 THEN usedBytes - 1 ELSE 0
  /\ Goes(u, "refused")
  /\ UNCHANGED <<backend, quota, object, job, file, events, loop, trouble>>

InsertJob(u) ==
  /\ handler[u] = "job"
  /\ job' = [job EXCEPT ![u] = "queued"]
  /\ Goes(u, "file")
  /\ UNCHANGED <<space, object, file, events, loop, trouble>>

InsertFile(u) ==  \* storage_backend has the table's default
  /\ handler[u] = "file"
  /\ file' = [file EXCEPT ![u] = [status |-> "queued", backend |-> "local"]]
  /\ Goes(u, "backend")
  /\ UNCHANGED <<space, object, job, events, loop, trouble>>

SetBackend(u) ==
  /\ handler[u] = "backend"
  /\ file' = [file EXCEPT ![u].backend = backend]
  /\ Goes(u, "publish")
  /\ UNCHANGED <<space, object, job, events, loop, trouble>>

Publish(u) ==  \* nobody keeps an event for a loop that does not listen
  /\ handler[u] = "publish"
  /\ events' = IF loop.stop \in {"down", "dead"} THEN events ELSE Append(events, u)
  /\ Goes(u, "accepted")
  /\ UNCHANGED <<space, object, job, file, loop, trouble>>

BreakOff(u) ==  \* a statement raises, or the process dies
  /\ handler[u] \notin HandlerEnded /\ trouble < MaxTrouble
  /\ trouble' = trouble + 1
  /\ Goes(u, "broken")
  /\ UNCHANGED <<space, object, job, file, events, loop>>

-----------------------------------------------------------------------------
(* The worker's loop. *)

Queued == {u \in Uploads : job[u] = "queued"}

\* (slip: the jobs are looked at only after an event)
TakeEventOnly ==
  /\ LoopAt("listen") /\ events # <<>>
  /\ loop' = [loop EXCEPT !.stop = "start", !.job = Head(events)]
  /\ events' = Tail(events)
  /\ UNCHANGED <<space, handler, object, job, file, trouble>>

TakeEvent ==
  /\ LoopAt("listen")
  /\ IF events = <<>> THEN loop' = [loop EXCEPT !.stop = "poll"] /\ UNCHANGED events
     ELSE /\ loop' = [loop EXCEPT !.stop = "start", !.job = Head(events)]
          /\ events' = Tail(events)
  /\ UNCHANGED <<space, handler, object, job, file, trouble>>

\* Two queued jobs at most.  The loop sleeps a second before it listens again.
Poll ==
  /\ LoopAt("poll")
  /\ \E some \in SUBSET Queued :
       /\ Cardinality(some) = IF Cardinality(Queued) < 2 THEN Cardinality(Queued) ELSE 2
       /\ loop' = [Listening EXCEPT !.stop = "next", !.todo = some, !.polled = TRUE]
  /\ UNCHANGED <<space, handler, object, job, file, events, trouble>>

NextJob ==
  /\ LoopAt("next")
  /\ IF loop.todo = {} THEN loop' = Listening
     ELSE \E u \in loop.todo :
            loop' = [loop EXCEPT !.stop = "start", !.job = u, !.todo = @ \ {u}]
  /\ UNCHANGED <<space, handler, object, job, file, events, trouble>>

\* (slip: a job that is not queued any more is taken for done)
StartQueued ==
  /\ LoopAt("start")
  /\ IF job[loop.job] = "queued"
     THEN /\ job' = [job EXCEPT ![loop.job] = "processing"]
          /\ loop' = [loop EXCEPT !.stop = "extract", !.sees = file[loop.job].backend]
     ELSE loop' = [loop EXCEPT !.stop = IF loop.polled THEN "next" ELSE "poll"] /\ UNCHANGED job
  /\ UNCHANGED <<space, handler, object, file, events, trouble>>

\* (slip: a file is marked as under way before it is read, also one that has been read)
StartAfresh ==
  /\ LoopAt("start")
  /\ job' = [job EXCEPT ![loop.job] = IF @ = "queued" THEN "processing" ELSE @]
  /\ file' = IF file[loop.job] = NoFile THEN file ELSE [file EXCEPT ![loop.job].status = "queued"]
  /\ loop' = [loop EXCEPT !.stop = "extract", !.sees = file[loop.job].backend]
  /\ UNCHANGED <<space, handler, object, events, trouble>>

\* Whatever the job's status, its files are read.
Start ==
  /\ LoopAt("start")
  /\ job' = [job EXCEPT ![loop.job] = IF @ = "queued" THEN "processing" ELSE @]
  /\ loop' = [loop EXCEPT !.stop = "extract", !.sees = file[loop.job].backend]
  /\ UNCHANGED <<space, handler, object, file, events, trouble>>

\* Looked for in the wrong place the file is not found: it is failed or, for most
\* types, completed with no text.
Extract ==
  /\ LoopAt("extract")
  /\ file' = IF loop.sees = "none" THEN file
             ELSE [file EXCEPT ![loop.job].status = IF loop.sees = backend THEN "read" ELSE "missed"]
  /\ loop' = [loop EXCEPT !.stop = "finish"]
  /\ UNCHANGED <<space, handler, object, job, events, trouble>>

\* The storage or the database refuses: the file is failed, even if it was read before.
ExtractFails ==
  /\ LoopAt("extract") /\ loop.sees # "none" /\ trouble < MaxTrouble
  /\ trouble' = trouble + 1
  /\ file' = [file EXCEPT ![loop.job].status = "missed"]
  /\ loop' = [loop EXCEPT !.stop = "finish"]
  /\ UNCHANGED <<space, handler, object, job, events>>

FinishJob ==
  /\ LoopAt("finish")
  /\ job' = [job EXCEPT ![loop.job] = "ended"]
  /\ loop' = [loop EXCEPT !.stop = IF loop.polled THEN "next" ELSE "poll"]
  /\ UNCHANGED <<space, handler, object, file, events, trouble>>

\* The database refuses a statement.  An event's job is given up; anywhere else the
\* exception ends the loop's task, which nothing starts again.
LoopStatementFails ==
  /\ loop.stop \in {"start", "extract", "finish", "poll"} /\ trouble < MaxTrouble
  /\ trouble' = trouble + 1
  /\ IF loop.polled \/ LoopAt("poll")
     THEN loop' = [Listening EXCEPT !.stop = "dead"] /\ events' = <<>>
     ELSE loop' = [loop EXCEPT !.stop = "poll"] /\ UNCHANGED events
  /\ UNCHANGED <<space, handler, object, job, file>>

Crash ==
  /\ ~LoopAt("down") /\ trouble < MaxTrouble
  /\ trouble' = trouble + 1
  /\ loop' = [Listening EXCEPT !.stop = "down"] /\ events' = <<>>
  /\ UNCHANGED <<space, handler, object, job, file>>

RestartWorker ==
  /\ LoopAt("down")
  /\ loop' = Listening
  /\ UNCHANGED <<space, handler, object, job, file, events, trouble>>

-----------------------------------------------------------------------------

Proceed(u) == \/ Charge(u) \/ StoreObject(u) \/ GiveBack(u) \/ InsertJob(u)
              \/ InsertFile(u) \/ SetBackend(u) \/ Publish(u)
Worker     == TakeEvent \/ Poll \/ NextJob \/ Start \/ Extract \/ FinishJob

UploadsNext ==
  \/ \E u \in Uploads : Arrive(u) \/ Proceed(u) \/ BreakOff(u)
  \/ Worker \/ ExtractFails \/ LoopStatementFails \/ Crash \/ RestartWorker

UploadsSpec == UploadsInit /\ [][UploadsNext]_uploadsVars

\* A handler that runs goes on, the loop never rests longer than a second, and the
\* container of a worker that died is started again.
UploadsFairness == /\ \A u \in Uploads : WF_uploadsVars(Proceed(u))
                   /\ WF_uploadsVars(Worker) /\ WF_uploadsVars(RestartWorker)

UploadsFairSpec == UploadsSpec /\ UploadsFairness

-----------------------------------------------------------------------------
(* What must hold. *)

UploadsTypeOK ==
  /\ backend \in {"s3", "local"} /\ quota \in 1 .. MaxQuota /\ usedBytes \in Nat
  /\ handler \in [Uploads -> Handlers] /\ object \subseteq Uploads
  /\ job \in [Uploads -> {"none", "queued", "processing", "ended"}]
  /\ file \in [Uploads -> [status : {"none", "queued", "read", "missed"},
                           backend : {"none", "s3", "local"}]]
  /\ events \in Seq(Uploads) /\ trouble \in 0 .. MaxTrouble
  /\ loop \in [stop : {"listen", "start", "extract", "finish", "poll", "next", "down", "dead"},
               job : Uploads \cup {NoUpload}, sees : {"none", "s3", "local"},
               todo : SUBSET Uploads, polled : BOOLEAN]
  /\ loop.stop \in {"start", "extract", "finish"} => loop.job \in Uploads

Charged  == {u \in Uploads : handler[u] \in {"store", "giveback"}}
Stranded == {u \in Uploads : handler[u] = "broken"} \ object

\* The space charged to a user is that of the objects stored and of the uploads on
\* their way, within the quota; only a handler that broke off before it stored its
\* object can leave more, and no more than its own file.
SpaceAccounted ==
  /\ usedBytes <= quota
  /\ Cardinality(object) + Cardinality(Charged) <= usedBytes
  /\ usedBytes <= Cardinality(object) + Cardinality(Charged) + Cardinality(Stranded)

\* A file whose upload was accepted is read from where it was stored in the end,
\* even if the loop came upon its job before its file or its place was written.
AcceptedIsRead ==
  \A u \in Uploads :
    handler[u] = "accepted" ~> file[u].status = "read" \/ trouble > 0

\* A queued job is picked up in the end, also after the worker has died and come
\* back, unless a database error ended the loop for good.
QueuedJobIsPicked ==
  \A u \in Uploads : job[u] = "queued" ~> job[u] # "queued" \/ LoopAt("dead")

\* Uploads keep the promise of module Intake, where a loop that reads a job twice, before
\* and after its place is known, does not lose what it has read.
StageOf(stop) ==
  CASE stop \in {"new", "charge"}                       -> "open"
    [] stop \in {"store", "giveback"}                   -> "held"
    [] stop \in {"job", "file", "backend", "publish"}   -> "stored"
    [] stop = "broken"                                  -> "lost"
    [] OTHER                                            -> stop

Dock == INSTANCE Intake WITH
  used    <- usedBytes,
  stage   <- [u \in Uploads |-> StageOf(handler[u])],
  kept    <- object,
  read    <- {u \in Uploads : file[u].status = "read"},
  mishaps <- trouble
KeepsIntake == Dock!Spec
=============================================================================
