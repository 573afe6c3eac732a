------------------------------- MODULE Runner --------------------------------
(***************************************************************************)
(* The agent page of the studio (components/chat/AgentRunner.tsx) and the  *)
(* handlers it calls (agents/agent.controller.ts), which pass everything   *)
(* on to the agent runtime, the module AgentRuns: here a run is its status *)
(* and nothing else.  The page polls the run it watches, with two requests *)
(* at a time, the detail and the status.                                   *)
(***************************************************************************)
EXTENDS Integers, FiniteSets

CONSTANTS
  Runs, NoRun,
  MaxReads,  \* reads of a run under way at once (a bound)
  MaxAsks    \* requests under way at once (a bound)

ASSUME RunsOK == NoRun \notin Runs /\ MaxReads \in Nat /\ MaxAsks \in Nat

VARIABLES
  status,  \* agent_runs: a run is active, waits for an approval, or has ended
  detail,  \* the run shown and its status
  poll,    \* the run that is read every 2.5 s
  reads,   \* reads under way: which run, how far, the status its detail and its status had
  asks,    \* requests under way: what for, how far, which run
  mixed    \* history: since the page last began to watch with nothing under way, two reads
           \* were under way at once, or a read met a change of the run between its halves

runnerVars == <<status, detail, poll, reads, asks, mixed>>
engine     == <<status>>
page       == <<detail, poll>>  \* its list of runs is left out

Nothing    == [run |-> NoRun, status |-> "none"]
Started    == {r \in Runs : status[r] # "none"}
Settled    == {"awaiting", "ended"}  \* what stops the polling
Launching  == \E a \in asks : a.does = "launch"

RunnerInit ==
  /\ status = [r \in Runs |-> "none"]
  /\ detail = Nothing /\ poll = NoRun
  /\ reads = {} /\ asks = {} /\ mixed = FALSE

-----------------------------------------------------------------------------
(* The runtime, whose steps are those of the module AgentRuns. *)

Proceeds(r) ==
  /\ \/ status[r] = "active"   /\ \E s \in Settled : status' = [status EXCEPT ![r] = s]
     \/ status[r] = "awaiting" /\ \E s \in {"active", "ended"} : status' = [status EXCEPT ![r] = s]
  /\ UNCHANGED <<page, reads, asks, mixed>>

-----------------------------------------------------------------------------
(* Watching a run. *)

Read(r) == [run |-> r, at |-> "detail", got |-> "none", now |-> "none"]

\* (slip: the run is read once)
WatchOnce(r) == poll' = NoRun /\ reads' = reads \cup {Read(r)} /\ mixed' = (reads # {})

\* The poll before is stopped; the run is read at once, and then every 2.5 s.
Watch(r) == poll' = r /\ reads' = reads \cup {Read(r)} /\ mixed' = (reads # {})

Tick ==
  /\ poll # NoRun /\ Cardinality(reads) < MaxReads
  /\ reads' = reads \cup {Read(poll)}
  /\ mixed' = (mixed \/ reads # {})
  /\ UNCHANGED <<engine, page, asks>>

Becomes(l, next) == reads' = (reads \ {l}) \cup {next}

RunDetail(l) ==
  /\ l.at = "detail"
  /\ Becomes(l, [l EXCEPT !.at = "show", !.got = status[l.run]])
  /\ UNCHANGED <<engine, page, asks, mixed>>

ShowDetail(l) ==
  /\ l.at = "show"
  /\ detail' = [run |-> l.run, status |-> l.got]
  /\ Becomes(l, [l EXCEPT !.at = "status"])
  /\ UNCHANGED <<engine, poll, asks, mixed>>

RunStatus(l) ==
  /\ l.at = "status"
  /\ Becomes(l, [l EXCEPT !.at = "end", !.now = status[l.run]])
  /\ UNCHANGED <<engine, page, asks, mixed>>

\* Whichever run is polled by now.
EndRead(l) ==
  /\ l.at = "end"
  /\ poll' = IF l.now \in Settled THEN NoRun ELSE poll
  /\ mixed' = (mixed \/ l.now # l.got)
  /\ reads' = reads \ {l}
  /\ UNCHANGED <<engine, detail, asks>>

\* An error of either request keeps the view, and the poll.
Unread(l) ==
  /\ reads' = reads \ {l}
  /\ UNCHANGED <<engine, page, asks, mixed>>

-----------------------------------------------------------------------------
(* Requests. *)

Ask(what, where, r) ==
  /\ Cardinality(asks) < MaxAsks
  /\ asks' = asks \cup {[does |-> what, at |-> where, run |-> r]}
  /\ UNCHANGED <<engine, poll, reads, mixed>>

Answered(a)        == asks' = asks \ {a}
Turns(a, where, r) == asks' = (asks \ {a}) \cup {[a EXCEPT !.at = where, !.run = r]}

Launch == ~Launching /\ Ask("launch", "create", NoRun) /\ detail' = Nothing

CanCancel == detail.status = "active"
CanDecide == detail # Nothing  \* an approval may be pending whatever the run's status

Cancel == CanCancel /\ Ask("cancel", "serve", detail.run) /\ UNCHANGED detail
Decide == CanDecide /\ Ask("decide", "serve", detail.run) /\ UNCHANGED detail

\* The list is loaded when the tab opens and after a launch.
WatchListed(r) ==
  /\ r \in Started /\ Cardinality(reads) < MaxReads
  /\ Watch(r)
  /\ UNCHANGED <<engine, detail, asks>>

\* The runtime has made the run although its answer may not come in 8 s.
CreateRun(a) ==
  /\ a.at = "create"
  /\ \E r \in Runs \ Started :
       /\ status' = [status EXCEPT ![r] = "active"]
       /\ Turns(a, "list", r) \/ Answered(a)
  /\ UNCHANGED <<page, reads, mixed>>

\* The list again: whether that fails or not, the new run comes next.
ListRuns(a) ==
  /\ a.at = "list"
  /\ Turns(a, "watch", a.run)
  /\ UNCHANGED <<engine, page, reads, mixed>>

\* The runtime is not asked what became of it.
CancelRun(a) ==
  /\ a.does = "cancel" /\ a.at = "serve"
  /\ status' \in {status} \cup (IF status[a.run] = "ended" THEN {}
                                ELSE {[status EXCEPT ![a.run] = "ended"]})
  /\ Turns(a, "watch", a.run)
  /\ UNCHANGED <<page, reads, mixed>>

\* Only an administrator's is passed on; the page does not look at the answer.
DecideApproval(a) ==
  /\ a.does = "decide" /\ a.at = "serve"
  /\ status' \in {status} \cup {[status EXCEPT ![a.run] = s] : s \in {"active", "ended"}}
  /\ Turns(a, "watch", a.run)
  /\ UNCHANGED <<page, reads, mixed>>

\* Then the run is watched: the new one, or the one that was shown at the click.
Follow(a) ==
  /\ a.at = "watch" /\ Cardinality(reads) < MaxReads
  /\ Watch(a.run) /\ Answered(a)
  /\ UNCHANGED <<engine, detail>>

NotServed(a) ==
  /\ a.at \in {"create", "serve"}
  /\ Answered(a)
  /\ UNCHANGED <<engine, page, reads, mixed>>

\* The tab is left.  What it awaits shows nowhere any more, though a poll that it still
\* begins goes on until its run has ended.
LeaveTab ==
  /\ detail' = Nothing /\ poll' = NoRun
  /\ reads' = {} /\ asks' = {} /\ mixed' = FALSE
  /\ UNCHANGED engine

RunnerNext ==
  \/ Tick \/ Launch \/ Cancel \/ Decide \/ LeaveTab
  \/ \E r \in Runs : Proceeds(r) \/ WatchListed(r)
  \/ \E l \in reads : RunDetail(l) \/ ShowDetail(l) \/ RunStatus(l) \/ EndRead(l) \/ Unread(l)
  \/ \E a \in asks : \/ CreateRun(a) \/ ListRuns(a) \/ CancelRun(a) \/ DecideApproval(a)
                     \/ Follow(a) \/ NotServed(a)

-----------------------------------------------------------------------------
(* What must hold. *)

\* The page does not come to rest on a run that it shows as active: it still polls one,
\* so the view is read again, unless two reads crossed or one met a change of the run
\* between its halves.
KeepsWatching ==
  reads = {} /\ detail.status = "active" /\ ~mixed => poll # NoRun
==============================================================================
