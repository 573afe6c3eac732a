------------------------------ MODULE AgentRuns ------------------------------
(***************************************************************************)
(* The agent runtime, modules/agents/engine.py: runs are rows of           *)
(* agent_runs.  One runner picks a run and executes run_loop in a thread;  *)
(* the handlers that create, cancel and decide execute on the event loop   *)
(* meanwhile, so their statements interleave with those of the thread but  *)
(* not with each other or with the runner's pick.                          *)
(***************************************************************************)
EXTENDS Integers, Sequences, FiniteSets

CONSTANTS
  Runs,        \* ids of agent_runs, given out in ascending order
  NoRun,
  MaxSteps,    \* run -> max_steps; a negative value passes the handler too
  Granted,     \* runs whose permissions include a tool that needs approval
  MaxMishaps   \* bound of the crashes and database errors of one behaviour

ASSUME ConstantsOK ==
  /\ Runs \subseteq Nat /\ NoRun \notin Runs
  /\ MaxSteps \in [Runs -> Int \ {0}]
  /\ Granted \subseteq Runs /\ MaxMishaps \in Nat

VARIABLES
  status,    \* agent_runs.status, "none" before the row exists
  used,      \* agent_runs.steps_used
  steps,     \* agent_steps: the seq of each row, in the order of insertion
  planned,   \* whether one of them is the plan
  pending,   \* agent_approvals: how many rows of the run are pending
  at,        \* the run the thread works on
  pc,        \* where the thread stands in run_loop
  seq,       \* local: the number of the last step
  deciding,  \* the decision whose first statement is done
  hurt,      \* history: runs met by a crash or a database error
  mishaps    \* history: how many there were

rowsOf  == <<status, used, steps, planned, pending>>
thread  == <<at, pc, seq>>
history == <<hurt, mishaps>>
vars    == <<rowsOf, thread, deciding, history>>

Ended    == {"completed", "failed", "cancelled"}
Active   == {"queued", "planning", "running", "awaiting_approval"}
Stops    == {"idle", "load", "begin", "plan", "gate", "wait", "decide", "save",
             "park", "complete", "giveUp", "fail"}
Verdicts == [run : Runs, status : {"queued", "failed"}]
NoVerdict == [run |-> NoRun, status |-> "failed"]

Set(r, what) == status' = [status EXCEPT ![r] = what]
GoTo(stop) == pc' = stop
Leave == at' = NoRun /\ pc' = "idle" /\ seq' = 0
Working(r) == at = r

\* add_step of the next number.
AddStep ==
  /\ seq' = seq + 1
  /\ steps' = [steps EXCEPT ![at] = Append(@, seq + 1)]

SaveSteps == used' = [used EXCEPT ![at] = seq]

Init ==
  /\ status = [r \in Runs |-> "none"]
  /\ used = [r \in Runs |-> 0]
  /\ steps = [r \in Runs |-> <<>>]
  /\ planned = [r \in Runs |-> FALSE]
  /\ pending = [r \in Runs |-> 0]
  /\ at = NoRun /\ pc = "idle" /\ seq = 0
  /\ deciding = NoVerdict
  /\ hurt = {} /\ mishaps = 0

-----------------------------------------------------------------------------
(* The event loop.  A handler between two statements lets nothing else run. *)

Free == deciding = NoVerdict

CreateRun(r) ==
  /\ Free
  /\ status[r] = "none"
  /\ \A q \in Runs : q < r => status[q] # "none"
  /\ Set(r, "queued")
  /\ UNCHANGED <<used, steps, planned, pending, thread, deciding, history>>

CancelRun(r) ==
  /\ Free
  /\ status[r] \in Active
  /\ Set(r, "cancelled")
  /\ UNCHANGED <<used, steps, planned, pending, thread, deciding, history>>

DecideApproval(r, verdict) ==
  /\ Free
  /\ pending[r] > 0
  /\ pending' = [pending EXCEPT ![r] = @ - 1]
  /\ deciding' = [run |-> r, status |-> verdict]
  /\ UNCHANGED <<status, used, steps, planned, thread, history>>

FinishDecision ==  \* the second statement, whatever the run's status is
  /\ ~Free
  /\ Set(deciding.run, deciding.status)
  /\ deciding' = NoVerdict
  /\ UNCHANGED <<used, steps, planned, pending, thread, history>>

\* (slip: a parked run comes before a queued one)
FirstById(r) ==
  /\ status[r] \in {"queued", "awaiting_approval"}
  /\ \A q \in Runs : status[q] \in {"queued", "awaiting_approval"} => r <= q

\* The run _next_queued takes: queued ones first, then by id.
First(r) ==
  LET Waiting(what) == {q \in Runs : status[q] = what} IN
  \/ status[r] = "queued" /\ \A q \in Waiting("queued") : r <= q
  \/ /\ status[r] = "awaiting_approval" /\ Waiting("queued") = {}
     /\ \A q \in Waiting("awaiting_approval") : r <= q

NextQueued(r) ==
  /\ Free
  /\ pc = "idle"
  /\ First(r)
  /\ Set(r, "planning")
  /\ at' = r /\ GoTo("load") /\ UNCHANGED seq
  /\ UNCHANGED <<used, steps, planned, pending, deciding, history>>

-----------------------------------------------------------------------------
(* The thread: run_loop, one statement after the other. *)

Load ==
  /\ pc = "load"
  /\ seq' = used[at] /\ GoTo("begin")
  /\ UNCHANGED <<rowsOf, at, deciding, history>>

Begin ==  \* the status is written whatever it has become
  /\ pc = "begin"
  /\ Set(at, "running")
  /\ GoTo(IF planned[at] THEN "gate" ELSE "plan")
  /\ UNCHANGED <<used, steps, planned, pending, at, seq, deciding, history>>

Plan ==
  /\ pc = "plan"
  /\ AddStep
  /\ planned' = [planned EXCEPT ![at] = TRUE]
  /\ GoTo("save")
  /\ UNCHANGED <<status, used, pending, at, deciding, history>>

Save ==  \* steps_used, after a plan, a refused tool or a tool's result
  /\ pc = "save"
  /\ SaveSteps /\ GoTo("gate")
  /\ UNCHANGED <<status, steps, planned, pending, at, seq, deciding, history>>

\* (slip: a pending approval does not stop the loop)
GateOpen ==
  /\ pc = "gate" /\ seq < MaxSteps[at]
  /\ GoTo("decide")
  /\ UNCHANGED <<rowsOf, at, seq, deciding, history>>

Gate ==
  /\ pc = "gate" /\ seq < MaxSteps[at]
  /\ GoTo(IF pending[at] > 0 THEN "wait" ELSE "decide")
  /\ UNCHANGED <<rowsOf, at, seq, deciding, history>>

Wait ==
  /\ pc = "wait"
  /\ Set(at, "awaiting_approval")
  /\ Leave
  /\ UNCHANGED <<used, steps, planned, pending, deciding, history>>

\* (slip: seq += 1 is forgotten before a think step)
ThinkUncounted ==
  /\ pc = "decide"
  /\ GoTo("gate")
  /\ UNCHANGED <<rowsOf, at, seq, deciding, history>>

\* The model's reply: no JSON object, or no action the loop knows.
Think ==
  /\ pc = "decide"
  /\ AddStep /\ GoTo("gate")
  /\ UNCHANGED <<status, used, planned, pending, at, deciding, history>>

\* ... a tool: refused, or executed; a tool that fails is an observation.
UseTool ==
  /\ pc = "decide"
  /\ AddStep /\ GoTo("save")
  /\ UNCHANGED <<status, used, planned, pending, at, deciding, history>>

\* ... a tool that needs approval: asked for, with no step of its own.
AskApproval ==
  /\ pc = "decide"
  /\ at \in Granted
  /\ pending' = [pending EXCEPT ![at] = @ + 1]
  /\ GoTo("park")
  /\ UNCHANGED <<status, used, steps, planned, at, seq, deciding, history>>

\* (slip: steps_used is not saved)
ParkUnsaved ==
  /\ pc = "park"
  /\ Set(at, "awaiting_approval")
  /\ Leave
  /\ UNCHANGED <<used, steps, planned, pending, deciding, history>>

Park ==
  /\ pc = "park"
  /\ Set(at, "awaiting_approval") /\ SaveSteps
  /\ Leave
  /\ UNCHANGED <<steps, planned, pending, deciding, history>>

\* ... or the answer.
Answer ==
  /\ pc = "decide"
  /\ AddStep /\ GoTo("complete")
  /\ UNCHANGED <<status, used, planned, pending, at, deciding, history>>

GiveUp ==
  /\ pc = "gate" /\ seq >= MaxSteps[at]
  /\ AddStep /\ GoTo("giveUp")
  /\ UNCHANGED <<status, used, planned, pending, at, deciding, history>>

\* (slip: a failed run keeps its status)
FinishSilently ==
  /\ pc \in {"complete", "giveUp", "fail"}
  /\ IF pc = "fail" THEN UNCHANGED status
     ELSE Set(at, IF pc = "complete" THEN "completed" ELSE "failed")
  /\ SaveSteps
  /\ Leave
  /\ UNCHANGED <<steps, planned, pending, deciding, history>>

Finish ==
  /\ pc \in {"complete", "giveUp", "fail"}
  /\ Set(at, IF pc = "complete" THEN "completed" ELSE "failed") /\ SaveSteps
  /\ Leave
  /\ UNCHANGED <<steps, planned, pending, deciding, history>>

GatewayFails ==  \* an LLM call raises
  /\ pc \in {"plan", "decide"}
  /\ GoTo("fail")
  /\ UNCHANGED <<rowsOf, at, seq, deciding, history>>

-----------------------------------------------------------------------------
(* Mishaps. *)

Mishap(met) ==
  /\ mishaps < MaxMishaps
  /\ mishaps' = mishaps + 1
  /\ hurt' = hurt \cup (met \cap Runs)

\* A statement inside the try raises; seq was counted before an INSERT.
StatementFails ==
  /\ pc \in {"plan", "gate", "wait", "decide", "save", "park", "complete", "giveUp"}
  /\ seq' \in IF pc \in {"plan", "gate", "decide"} THEN {seq, seq + 1} ELSE {seq}
  /\ GoTo("fail")
  /\ Mishap({at})
  /\ UNCHANGED <<rowsOf, at, deciding>>

\* One before the try, or in the except clause: the runner goes on to the next run.
ThreadFails ==
  /\ pc \in {"load", "begin", "fail"}
  /\ Leave
  /\ Mishap({at})
  /\ UNCHANGED <<rowsOf, deciding>>

\* The second statement of a decision raises: the first one stays.
DecisionFails ==
  /\ ~Free
  /\ deciding' = NoVerdict
  /\ Mishap({deciding.run})
  /\ UNCHANGED <<rowsOf, thread>>

\* The process dies and starts again; the rows stay.
Restart ==
  /\ Leave
  /\ deciding' = NoVerdict
  /\ Mishap({at, deciding.run})
  /\ UNCHANGED rowsOf

Thread ==
  \/ Load \/ Begin \/ Plan \/ Save \/ Gate \/ Wait \/ Think \/ UseTool \/ AskApproval
  \/ Park \/ Answer \/ GiveUp \/ Finish \/ GatewayFails

Decide == \E r \in Runs, verdict \in {"queued", "failed"} : DecideApproval(r, verdict)

Next ==
  \/ Thread
  \/ Decide \/ FinishDecision
  \/ \E r \in Runs : CreateRun(r) \/ CancelRun(r) \/ NextQueued(r)
  \/ StatementFails \/ ThreadFails \/ DecisionFails \/ Restart

Spec == Init /\ [][Next]_vars

\* The runner picks for ever, and every call the thread makes has a timeout.
Fairness ==
  /\ WF_vars(Thread) /\ WF_vars(FinishDecision)
  /\ WF_vars(\E r \in Runs : NextQueued(r))
FairSpec == Spec /\ Fairness

-----------------------------------------------------------------------------
(* What must hold. *)

\* Types; the thread is idle exactly when it has no run, and a handler between
\* two statements holds a verdict on a run that exists.
TypeOK ==
  /\ status \in [Runs -> {"none"} \cup Active \cup Ended]
  /\ used \in [Runs -> Nat]
  /\ steps \in [Runs -> Seq(Nat)]
  /\ planned \in [Runs -> BOOLEAN]
  /\ pending \in [Runs -> Nat]
  /\ at \in Runs \cup {NoRun} /\ pc \in Stops /\ seq \in Nat
  /\ pc = "idle" <=> at = NoRun
  /\ deciding \in Verdicts \cup {NoVerdict}
  /\ hurt \subseteq Runs /\ mishaps \in 0 .. MaxMishaps

\* An admin is never asked twice at once for one run, although the gate that
\* looks for a pending approval and the INSERT of the next are far apart and a
\* parked run is picked up again and again.
OnePending == \A r \in Runs : pending[r] <= 1

\* Runs are picked only when queued or parked, so a run whose status says that
\* it executes and which no thread has is lost.  Only a crash or a database
\* error loses one, never a cancellation or decision that overtakes the thread.
NoOrphans ==
  \A r \in Runs \ hurt : status[r] \in {"planning", "running"} => Working(r)

\* The steps of a trace are numbered 1, 2, 3 through every park and resume,
\* although most numbers are saved only when the loop is left.
TraceInOrder ==
  \A r \in Runs \ hurt : \A k \in 1 .. Len(steps[r]) : steps[r][k] = k

\* A run that has ended is not revived once the thread, the handler and the
\* admin's queue are done with it.
Settled(r) ==
  status[r] \in Ended /\ ~Working(r) /\ pending[r] = 0 /\ deciding.run # r
EndedStays == [][\A r \in Runs : Settled(r) => Settled(r)']_vars

\* Whatever the model replies, the thread leaves a run: every reply uses up a
\* step or parks the run.
ThreadLeaves == \A r \in Runs : Working(r) ~> ~Working(r)

\* A queued run is picked once admins stop deciding, whatever runs are parked.
QueuedIsPicked ==
  <>[][~Decide]_vars => \A r \in Runs : status[r] = "queued" ~> status[r] # "queued"
==============================================================================
