--------------------------- MODULE AgentRunProofs ---------------------------
(***************************************************************************)
(* Theorems about agent runs, for any number of runs, step limits and      *)
(* mishaps: types, one pending approval at a time, no run lost except by a *)
(* mishap, traces in order, and ended runs that stay ended. The last part  *)
(* is about the other background job, the ingestion of uploads: the space  *)
(* a user is charged is the space of what is stored, and uploads keep the  *)
(* promise of module Intake.                                               *)
(***************************************************************************)
EXTENDS AgentRuns, Uploads, SequenceTheorems, FiniteSetTheorems, TLAPS

\* What a mishap writes keeps its type.
LEMMA MishapTypes ==
  ASSUME NEW met, hurt \subseteq Runs, mishaps \in 0 .. MaxMishaps, Mishap(met)
  PROVE  hurt' \subseteq Runs /\ mishaps' \in 0 .. MaxMishaps
<1>1. hurt' \subseteq Runs
  BY DEF Mishap
<1>2. mishaps' \in 0 .. MaxMishaps
  BY ConstantsOK DEF Mishap
<1> QED
  BY <1>1, <1>2

\* What the thread writes to the row of its run keeps its type.
LEMMA SavedTypes ==
  ASSUME TypeOK, at \in Runs, NEW what \in Active \cup Ended
  PROVE  /\ SaveSteps => used' \in [Runs -> Nat]
         /\ Set(at, what) => status' \in [Runs -> {"none"} \cup Active \cup Ended]
BY DEF SaveSteps, Set, TypeOK

\* Rows, thread and handler keep their types: the thread is idle exactly when it
\* has no run, and a pending count never goes below zero.
THEOREM AgentTypes == Spec => []TypeOK
<1> USE ConstantsOK DEF TypeOK, Ended, Active, Stops, Verdicts, NoVerdict, Set, GoTo, Leave,
                       AddStep, SaveSteps, Free, Mishap, rowsOf, thread, history
<1>1. Init => TypeOK
  BY DEF Init
<1>2. TypeOK /\ [Next]_vars => TypeOK'
  <2> SUFFICES ASSUME TypeOK, [Next]_vars PROVE TypeOK'
    OBVIOUS
  <2>1. ASSUME NEW r \in Runs, CreateRun(r) \/ CancelRun(r) PROVE TypeOK'
    BY <2>1 DEF CreateRun, CancelRun
  <2>2. ASSUME NEW r \in Runs, NextQueued(r) PROVE TypeOK'
    BY <2>2 DEF NextQueued
  <2>3. ASSUME NEW r \in Runs, NEW verdict \in {"queued", "failed"}, DecideApproval(r, verdict)
        PROVE  TypeOK'
    <3>1. pending' \in [Runs -> Nat]
      BY <2>3 DEF DecideApproval
    <3> QED
      BY <2>3, <3>1 DEF DecideApproval
  <2>4. CASE FinishDecision
    BY <2>4 DEF FinishDecision
  <2>5. CASE Load \/ Begin
    <3>1. CASE Load
      BY <3>1 DEF Load
    <3>2. CASE Begin
      <4>1. at \in Runs
        BY <3>2 DEF Begin
      <4>2. Set(at, "running") => status' \in [Runs -> {"none"} \cup Active \cup Ended]
        BY <4>1, SavedTypes
      <4>3. /\ pc' \in {"gate", "plan"} /\ status' \in [Runs -> {"none"} \cup Active \cup Ended]
            /\ UNCHANGED <<used, steps, planned, pending, at, seq, deciding, hurt, mishaps>>
        BY <3>2, <4>2 DEF Begin
      <4> HIDE DEF Active, Ended, Verdicts, NoVerdict
      <4> QED
        BY <4>1, <4>3
    <3> QED
      BY <2>5, <3>1, <3>2
  <2>6. ASSUME at \in Runs, AddStep PROVE seq' \in Nat /\ steps' \in [Runs -> Seq(Nat)]
    BY <2>6
  <2>7. CASE Plan \/ Think \/ UseTool \/ Answer \/ GiveUp
    BY <2>6, <2>7 DEF Plan, Think, UseTool, Answer, GiveUp
  <2>8. CASE Gate \/ GatewayFails
    BY <2>8 DEF Gate, GatewayFails
  <2>9. CASE Save \/ Wait \/ Park \/ Finish
    <3>1. at \in Runs
      BY <2>9 DEF Save, Wait, Park, Finish
    <3>2. used' \in [Runs -> Nat]
      BY <2>9, <3>1, SavedTypes DEF Save, Wait, Park, Finish
    <3>3. status' \in [Runs -> {"none"} \cup Active \cup Ended]
      BY <2>9, <3>1, SavedTypes DEF Save, Wait, Park, Finish
    <3>4. /\ (pc' = "gate" /\ UNCHANGED <<at, seq>>) \/ Leave
          /\ UNCHANGED <<steps, planned, pending, deciding, hurt, mishaps>>
      BY <2>9 DEF Save, Wait, Park, Finish
    <3>5. /\ at' \in Runs \cup {NoRun} /\ pc' \in Stops /\ seq' \in Nat
          /\ pc' = "idle" <=> at' = NoRun
      BY <3>1, <3>4
    <3>6. /\ steps' \in [Runs -> Seq(Nat)] /\ planned' \in [Runs -> BOOLEAN]
          /\ pending' \in [Runs -> Nat] /\ deciding' \in Verdicts \cup {NoVerdict}
          /\ hurt' \subseteq Runs /\ mishaps' \in 0 .. MaxMishaps
      BY <3>4
    <3> HIDE DEF Leave, Active, Ended, Stops, Verdicts, NoVerdict
    <3> QED
      BY <3>2, <3>3, <3>5, <3>6
  <2>10. CASE AskApproval
    <3>1. pending' \in [Runs -> Nat]
      BY <2>10 DEF AskApproval
    <3> QED
      BY <2>10, <3>1 DEF AskApproval
  <2>11. CASE StatementFails \/ ThreadFails \/ DecisionFails \/ Restart
    <3>1. hurt' \subseteq Runs /\ mishaps' \in 0 .. MaxMishaps
      <4> HIDE DEF Mishap
      <4> QED
        BY <2>11, MishapTypes DEF StatementFails, ThreadFails, DecisionFails, Restart
    <3>2. CASE StatementFails
      <4>1. seq' \in Nat
        BY <3>2 DEF StatementFails
      <4> QED
        BY <3>1, <3>2, <4>1 DEF StatementFails
    <3>3. CASE ThreadFails
      BY <3>1, <3>3 DEF ThreadFails
    <3>4. CASE DecisionFails
      BY <3>1, <3>4 DEF DecisionFails
    <3>5. CASE Restart
      BY <3>1, <3>5 DEF Restart
    <3> QED
      BY <2>11, <3>2, <3>3, <3>4, <3>5
  <2>12. CASE UNCHANGED vars
    BY <2>12 DEF vars
  <2> HIDE DEF TypeOK
  <2> QED
    BY <2>1, <2>2, <2>3, <2>4, <2>5, <2>7, <2>8, <2>9, <2>10, <2>11, <2>12
    DEF Next, Thread, Decide
<1> HIDE DEF TypeOK
<1> QED
  BY <1>1, <1>2, PTL DEF Spec

-----------------------------------------------------------------------------
(* Approvals and the trace. *)

\* Past the gate nothing is pending, and a loop that may find something pending
\* has saved its steps.
AskInv ==
  /\ OnePending
  /\ pc = "decide" => pending[at] = 0
  /\ pc \in {"begin", "plan", "wait"} => seq = used[at]
  /\ pc = "gate" => seq = used[at] \/ pending[at] = 0

\* The gate and the INSERT of an approval agree on what is pending.
LEMMA AskInvHolds == Spec => []AskInv
<1> USE ConstantsOK DEF AskInv, OnePending, TypeOK, Stops, Set, GoTo, Leave, AddStep, SaveSteps,
                       rowsOf, thread, history
<1>1. Init => AskInv
  BY DEF Init
<1>2. TypeOK /\ AskInv /\ [Next]_vars => AskInv'
  <2> SUFFICES ASSUME TypeOK, AskInv, [Next]_vars PROVE AskInv'
    OBVIOUS
  <2>1. ASSUME NEW r \in Runs, CreateRun(r) \/ CancelRun(r) \/ NextQueued(r) PROVE AskInv'
    BY <2>1 DEF CreateRun, CancelRun, NextQueued
  <2>2. ASSUME NEW r \in Runs, NEW verdict \in {"queued", "failed"}, DecideApproval(r, verdict)
        PROVE  AskInv'
    <3>1. pending[r] = 1 /\ pending' = [pending EXCEPT ![r] = 0]
      <4>1. pending[r] \in Nat /\ pending[r] <= 1 /\ pending[r] > 0
        BY <2>2 DEF DecideApproval
      <4>2. pending[r] = 1 /\ pending[r] - 1 = 0
        BY <4>1
      <4> QED
        BY <2>2, <4>2 DEF DecideApproval
    <3> QED
      BY <2>2, <3>1 DEF DecideApproval
  <2>3. CASE FinishDecision \/ DecisionFails
    BY <2>3 DEF FinishDecision, DecisionFails
  <2>4. CASE Load \/ Begin
    BY <2>4 DEF Load, Begin
  <2>5. CASE Plan \/ Think \/ UseTool \/ Answer \/ GiveUp
    BY <2>5 DEF Plan, Think, UseTool, Answer, GiveUp
  <2>6. CASE Save \/ Gate \/ Wait \/ Park \/ Finish \/ GatewayFails
    BY <2>6 DEF Save, Gate, Wait, Park, Finish, GatewayFails
  <2>7. CASE AskApproval
    BY <2>7 DEF AskApproval
  <2>8. CASE StatementFails \/ ThreadFails \/ Restart
    BY <2>8 DEF StatementFails, ThreadFails, Restart
  <2>9. CASE UNCHANGED vars
    BY <2>9 DEF vars
  <2> HIDE DEF AskInv
  <2> QED
    BY <2>1, <2>2, <2>3, <2>4, <2>5, <2>6, <2>7, <2>8, <2>9 DEF Next, Thread, Decide
<1> HIDE DEF AskInv
<1> QED
  BY <1>1, <1>2, AgentTypes, PTL DEF Spec

\* The number of the last step of a run: the thread's once it has read it.
LastStep(r) == IF at = r /\ pc # "load" THEN seq ELSE used[r]

Numbered(s, n) == Len(s) = n /\ \A k \in 1 .. n : s[k] = k
TraceInv == \A r \in Runs \ hurt : Numbered(steps[r], LastStep(r))

\* A trace that is numbered stays so when the next number is added.
LEMMA NumberedAppend ==
  ASSUME NEW s \in Seq(Nat), NEW n \in Nat, Numbered(s, n)
  PROVE  Numbered(Append(s, n + 1), n + 1)
BY DEF Numbered

\* The rows of a run are numbered up to the step the thread, or else the row, has.
LEMMA TraceInvHolds == Spec => []TraceInv
<1> USE ConstantsOK DEF TypeOK, Stops, Set, GoTo, Leave, SaveSteps, rowsOf, thread, history
<1>1. Init => TraceInv
  BY DEF Init, TraceInv, Numbered, LastStep
<1>2. TypeOK /\ AskInv /\ TraceInv /\ [Next]_vars => TraceInv'
  <2> SUFFICES ASSUME TypeOK, AskInv, TraceInv, [Next]_vars PROVE TraceInv'
    OBVIOUS
  <2>1. ASSUME UNCHANGED steps, hurt \subseteq hurt',
               \A r \in Runs \ hurt' : LastStep(r)' = LastStep(r)
        PROVE  TraceInv'
    BY <2>1 DEF TraceInv
  <2>2. ASSUME NEW r \in Runs, CreateRun(r) \/ CancelRun(r) \/ NextQueued(r) PROVE TraceInv'
    BY <2>1, <2>2 DEF CreateRun, CancelRun, NextQueued, LastStep
  <2>3. CASE Decide \/ FinishDecision \/ UNCHANGED vars
    BY <2>1, <2>3 DEF Decide, DecideApproval, FinishDecision, vars, LastStep
  <2>4. CASE Load \/ Begin \/ Gate \/ AskApproval \/ GatewayFails
    BY <2>1, <2>4 DEF Load, Begin, Gate, AskApproval, GatewayFails, LastStep
  <2>5. CASE Save \/ Park \/ Finish
    BY <2>1, <2>5 DEF Save, Park, Finish, LastStep
  <2>6. CASE Wait
    BY <2>1, <2>6 DEF Wait, LastStep, AskInv
  <2>7. ASSUME AddStep, UNCHANGED <<at, used, hurt>>, pc \notin {"idle", "load"}, pc' # "load"
        PROVE  TraceInv'
    <3>1. at \in Runs /\ LastStep(at) = seq /\ LastStep(at)' = seq + 1
      BY <2>7 DEF LastStep, AddStep
    <3>2. ASSUME NEW r \in Runs \ hurt PROVE Numbered(steps[r], LastStep(r))'
      <4>1. CASE r = at
        <5>1. Numbered(steps[r], seq)
          BY <3>1, <4>1 DEF TraceInv
        <5>2. Numbered(Append(steps[r], seq + 1), seq + 1)
          BY <5>1, NumberedAppend
        <5>3. steps'[r] = Append(steps[r], seq + 1)
          BY <2>7, <4>1 DEF AddStep
        <5>4. LastStep(r)' = seq + 1
          BY <2>7, <4>1 DEF LastStep, AddStep
        <5>5. Numbered(steps'[r], LastStep(r)')
          BY <5>2, <5>3, <5>4
        <5> QED
          BY <5>5 DEF Numbered
      <4>2. CASE r # at
        <5>1. steps'[r] = steps[r] /\ LastStep(r)' = LastStep(r)
          BY <2>7, <4>2 DEF AddStep, LastStep
        <5> QED
          BY <5>1 DEF TraceInv, Numbered
      <4> QED
        BY <4>1, <4>2
    <3> QED
      BY <2>7, <3>2 DEF TraceInv
  <2>8. CASE Plan \/ Think \/ UseTool \/ Answer \/ GiveUp
    BY <2>7, <2>8 DEF Plan, Think, UseTool, Answer, GiveUp
  <2>9. CASE StatementFails \/ ThreadFails \/ DecisionFails \/ Restart
    BY <2>1, <2>9 DEF StatementFails, ThreadFails, DecisionFails, Restart, Mishap, LastStep
  <2> QED
    BY <2>2, <2>3, <2>4, <2>5, <2>6, <2>8, <2>9 DEF Next, Thread
<1> QED
  BY <1>1, <1>2, AgentTypes, AskInvHolds, PTL DEF Spec

-----------------------------------------------------------------------------
(* The theorems. *)

\* However often a parked run is picked up and parked again, at most one of its
\* approvals is pending.
THEOREM AskedOnce == Spec => []OnePending
<1>1. AskInv => OnePending
  BY DEF AskInv
<1> QED
  BY <1>1, AskInvHolds, PTL

\* The steps of a run that met no mishap are numbered in order.
THEOREM TracesAreOrdered == Spec => []TraceInOrder
<1>1. TraceInv => TraceInOrder
  BY DEF TraceInv, Numbered, TraceInOrder
<1> QED
  BY <1>1, TraceInvHolds, PTL

\* No cancellation and no decision makes the runner lose a run it executes.
THEOREM NoneIsLost == Spec => []NoOrphans
<1> USE ConstantsOK DEF NoOrphans, Working, TypeOK, Stops, Verdicts, NoVerdict, Free, Set, GoTo,
                       Leave, rowsOf, thread, history
<1>1. Init => NoOrphans
  BY DEF Init
<1>2. TypeOK /\ NoOrphans /\ [Next]_vars => NoOrphans'
  <2> SUFFICES ASSUME TypeOK, NoOrphans, [Next]_vars PROVE NoOrphans'
    OBVIOUS
  <2>1. ASSUME NEW r \in Runs, CreateRun(r) \/ CancelRun(r) PROVE NoOrphans'
    BY <2>1 DEF CreateRun, CancelRun
  <2>2. ASSUME NEW r \in Runs, NextQueued(r) PROVE NoOrphans'
    BY <2>2 DEF NextQueued
  <2>3. CASE Decide \/ UNCHANGED vars
    BY <2>3 DEF Decide, DecideApproval, vars
  <2>4. CASE FinishDecision
    BY <2>4 DEF FinishDecision
  <2>5. CASE Load \/ Begin
    BY <2>5 DEF Load, Begin
  <2>6. CASE Plan \/ Think \/ UseTool \/ Answer \/ GiveUp
    BY <2>6 DEF Plan, Think, UseTool, Answer, GiveUp
  <2>7. CASE Save \/ Gate \/ GatewayFails \/ AskApproval
    BY <2>7 DEF Save, Gate, GatewayFails, AskApproval
  <2>8. CASE Wait \/ Park \/ Finish
    BY <2>8 DEF Wait, Park, Finish
  <2>9. CASE StatementFails \/ ThreadFails \/ DecisionFails \/ Restart
    BY <2>9 DEF StatementFails, ThreadFails, DecisionFails, Restart, Mishap
  <2> QED
    BY <2>1, <2>2, <2>3, <2>4, <2>5, <2>6, <2>7, <2>8, <2>9 DEF Next, Thread
<1> QED
  BY <1>1, <1>2, AgentTypes, PTL DEF Spec

\* A run that has ended, with the thread, the handler and the queue done with
\* it, never runs again.
THEOREM EndedRunsStay == Spec => EndedStays
<1> USE ConstantsOK DEF Settled, Working, Ended, Active, TypeOK, Stops, Verdicts, NoVerdict, Free,
                       Set, GoTo, Leave, rowsOf, thread, history
<1>1. TypeOK /\ [Next]_vars => [\A r \in Runs : Settled(r) => Settled(r)']_vars
  <2> SUFFICES ASSUME TypeOK, Next, NEW r \in Runs, Settled(r) PROVE Settled(r)'
    OBVIOUS
  <2>1. ASSUME NEW q \in Runs, CreateRun(q) \/ CancelRun(q) PROVE Settled(r)'
    BY <2>1 DEF CreateRun, CancelRun
  <2>2. ASSUME NEW q \in Runs, NextQueued(q) PROVE Settled(r)'
    BY <2>2 DEF NextQueued, First
  <2>3. ASSUME NEW q \in Runs, NEW verdict \in {"queued", "failed"}, DecideApproval(q, verdict)
        PROVE  Settled(r)'
    BY <2>3 DEF DecideApproval
  <2>4. CASE FinishDecision
    BY <2>4 DEF FinishDecision
  <2>5. CASE Load \/ Begin
    BY <2>5 DEF Load, Begin
  <2>6. CASE Plan \/ Think \/ UseTool \/ Answer \/ GiveUp
    BY <2>6 DEF Plan, Think, UseTool, Answer, GiveUp
  <2>7. CASE Save \/ Gate \/ GatewayFails \/ AskApproval
    BY <2>7 DEF Save, Gate, GatewayFails, AskApproval
  <2>8. CASE Wait \/ Park \/ Finish
    BY <2>8 DEF Wait, Park, Finish
  <2>9. CASE StatementFails \/ ThreadFails \/ DecisionFails \/ Restart
    BY <2>9 DEF StatementFails, ThreadFails, DecisionFails, Restart
  <2> QED
    BY <2>1, <2>2, <2>3, <2>4, <2>5, <2>6, <2>7, <2>8, <2>9 DEF Next, Thread, Decide
<1> QED
  BY <1>1, AgentTypes, PTL DEF Spec, EndedStays


-----------------------------------------------------------------------------
(* Uploads: the space of a user. *)

LEMMA UploadSets ==
  ASSUME NEW S \in SUBSET Uploads
  PROVE  IsFiniteSet(S) /\ Cardinality(S) \in Nat
BY UploadsConstantsOK, FS_Subset, FS_CardinalityType

LEMMA OneMore ==
  ASSUME NEW S \in SUBSET Uploads, NEW u \in Uploads \ S
  PROVE  Cardinality(S \cup {u}) = Cardinality(S) + 1
BY UploadSets, FS_AddElement

LEMMA OneLess ==
  ASSUME NEW S \in SUBSET Uploads, NEW u \in S
  PROVE  Cardinality(S \ {u}) = Cardinality(S) - 1 /\ Cardinality(S) > 0
<1>1. Cardinality(S \ {u}) = Cardinality(S) - 1
  BY UploadSets, FS_RemoveElement
<1>2. Cardinality(S \ {u}) \in Nat /\ Cardinality(S) \in Nat
  BY UploadSets
<1> QED
  BY <1>1, <1>2

\* What the account of the space rests on: a handler stores its object after it has
\* been charged for it, and leaves it where it is.
SpaceInv ==
  /\ handler \in [Uploads -> Handlers] /\ object \subseteq Uploads
  /\ usedBytes \in Nat /\ quota \in Nat
  /\ \A u \in Uploads : handler[u] \in {"new", "charge", "store", "giveback"} => u \notin object
  /\ SpaceAccounted

\* The space is accounted for by three numbers only: o objects, c uploads charged on
\* their way, b stranded.
Balanced(o, c, b, n, q) == n <= q /\ o + c <= n /\ n <= o + c + b

LEMMA BalanceIsSpace ==
  SpaceAccounted <=> Balanced(Cardinality(object), Cardinality(Charged), Cardinality(Stranded),
                              usedBytes, quota)
BY DEF SpaceAccounted, Balanced

\* One handler goes on: who is charged, and who is stranded, changes by it alone.
LEMMA HandlerGoes ==
  ASSUME SpaceInv, NEW u \in Uploads, NEW stop \in Handlers, Goes(u, stop),
         object' = object \/ (object' = object \cup {u} /\ handler[u] = "store")
  PROVE  /\ handler' \in [Uploads -> Handlers] /\ handler'[u] = stop
         /\ \A v \in Uploads \ {u} : handler'[v] = handler[v]
         /\ Charged' = IF stop \in {"store", "giveback"} THEN Charged \cup {u} ELSE Charged \ {u}
         /\ Stranded' = IF stop = "broken" /\ u \notin object' THEN Stranded \cup {u}
                        ELSE Stranded \ {u}
<1>1. handler' \in [Uploads -> Handlers] /\ handler'[u] = stop
      /\ \A v \in Uploads \ {u} : handler'[v] = handler[v]
  BY DEF Goes, SpaceInv
<1>2. Charged' = IF stop \in {"store", "giveback"} THEN Charged \cup {u} ELSE Charged \ {u}
  BY <1>1 DEF Charged
<1>3. Stranded' = IF stop = "broken" /\ u \notin object' THEN Stranded \cup {u}
                  ELSE Stranded \ {u}
  BY <1>1 DEF Stranded
<1> QED
  BY <1>1, <1>2, <1>3

LEMMA SpaceInvHolds == UploadsSpec => []SpaceInv
<1>1. UploadsInit => SpaceInv
  <2> SUFFICES ASSUME UploadsInit PROVE SpaceInv
    OBVIOUS
  <2>1. Charged = {} /\ Stranded = {} /\ object = {} /\ usedBytes = 0
    BY DEF UploadsInit, Charged, Stranded
  <2>2. quota \in Nat
    BY UploadsConstantsOK DEF UploadsInit
  <2>3. SpaceAccounted
    BY <2>1, <2>2, FS_EmptySet DEF SpaceAccounted
  <2>4. handler \in [Uploads -> Handlers]
    BY DEF UploadsInit, Handlers, HandlerEnded
  <2> QED
    BY <2>1, <2>2, <2>3, <2>4 DEF SpaceInv
<1>2. SpaceInv /\ [UploadsNext]_uploadsVars => SpaceInv'
  <2> SUFFICES ASSUME SpaceInv, [UploadsNext]_uploadsVars PROVE SpaceInv'
    OBVIOUS
  <2> DEFINE o == Cardinality(object)
             c == Cardinality(Charged)
             b == Cardinality(Stranded)
             d == Cardinality(Charged')
             e == Cardinality(Stranded')
             p == Cardinality(object')
  <2>1. Charged \in SUBSET Uploads /\ Stranded \in SUBSET Uploads /\ object \in SUBSET Uploads
    BY DEF Charged, Stranded, SpaceInv
  <2>2. o \in Nat /\ c \in Nat /\ b \in Nat /\ usedBytes \in Nat /\ quota \in Nat
    BY <2>1, UploadSets DEF SpaceInv
  <2>3. Balanced(o, c, b, usedBytes, quota)
    BY BalanceIsSpace DEF SpaceInv
  <2>4. Balanced(p, d, e, usedBytes', quota') => SpaceAccounted'
    BY DEF SpaceAccounted, Balanced
  <2> HIDE DEF o, c, b, d, e, p
  \* A handler that neither takes nor gives space.
  <2>5. ASSUME NEW u \in Uploads, NEW stop \in Handlers, Goes(u, stop),
               UNCHANGED <<space, object>>, (handler[u] \in {"store", "giveback"}) = (stop \in {"store", "giveback"}),
               stop # "broken", handler[u] # "broken",
               stop \in {"new", "charge", "store", "giveback"} =>
                 handler[u] \in {"new", "charge", "store", "giveback"}
        PROVE  SpaceInv'
    <3>1. Charged' = Charged /\ Stranded' = Stranded
      BY <2>5, HandlerGoes DEF Charged, Stranded
    <3>2. SpaceAccounted'
      BY <2>5, <3>1 DEF SpaceAccounted, SpaceInv, space
    <3> QED
      BY <2>5, <3>2, HandlerGoes DEF SpaceInv, space
  <2>6. ASSUME NEW u \in Uploads, Arrive(u) PROVE SpaceInv'
    BY <2>5, <2>6 DEF Arrive, Handlers, HandlerEnded
  <2>7. ASSUME NEW u \in Uploads, Charge(u) PROVE SpaceInv'
    <3>1. CASE usedBytes < quota
      <4>1. handler[u] = "charge" /\ usedBytes' = usedBytes + 1 /\ Goes(u, "store")
            /\ UNCHANGED <<quota, object>>
        BY <2>7, <3>1 DEF Charge
      <4>2. Charged' = Charged \cup {u} /\ Stranded' = Stranded /\ u \notin Charged
        BY <4>1, HandlerGoes DEF Charged, Stranded, Handlers
      <4>3. d = c + 1 /\ e = b /\ p = o
        BY <2>1, <4>1, <4>2, OneMore DEF d, c, e, b, p, o
      <4>4. Balanced(p, d, e, usedBytes', quota')
        BY <2>2, <2>3, <3>1, <4>1, <4>3 DEF Balanced
      <4> QED
        BY <2>2, <2>4, <4>1, <4>4, HandlerGoes DEF SpaceInv, Handlers
    <3>2. CASE ~(usedBytes < quota)
      BY <2>5, <2>7, <3>2 DEF Charge, Handlers, HandlerEnded, space
    <3> QED
      BY <3>1, <3>2
  <2>8. ASSUME NEW u \in Uploads, StoreObject(u) PROVE SpaceInv'
    <3>1. CASE object' = object \cup {u} /\ Goes(u, "job")
      <4>1. handler[u] = "store" /\ UNCHANGED <<quota, usedBytes>> /\ u \notin object
        BY <2>8 DEF StoreObject, space, SpaceInv
      <4>2. Charged' = Charged \ {u} /\ Stranded' = Stranded /\ u \in Charged
        BY <3>1, <4>1, HandlerGoes DEF Charged, Stranded, Handlers
      <4>3. d = c - 1 /\ e = b /\ p = o + 1
        BY <2>1, <3>1, <4>1, <4>2, OneMore, OneLess DEF d, c, e, b, p, o
      <4>4. Balanced(p, d, e, usedBytes', quota')
        BY <2>2, <2>3, <4>1, <4>3 DEF Balanced
      <4> QED
        BY <2>2, <2>4, <3>1, <4>1, <4>4, HandlerGoes DEF SpaceInv, Handlers
    <3>2. CASE UNCHANGED object /\ Goes(u, "giveback")
      BY <2>5, <2>8, <3>2 DEF StoreObject, Handlers
    <3> QED
      BY <2>8, <3>1, <3>2 DEF StoreObject
  <2>9. ASSUME NEW u \in Uploads, GiveBack(u) PROVE SpaceInv'
    <3>1. handler[u] = "giveback" /\ Goes(u, "refused") /\ UNCHANGED <<quota, object>>
      BY <2>9 DEF GiveBack
    <3>2. Charged' = Charged \ {u} /\ Stranded' = Stranded /\ u \in Charged
      BY <3>1, HandlerGoes DEF Charged, Stranded, Handlers, HandlerEnded
    <3>3. d = c - 1 /\ c > 0 /\ e = b /\ p = o
      BY <2>1, <3>1, <3>2, OneLess DEF d, c, e, b, p, o
    <3>4. usedBytes' = usedBytes - 1 /\ usedBytes > 0
      BY <2>2, <2>3, <2>9, <3>3 DEF GiveBack, Balanced
    <3>5. Balanced(p, d, e, usedBytes', quota')
      BY <2>2, <2>3, <3>1, <3>3, <3>4 DEF Balanced
    <3> QED
      BY <2>2, <2>4, <3>1, <3>4, <3>5, HandlerGoes DEF SpaceInv, Handlers, HandlerEnded
  <2>10. ASSUME NEW u \in Uploads, InsertJob(u) \/ InsertFile(u) \/ SetBackend(u) \/ Publish(u)
         PROVE  SpaceInv'
    BY <2>5, <2>10 DEF InsertJob, InsertFile, SetBackend, Publish, Handlers, HandlerEnded
  <2>11. ASSUME NEW u \in Uploads, BreakOff(u) PROVE SpaceInv'
    <3>1. handler[u] \notin HandlerEnded /\ Goes(u, "broken") /\ UNCHANGED <<space, object>>
      BY <2>11 DEF BreakOff
    <3>2. Charged' = Charged \ {u} /\ u \notin Stranded
          /\ Stranded' = IF u \in object THEN Stranded ELSE Stranded \cup {u}
      BY <3>1, HandlerGoes DEF Stranded, Handlers, HandlerEnded
    <3>3. u \in Charged => u \notin object
      BY DEF Charged, SpaceInv
    <3>4. p = o /\ d = (IF u \in Charged THEN c - 1 ELSE c)
          /\ e = (IF u \in object THEN b ELSE b + 1)
      <4>1. CASE u \in Charged
        BY <2>1, <3>1, <3>2, <3>3, <4>1, OneMore, OneLess DEF d, c, e, b, p, o
      <4>2. CASE u \notin Charged
        <5>1. Charged' = Charged
          BY <3>2, <4>2
        <5> QED
          BY <2>1, <3>1, <3>2, <4>2, <5>1, OneMore DEF d, c, e, b, p, o
      <4> QED
        BY <4>1, <4>2
    <3>5. Balanced(p, d, e, usedBytes', quota')
      BY <2>2, <2>3, <3>1, <3>3, <3>4 DEF Balanced, space
    <3> QED
      BY <2>4, <3>1, <3>5, HandlerGoes DEF SpaceInv, Handlers, HandlerEnded, space
  <2>12. ASSUME UNCHANGED <<space, handler, object>> PROVE SpaceInv'
    BY <2>12 DEF SpaceInv, SpaceAccounted, Charged, Stranded, space
  <2>13. CASE Worker \/ ExtractFails \/ LoopStatementFails \/ Crash \/ RestartWorker
    BY <2>12, <2>13 DEF Worker, TakeEvent, Poll, NextJob, Start, Extract, FinishJob,
       ExtractFails, LoopStatementFails, Crash, RestartWorker
  <2>14. CASE UNCHANGED uploadsVars
    BY <2>12, <2>14 DEF uploadsVars
  <2> QED
    BY <2>6, <2>7, <2>8, <2>9, <2>10, <2>11, <2>13, <2>14 DEF UploadsNext, Proceed
<1> QED
  BY <1>1, <1>2, PTL DEF UploadsSpec

\* The space charged to a user is that of the objects stored and of the uploads on their
\* way, for any number of uploads that run at once, any quota and any failures.
THEOREM SpaceIsAccounted == UploadsSpec => []SpaceAccounted
<1>1. SpaceInv => SpaceAccounted
  BY DEF SpaceInv
<1> QED
  BY <1>1, SpaceInvHolds, PTL

-----------------------------------------------------------------------------
(* Uploads: types, and what the worker reads. *)

Statuses == {"none", "queued", "read", "missed"}
Places   == {"none", "s3", "local"}
FileRec  == [status : Statuses, backend : Places]
LoopRec  == [stop : {"listen", "start", "extract", "finish", "poll", "next", "down", "dead"},
             job : Uploads \cup {NoUpload}, sees : Places, todo : SUBSET Uploads, polled : BOOLEAN]
LoopOK(l) == l \in LoopRec /\ (l.stop \in {"start", "extract", "finish"} => l.job \in Uploads)

\* A file is marked, or is told its place: the others keep theirs.
LEMMA FileMarked ==
  ASSUME NEW f \in [Uploads -> FileRec], NEW u \in Uploads, NEW s \in Statuses
  PROVE  /\ [f EXCEPT ![u].status = s] \in [Uploads -> FileRec]
         /\ [f EXCEPT ![u].status = s][u] = [status |-> s, backend |-> f[u].backend]
         /\ \A v \in Uploads \ {u} : [f EXCEPT ![u].status = s][v] = f[v]
BY DEF FileRec

LEMMA FilePlaced ==
  ASSUME NEW f \in [Uploads -> FileRec], NEW u \in Uploads, NEW b \in Places
  PROVE  /\ [f EXCEPT ![u].backend = b] \in [Uploads -> FileRec]
         /\ [f EXCEPT ![u].backend = b][u] = [status |-> f[u].status, backend |-> b]
         /\ \A v \in Uploads \ {u} : [f EXCEPT ![u].backend = b][v] = f[v]
BY DEF FileRec

\* The loop goes on, with the job it has or another one, or starts afresh.
LEMMA LoopFresh ==
  ASSUME NEW stop \in {"listen", "poll", "next", "down", "dead"}
  PROVE  LoopOK([Listening EXCEPT !.stop = stop]) /\ LoopOK(Listening)
BY DEF LoopOK, LoopRec, Listening, Places

LEMMA LoopStops ==
  ASSUME NEW l, LoopOK(l), NEW stop \in {"poll", "next", "finish"}, stop = "finish" => l.job \in Uploads
  PROVE  LoopOK([l EXCEPT !.stop = stop])
BY DEF LoopOK, LoopRec

LEMMA LoopTakes ==
  ASSUME NEW l, LoopOK(l), NEW u \in Uploads, NEW T \in SUBSET Uploads
  PROVE  /\ LoopOK([l EXCEPT !.stop = "start", !.job = u])
         /\ LoopOK([l EXCEPT !.stop = "start", !.job = u, !.todo = T])
BY DEF LoopOK, LoopRec

LEMMA LoopExtracts ==
  ASSUME NEW l, LoopOK(l), l.job \in Uploads, NEW b \in Places
  PROVE  LoopOK([l EXCEPT !.stop = "extract", !.sees = b])
BY DEF LoopOK, LoopRec

LEMMA LoopPolls ==
  ASSUME NEW T \in SUBSET Uploads
  PROVE  LoopOK([Listening EXCEPT !.stop = "next", !.todo = T, !.polled = TRUE])
BY DEF LoopOK, LoopRec, Listening, Places

\* The types of the uploads, with those of the files and of the loop by name.
Typed ==
  /\ backend \in {"s3", "local"} /\ quota \in 1 .. MaxQuota /\ usedBytes \in Nat
  /\ handler \in [Uploads -> Handlers] /\ object \subseteq Uploads
  /\ job \in [Uploads -> {"none", "queued", "processing", "ended"}]
  /\ file \in [Uploads -> FileRec]
  /\ events \in Seq(Uploads) /\ trouble \in 0 .. MaxTrouble
  /\ LoopOK(loop)

LEMMA TypedIsTypeOK == Typed <=> UploadsTypeOK
BY DEF Typed, UploadsTypeOK, LoopOK, LoopRec, FileRec, Statuses, Places

\* One more that broke off is still within the bound.
LEMMA OneMoreTrouble ==
  ASSUME NEW t \in 0 .. MaxTrouble, t < MaxTrouble
  PROVE  t + 1 \in 0 .. MaxTrouble
BY UploadsConstantsOK

LEMMA TypedHolds == UploadsSpec => []Typed
<1>1. UploadsInit => Typed
  <2> SUFFICES ASSUME UploadsInit PROVE Typed
    OBVIOUS
  <2>1. file \in [Uploads -> FileRec] /\ LoopOK(loop)
    BY DEF UploadsInit, NoFile, FileRec, Statuses, Places, Listening, LoopOK, LoopRec
  <2> QED
    BY <2>1, UploadsConstantsOK DEF UploadsInit, Typed, Handlers, HandlerEnded
<1>2. Typed /\ [UploadsNext]_uploadsVars => Typed'
  <2> SUFFICES ASSUME Typed, [UploadsNext]_uploadsVars PROVE Typed'
    OBVIOUS
  <2>1. ASSUME NEW u \in Uploads, Arrive(u) \/ Proceed(u) \/ BreakOff(u) PROVE Typed'
    <3> USE <2>1 DEF Arrive, Proceed, BreakOff, Charge, StoreObject, GiveBack, InsertJob,
            InsertFile, SetBackend, Publish, space
    <3>1. handler' \in [Uploads -> Handlers] /\ object' \subseteq Uploads
      BY DEF Typed, Goes, Handlers, HandlerEnded
    <3>2. UNCHANGED <<backend, quota, loop>> /\ usedBytes' \in Nat
      BY DEF Typed
    <3>3. trouble' \in 0 .. MaxTrouble
      BY OneMoreTrouble DEF Typed
    <3>4. job' \in [Uploads -> {"none", "queued", "processing", "ended"}]
      BY DEF Typed
    <3>5. file' \in [Uploads -> FileRec]
      <4>1. CASE InsertFile(u)
        BY <4>1 DEF Typed, FileRec, Statuses, Places
      <4>2. CASE SetBackend(u)
        <5>1. backend \in Places /\ file \in [Uploads -> FileRec]
          BY DEF Typed, Places
        <5>2. file' = [file EXCEPT ![u].backend = backend]
          BY <4>2
        <5> QED
          BY <5>1, <5>2, FilePlaced
      <4>3. CASE UNCHANGED file
        BY <4>3 DEF Typed
      <4> QED
        BY <4>1, <4>2, <4>3
    <3>6. events' \in Seq(Uploads)
      <4>1. events' = events \/ events' = Append(events, u)
        OBVIOUS
      <4> QED
        BY <4>1, AppendProperties DEF Typed
    <3> QED
      BY <3>1, <3>2, <3>3, <3>4, <3>5, <3>6 DEF Typed
  \* The worker leaves the space, the handlers and the objects alone.
  <2>2. ASSUME UNCHANGED <<space, handler, object>>, LoopOK(loop'), file' \in [Uploads -> FileRec],
               job' \in [Uploads -> {"none", "queued", "processing", "ended"}],
               events' \in Seq(Uploads), trouble' \in 0 .. MaxTrouble
        PROVE  Typed'
    BY <2>2 DEF Typed, space
  <2>3. CASE TakeEvent
    <3>1. CASE events = <<>>
      <4>1. LoopOK(loop')
        BY <2>3, <3>1, LoopStops DEF TakeEvent, Typed
      <4> QED
        BY <2>2, <2>3, <3>1, <4>1 DEF TakeEvent, Typed
    <3>2. CASE events # <<>>
      <4>1. Head(events) \in Uploads /\ Tail(events) \in Seq(Uploads)
        BY <3>2, HeadTailProperties DEF Typed
      <4>2. loop' = [loop EXCEPT !.stop = "start", !.job = Head(events)] /\ events' = Tail(events)
        BY <2>3, <3>2 DEF TakeEvent
      <4>3. LoopOK(loop')
        BY <4>1, <4>2, LoopTakes DEF Typed
      <4> QED
        BY <2>2, <2>3, <4>1, <4>2, <4>3 DEF TakeEvent, Typed
    <3> QED
      BY <3>1, <3>2
  <2>4. CASE Poll
    <3>1. PICK some \in SUBSET Queued :
            loop' = [Listening EXCEPT !.stop = "next", !.todo = some, !.polled = TRUE]
      BY <2>4 DEF Poll
    <3>2. LoopOK(loop')
      BY <3>1, LoopPolls DEF Queued
    <3> QED
      BY <2>2, <2>4, <3>2 DEF Poll, Typed
  <2>5. CASE NextJob
    <3>1. LoopOK(loop')
      <4>1. CASE loop.todo = {}
        <5>1. loop' = Listening
          BY <2>5, <4>1 DEF NextJob
        <5> QED
          BY <5>1, LoopFresh
      <4>2. CASE loop.todo # {}
        <5>1. PICK u \in loop.todo :
                loop' = [loop EXCEPT !.stop = "start", !.job = u, !.todo = loop.todo \ {u}]
          BY <2>5, <4>2 DEF NextJob
        <5>2. loop.todo \in SUBSET Uploads
          BY DEF Typed, LoopOK, LoopRec
        <5> QED
          BY <5>1, <5>2, LoopTakes DEF Typed
      <4> QED
        BY <4>1, <4>2
    <3> QED
      BY <2>2, <2>5, <3>1 DEF NextJob, Typed
  <2>6. CASE Start
    <3>1. loop.job \in Uploads
      BY <2>6 DEF Start, LoopAt, Typed, LoopOK
    <3>2. file[loop.job].backend \in Places
      BY <3>1 DEF Typed, FileRec
    <3>3. LoopOK(loop')
      BY <2>6, <3>1, <3>2, LoopExtracts DEF Start, Typed
    <3>4. job' \in [Uploads -> {"none", "queued", "processing", "ended"}]
      BY <2>6, <3>1 DEF Start, Typed
    <3> QED
      BY <2>2, <2>6, <3>3, <3>4 DEF Start, Typed
  <2>7. CASE Extract \/ ExtractFails
    <3>1. loop.job \in Uploads
      BY <2>7 DEF Extract, ExtractFails, LoopAt, Typed, LoopOK
    <3>2. PICK s \in Statuses : file' \in {file, [file EXCEPT ![loop.job].status = s]}
      BY <2>7 DEF Extract, ExtractFails, Statuses
    <3>3. file' \in [Uploads -> FileRec]
      <4>1. file \in [Uploads -> FileRec]
        BY DEF Typed
      <4>2. [file EXCEPT ![loop.job].status = s] \in [Uploads -> FileRec]
        BY <3>1, <4>1, FileMarked
      <4> QED
        BY <3>2, <4>1, <4>2
    <3>4. LoopOK(loop')
      <4>1. loop' = [loop EXCEPT !.stop = "finish"] /\ LoopOK(loop)
        BY <2>7 DEF Extract, ExtractFails, Typed
      <4>2. LoopOK([loop EXCEPT !.stop = "finish"])
        BY <3>1, <4>1, LoopStops
      <4> QED
        BY <4>1, <4>2
    <3>5. trouble' \in 0 .. MaxTrouble
      BY <2>7, OneMoreTrouble DEF Extract, ExtractFails, Typed
    <3> QED
      BY <2>2, <2>7, <3>3, <3>4, <3>5 DEF Extract, ExtractFails, Typed
  <2>8. CASE FinishJob
    <3>1. loop.job \in Uploads
      BY <2>8 DEF FinishJob, LoopAt, Typed, LoopOK
    <3>2. LoopOK(loop')
      BY <2>8, <3>1, LoopStops DEF FinishJob, Typed
    <3>3. job' \in [Uploads -> {"none", "queued", "processing", "ended"}]
      BY <2>8, <3>1 DEF FinishJob, Typed
    <3> QED
      BY <2>2, <2>8, <3>2, <3>3 DEF FinishJob, Typed
  <2>9. CASE LoopStatementFails \/ Crash \/ RestartWorker
    <3>1. LoopOK(loop')
      <4>1. loop' \in {Listening, [Listening EXCEPT !.stop = "dead"],
                       [Listening EXCEPT !.stop = "down"], [loop EXCEPT !.stop = "poll"]}
        BY <2>9 DEF LoopStatementFails, Crash, RestartWorker
      <4>2. LoopOK([loop EXCEPT !.stop = "poll"])
        BY LoopStops DEF Typed
      <4>3. /\ LoopOK(Listening) /\ LoopOK([Listening EXCEPT !.stop = "dead"])
            /\ LoopOK([Listening EXCEPT !.stop = "down"])
        BY LoopFresh
      <4> QED
        BY <4>1, <4>2, <4>3
    <3>2. events' \in Seq(Uploads)
      <4>1. events' = events \/ events' = <<>>
        BY <2>9 DEF LoopStatementFails, Crash, RestartWorker
      <4> QED
        BY <4>1, EmptySeq DEF Typed
    <3>3. trouble' \in 0 .. MaxTrouble
      BY <2>9, OneMoreTrouble DEF LoopStatementFails, Crash, RestartWorker, Typed
    <3> QED
      BY <2>2, <2>9, <3>1, <3>2, <3>3 DEF LoopStatementFails, Crash, RestartWorker, Typed
  <2>10. CASE UNCHANGED uploadsVars
    BY <2>10 DEF uploadsVars, Typed, space
  <2> QED
    BY <2>1, <2>3, <2>4, <2>5, <2>6, <2>7, <2>8, <2>9, <2>10 DEF UploadsNext, Worker
<1> QED
  BY <1>1, <1>2, PTL DEF UploadsSpec

\* Uploads keep their types: what the loop works on is an upload, whatever has failed.
THEOREM UploadsTypes == UploadsSpec => []UploadsTypeOK
<1>1. Typed => UploadsTypeOK
  BY TypedIsTypeOK
<1> QED
  BY <1>1, TypedHolds, PTL

\* What a file tells of its upload: it is written after its object is stored, and what
\* has been read was looked for where the object is.
FileOf(u) ==
  /\ handler[u] \in {"job", "file", "backend", "publish", "accepted"} => u \in object
  /\ handler[u] \in {"new", "charge", "store", "giveback", "refused", "job", "file"} =>
       file[u].status = "none"
  /\ handler[u] \in {"backend", "publish", "accepted"} => file[u].status # "none"
  /\ file[u].status # "none" => u \in object
  /\ file[u].status = "none" <=> file[u].backend = "none"
  /\ file[u].status = "read" => file[u].backend = backend

\* What the loop takes for the place of a file is the place it was told, or the table's
\* default that was replaced since.
SeesWell ==
  LoopAt("extract") /\ loop.sees # "none" =>
    /\ file[loop.job].status # "none" /\ file[loop.job].backend \in {loop.sees, backend}
    /\ file[loop.job].status = "read" => loop.sees = backend

FilesFit == SeesWell /\ \A u \in Uploads : FileOf(u)
FileInv  == Typed /\ FilesFit

LEMMA FileInvHolds == UploadsSpec => []FileInv
<1>1. UploadsInit => FilesFit
  BY DEF UploadsInit, FilesFit, SeesWell, FileOf, LoopAt, Listening, NoFile
<1>2. FileInv /\ [UploadsNext]_uploadsVars => FilesFit'
  <2> SUFFICES ASSUME FileInv, [UploadsNext]_uploadsVars
               PROVE  SeesWell' /\ \A u \in Uploads : FileOf(u)'
    BY DEF FilesFit
  <2>1. /\ Typed /\ SeesWell /\ \A u \in Uploads : FileOf(u)
        /\ file \in [Uploads -> FileRec] /\ handler \in [Uploads -> Handlers]
        /\ backend \in Places \ {"none"}
    BY DEF FileInv, FilesFit, Typed, Places
  \* A step of a handler: its own file is the only one that changes.
  <2>2. ASSUME NEW u \in Uploads, Arrive(u) \/ Proceed(u) \/ BreakOff(u)
        PROVE  SeesWell' /\ \A v \in Uploads : FileOf(v)'
    <3>1. PICK stop \in Handlers : Goes(u, stop)
      BY <2>2 DEF Arrive, Proceed, Charge, StoreObject, GiveBack, InsertJob, InsertFile,
         SetBackend, Publish, BreakOff, Handlers, HandlerEnded
    <3>2. handler'[u] = stop /\ \A v \in Uploads \ {u} : handler'[v] = handler[v]
      BY <2>1, <3>1 DEF Goes
    <3>3. UNCHANGED <<backend, loop>>
      BY <2>2 DEF Arrive, Proceed, Charge, StoreObject, GiveBack, InsertJob, InsertFile,
         SetBackend, Publish, BreakOff, space
    <3>4. object' \in {object, object \cup {u}}
      BY <2>2 DEF Arrive, Proceed, Charge, StoreObject, GiveBack, InsertJob, InsertFile,
         SetBackend, Publish, BreakOff
    <3>5. CASE InsertFile(u)
      <4>1. handler[u] = "file" /\ handler'[u] = "backend" /\ UNCHANGED object
            /\ file' = [file EXCEPT ![u] = [status |-> "queued", backend |-> "local"]]
        BY <2>1, <3>5 DEF InsertFile, Goes
      <4>2. file'[u] = [status |-> "queued", backend |-> "local"]
            /\ \A v \in Uploads \ {u} : file'[v] = file[v]
        BY <2>1, <4>1
      <4>3. file[u].status = "none" /\ u \in object
        BY <2>1, <4>1 DEF FileOf
      <4>4. SeesWell'
        BY <2>1, <3>3, <4>2, <4>3 DEF SeesWell, LoopAt, Typed, LoopOK
      <4> QED
        BY <2>1, <3>2, <3>3, <4>1, <4>2, <4>3, <4>4 DEF FileOf
    <3>6. CASE SetBackend(u)
      <4>1. handler[u] = "backend" /\ handler'[u] = "publish" /\ UNCHANGED object
            /\ file' = [file EXCEPT ![u].backend = backend]
        BY <2>1, <3>6 DEF SetBackend, Goes
      <4>2. file'[u] = [status |-> file[u].status, backend |-> backend]
            /\ \A v \in Uploads \ {u} : file'[v] = file[v]
        BY <2>1, <4>1, FilePlaced
      <4>3. file[u].status # "none" /\ u \in object
        BY <2>1, <4>1 DEF FileOf
      <4>4. SeesWell'
        BY <2>1, <3>3, <4>2, <4>3 DEF SeesWell, LoopAt, Typed, LoopOK
      <4> QED
        BY <2>1, <3>2, <3>3, <4>1, <4>2, <4>3, <4>4 DEF FileOf
    <3>7. CASE ~InsertFile(u) /\ ~SetBackend(u)
      <4>1. UNCHANGED file
        BY <2>2, <3>7 DEF Arrive, Proceed, Charge, StoreObject, GiveBack, InsertJob, Publish,
           BreakOff
      <4>2. SeesWell'
        BY <2>1, <3>3, <4>1 DEF SeesWell, LoopAt
      <4>3. ASSUME NEW v \in Uploads \ {u} PROVE FileOf(v)'
        BY <2>1, <3>2, <3>3, <3>4, <4>1, <4>3 DEF FileOf
      <4>4. FileOf(u)'
        BY <2>1, <2>2, <3>2, <3>3, <3>7, <4>1 DEF FileOf, Arrive, Proceed, Charge, StoreObject,
           GiveBack, InsertJob, Publish, BreakOff, Goes, HandlerEnded
      <4> QED
        BY <4>2, <4>3, <4>4
    <3> QED
      BY <3>5, <3>6, <3>7
  \* A step of the loop: the handlers, the objects and the places stay.
  <2>3. CASE TakeEvent \/ Poll \/ NextJob \/ FinishJob \/ LoopStatementFails \/ Crash \/ RestartWorker
    <3>1. UNCHANGED <<space, handler, object, file>>
      BY <2>3 DEF TakeEvent, Poll, NextJob, FinishJob, LoopStatementFails, Crash, RestartWorker
    <3>2. loop'.stop # "extract"
      <4>1. loop \in LoopRec
        BY <2>1 DEF Typed, LoopOK
      <4>2. CASE TakeEvent \/ FinishJob \/ LoopStatementFails
        BY <4>1, <4>2 DEF TakeEvent, FinishJob, LoopStatementFails, Listening, LoopRec
      <4>3. CASE Poll
        BY <4>3 DEF Poll, Listening
      <4>4. CASE NextJob
        <5>1. CASE loop.todo = {}
          BY <4>4, <5>1 DEF NextJob, Listening
        <5>2. CASE loop.todo # {}
          <6>1. PICK u \in loop.todo :
                  loop' = [loop EXCEPT !.stop = "start", !.job = u, !.todo = loop.todo \ {u}]
            BY <4>4, <5>2 DEF NextJob
          <6> QED
            BY <4>1, <6>1 DEF LoopRec
        <5> QED
          BY <5>1, <5>2
      <4>5. CASE Crash \/ RestartWorker
        BY <4>5 DEF Crash, RestartWorker, Listening
      <4> QED
        BY <2>3, <4>2, <4>3, <4>4, <4>5
    <3> QED
      BY <2>1, <3>1, <3>2 DEF FileOf, SeesWell, LoopAt, space
  <2>4. CASE Start
    <3>1. /\ UNCHANGED <<space, handler, object, file>> /\ loop.job \in Uploads
          /\ loop'.sees = file[loop.job].backend /\ loop'.job = loop.job
      BY <2>1, <2>4 DEF Start, LoopAt, Typed, LoopOK, LoopRec
    <3> QED
      BY <2>1, <3>1 DEF FileOf, SeesWell, LoopAt, space
  <2>5. CASE Extract \/ ExtractFails
    <3>1. UNCHANGED <<backend, handler, object>> /\ loop.job \in Uploads /\ loop.stop = "extract"
      BY <2>1, <2>5 DEF Extract, ExtractFails, LoopAt, Typed, LoopOK, space
    <3>2. SeesWell'
      BY <2>1, <2>5 DEF Extract, ExtractFails, SeesWell, LoopAt, Typed, LoopOK, LoopRec
    <3>3. CASE file' = file
      BY <2>1, <3>1, <3>2, <3>3 DEF FileOf
    <3>4. CASE file' # file
      <4>1. PICK s \in Statuses \ {"none", "queued"} :
              file' = [file EXCEPT ![loop.job].status = s] /\ (s = "read" => loop.sees = backend)
        BY <2>5, <3>4 DEF Extract, ExtractFails, Statuses
      <4>2. loop.sees # "none"
        BY <2>5, <3>4 DEF Extract, ExtractFails
      <4>3. file[loop.job].status # "none" /\ file[loop.job].backend \in {loop.sees, backend}
        BY <2>1, <3>1, <4>2 DEF SeesWell, LoopAt
      <4>4. file'[loop.job] = [status |-> s, backend |-> file[loop.job].backend]
            /\ \A v \in Uploads \ {loop.job} : file'[v] = file[v]
        BY <2>1, <3>1, <4>1, FileMarked
      <4>5. FileOf(loop.job) /\ \A v \in Uploads \ {loop.job} : FileOf(v)'
        BY <2>1, <3>1, <4>4 DEF FileOf
      <4>6. ASSUME NEW v \in Uploads, v = loop.job PROVE FileOf(v)'
        BY <3>1, <4>1, <4>3, <4>4, <4>5, <4>6 DEF FileOf
      <4> QED
        BY <3>2, <4>5, <4>6
    <3> QED
      BY <3>3, <3>4
  <2>6. CASE UNCHANGED uploadsVars
    BY <2>1, <2>6 DEF uploadsVars, space, FileOf, SeesWell, LoopAt
  <2> QED
    BY <2>2, <2>3, <2>4, <2>5, <2>6 DEF UploadsNext, Worker
<1> QED
  BY <1>1, <1>2, TypedHolds, PTL DEF UploadsSpec, FileInv

-----------------------------------------------------------------------------
(* Uploads implement module Intake. *)

Stages  == [u \in Uploads |-> StageOf(handler[u])]
ReadNow == {u \in Uploads : file[u].status = "read"}

LEMMA StageGoes ==
  ASSUME Typed, NEW u \in Uploads, NEW stop \in Handlers, Goes(u, stop)
  PROVE  Stages' = [Stages EXCEPT ![u] = StageOf(stop)] /\ Stages[u] = StageOf(handler[u])
<1>1. handler \in [Uploads -> Handlers]
  BY DEF Typed
<1>2. \A v \in Uploads : handler'[v] = IF v = u THEN stop ELSE handler[v]
  BY <1>1 DEF Goes
<1> QED
  BY <1>2 DEF Stages

\* A statement that the promise does not tell from the one before.
LEMMA StageStays ==
  ASSUME Typed, NEW u \in Uploads, NEW stop \in Handlers, Goes(u, stop),
         StageOf(stop) = StageOf(handler[u])
  PROVE  Stages' = Stages
BY StageGoes DEF Stages

DockState == <<quota, usedBytes, Stages, object, ReadNow, trouble>>

\* Every upload of module Uploads, with all that can fail in its handler and in the worker,
\* is one module Intake allows: its space is taken once and given back when the object is
\* not stored, what is accepted is stored, only what is stored is read, and a loop that
\* reads a job twice loses nothing it has read unless a statement fails.
THEOREM UploadsKeepPromise == UploadsSpec => KeepsIntake
<1> USE DEF Stages, ReadNow
<1>1. UploadsInit => Dock!Init
  <2> SUFFICES ASSUME UploadsInit PROVE Dock!Init
    OBVIOUS
  <2>1. quota \in Nat \ {0} /\ usedBytes = 0 /\ object = {} /\ trouble = 0
    BY UploadsConstantsOK DEF UploadsInit
  <2>2. Stages = [u \in Uploads |-> "open"] /\ ReadNow = {}
    BY DEF UploadsInit, StageOf, NoFile
  <2> QED
    BY <2>1, <2>2 DEF Dock!Init
<1>2. FileInv /\ SpaceInv /\ [UploadsNext]_uploadsVars => [Dock!Next]_(Dock!vars)
  <2> SUFFICES ASSUME FileInv, SpaceInv, [UploadsNext]_uploadsVars
               PROVE  Dock!Next \/ UNCHANGED DockState
    BY DEF Dock!vars, DockState
  <2>1. Typed /\ SeesWell /\ (\A u \in Uploads : FileOf(u)) /\ file \in [Uploads -> FileRec]
    BY DEF FileInv, FilesFit, Typed
  <2>2. ASSUME NEW u \in Uploads, Arrive(u) PROVE Dock!Next \/ UNCHANGED DockState
    <3>1. UNCHANGED <<quota, usedBytes, object, ReadNow, trouble>> /\ Stages[u] = "open"
      BY <2>2 DEF Arrive, space, StageOf
    <3>2. CASE Goes(u, "charge")
      <4>1. Stages' = Stages
        BY <2>1, <2>2, <3>2, StageStays DEF Arrive, StageOf, Handlers
      <4> QED
        BY <3>1, <4>1 DEF DockState
    <3>3. CASE Goes(u, "refused")
      <4>1. Stages' = [Stages EXCEPT ![u] = "refused"]
        BY <2>1, <3>3, StageGoes DEF StageOf, Handlers, HandlerEnded
      <4>2. Dock!TurnAway(u)
        BY <3>1, <4>1 DEF Dock!TurnAway, Dock!Moves
      <4> QED
        BY <4>2 DEF Dock!Next
    <3> QED
      BY <2>2, <3>2, <3>3 DEF Arrive
  <2>3. ASSUME NEW u \in Uploads, Charge(u) PROVE Dock!Next \/ UNCHANGED DockState
    <3>1. UNCHANGED <<quota, object, ReadNow, trouble>> /\ Stages[u] = "open"
      BY <2>3 DEF Charge, StageOf
    <3>2. CASE usedBytes < quota
      <4>1. Stages' = [Stages EXCEPT ![u] = "held"] /\ usedBytes' = usedBytes + 1
        BY <2>1, <2>3, <3>2, StageGoes DEF Charge, StageOf, Handlers
      <4>2. Dock!Take(u)
        BY <3>1, <3>2, <4>1 DEF Dock!Take, Dock!Moves
      <4> QED
        BY <4>2 DEF Dock!Next
    <3>3. CASE ~(usedBytes < quota)
      <4>1. Stages' = [Stages EXCEPT ![u] = "refused"] /\ UNCHANGED usedBytes
        BY <2>1, <2>3, <3>3, StageGoes DEF Charge, StageOf, Handlers, HandlerEnded
      <4>2. Dock!TurnAway(u)
        BY <3>1, <4>1 DEF Dock!TurnAway, Dock!Moves
      <4> QED
        BY <4>2 DEF Dock!Next
    <3> QED
      BY <3>2, <3>3
  <2>4. ASSUME NEW u \in Uploads, StoreObject(u) PROVE Dock!Next \/ UNCHANGED DockState
    <3>1. /\ UNCHANGED <<quota, usedBytes, ReadNow, trouble>> /\ Stages[u] = "held"
          /\ u \notin object
      BY <2>4 DEF StoreObject, space, StageOf, SpaceInv
    <3>2. CASE object' = object \cup {u} /\ Goes(u, "job")
      <4>1. Stages' = [Stages EXCEPT ![u] = "stored"]
        BY <2>1, <3>2, StageGoes DEF StageOf, Handlers
      <4>2. Dock!Keep(u)
        BY <3>1, <3>2, <4>1 DEF Dock!Keep, Dock!Moves
      <4> QED
        BY <4>2 DEF Dock!Next
    <3>3. CASE UNCHANGED object /\ Goes(u, "giveback")
      <4>1. Stages' = Stages
        BY <2>1, <2>4, <3>3, StageStays DEF StoreObject, StageOf, Handlers
      <4> QED
        BY <3>1, <3>3, <4>1 DEF DockState
    <3> QED
      BY <2>4, <3>2, <3>3 DEF StoreObject
  <2>5. ASSUME NEW u \in Uploads, GiveBack(u) PROVE Dock!Next
    <3>1. UNCHANGED <<quota, object, ReadNow, trouble>> /\ Stages[u] = "held"
      BY <2>5 DEF GiveBack, StageOf
    <3>2. Stages' = [Stages EXCEPT ![u] = "refused"]
      BY <2>1, <2>5, StageGoes DEF GiveBack, StageOf, Handlers, HandlerEnded
    <3>3. usedBytes > 0
      <4>1. u \in Charged /\ Charged \in SUBSET Uploads /\ object \in SUBSET Uploads
        BY <2>5 DEF GiveBack, Charged, SpaceInv
      <4>2. Cardinality(Charged) > 0 /\ Cardinality(Charged) \in Nat /\ Cardinality(object) \in Nat
        BY <4>1, OneLess, UploadSets
      <4> QED
        BY <4>2 DEF SpaceInv, SpaceAccounted
    <3>4. usedBytes' = usedBytes - 1
      BY <2>5, <3>3 DEF GiveBack
    <3>5. Dock!GiveBack(u)
      BY <3>1, <3>2, <3>3, <3>4 DEF Dock!GiveBack, Dock!Moves
    <3> QED
      BY <3>5 DEF Dock!Next
  <2>6. ASSUME NEW u \in Uploads, InsertJob(u) \/ InsertFile(u) \/ SetBackend(u)
        PROVE  UNCHANGED DockState
    <3>1. Stages' = Stages
      BY <2>1, <2>6, StageStays DEF InsertJob, InsertFile, SetBackend, StageOf, Handlers
    <3>2. ReadNow' = ReadNow
      <4>1. CASE InsertJob(u)
        BY <4>1 DEF InsertJob
      <4>2. CASE InsertFile(u)
        <5>1. file[u].status = "none"
          BY <2>1, <4>2 DEF InsertFile, FileOf
        <5>2. file'[u].status = "queued" /\ \A v \in Uploads \ {u} : file'[v] = file[v]
          BY <2>1, <4>2 DEF InsertFile
        <5> QED
          BY <5>1, <5>2
      <4>3. CASE SetBackend(u)
        <5>1. file'[u].status = file[u].status /\ \A v \in Uploads \ {u} : file'[v] = file[v]
          BY <2>1, <4>3 DEF SetBackend, FileRec
        <5> QED
          BY <5>1
      <4> QED
        BY <2>6, <4>1, <4>2, <4>3
    <3>3. UNCHANGED <<quota, usedBytes, object, trouble>>
      BY <2>6 DEF InsertJob, InsertFile, SetBackend, space
    <3> QED
      BY <3>1, <3>2, <3>3 DEF DockState
  <2>7. ASSUME NEW u \in Uploads, Publish(u) PROVE Dock!Next
    <3>1. UNCHANGED <<quota, usedBytes, object, ReadNow, trouble>> /\ Stages[u] = "stored"
      BY <2>7 DEF Publish, space, StageOf
    <3>2. Stages' = [Stages EXCEPT ![u] = "accepted"] /\ u \in object
      BY <2>1, <2>7, StageGoes DEF Publish, StageOf, Handlers, HandlerEnded, FileOf
    <3>3. Dock!Accept(u)
      BY <3>1, <3>2 DEF Dock!Accept, Dock!Moves
    <3> QED
      BY <3>3 DEF Dock!Next
  <2>8. ASSUME NEW u \in Uploads, BreakOff(u) PROVE Dock!Next
    <3>1. UNCHANGED <<quota, usedBytes, object, ReadNow>> /\ trouble' = trouble + 1
      BY <2>8 DEF BreakOff, space
    <3>2. Stages[u] \in {"open", "held", "stored"}
      BY <2>1, <2>8 DEF BreakOff, StageOf, Typed, Handlers, HandlerEnded
    <3>3. Stages' = [Stages EXCEPT ![u] = "lost"]
      BY <2>1, <2>8, StageGoes DEF BreakOff, StageOf, Handlers, HandlerEnded
    <3>4. Dock!BreakOff
      BY <3>1, <3>2, <3>3 DEF Dock!BreakOff, Dock!Moves
    <3> QED
      BY <3>4 DEF Dock!Next
  <2>9. CASE TakeEvent \/ Poll \/ NextJob \/ Start \/ FinishJob \/ RestartWorker
    BY <2>9 DEF TakeEvent, Poll, NextJob, Start, FinishJob, RestartWorker, DockState, space
  <2>10. CASE Extract
    <3>1. UNCHANGED <<quota, usedBytes, Stages, object, trouble>> /\ loop.job \in Uploads
          /\ LoopAt("extract")
      BY <2>1, <2>10 DEF Extract, LoopAt, Typed, LoopOK, space
    <3>2. CASE loop.sees = "none"
      BY <2>10, <3>1, <3>2 DEF Extract, DockState
    <3>3. CASE loop.sees # "none" /\ loop.sees = backend
      <4>1. file' = [file EXCEPT ![loop.job].status = "read"]
        BY <2>10, <3>3 DEF Extract
      <4>2. ReadNow' = ReadNow \cup {loop.job}
        BY <2>1, <3>1, <4>1, FileMarked DEF Statuses
      <4>3. loop.job \in object
        BY <2>1, <3>1, <3>3 DEF SeesWell, FileOf
      <4>4. PICK u \in Uploads : u = loop.job
        BY <3>1
      <4>5. Dock!Read(u)
        BY <3>1, <4>2, <4>3, <4>4 DEF Dock!Read
      <4> QED
        BY <4>5 DEF Dock!Next
    <3>4. CASE loop.sees # "none" /\ loop.sees # backend
      <4>1. file' = [file EXCEPT ![loop.job].status = "missed"]
        BY <2>10, <3>4 DEF Extract
      <4>2. file[loop.job].status # "read"
        BY <2>1, <3>1, <3>4 DEF SeesWell
      <4>3. ReadNow' = ReadNow
        BY <2>1, <3>1, <4>1, <4>2, FileMarked DEF Statuses
      <4> QED
        BY <3>1, <4>3 DEF DockState
    <3> QED
      BY <3>2, <3>3, <3>4
  <2>11. CASE ExtractFails
    <3>1. UNCHANGED <<quota, usedBytes, Stages, object>> /\ trouble' = trouble + 1
          /\ loop.job \in Uploads
      BY <2>1, <2>11 DEF ExtractFails, LoopAt, Typed, LoopOK, space
    <3>2. file' = [file EXCEPT ![loop.job].status = "missed"]
      BY <2>11 DEF ExtractFails
    <3>3. ReadNow' = ReadNow \ {loop.job}
      BY <2>1, <3>1, <3>2, FileMarked DEF Statuses
    <3>4. Dock!BreakOff
      BY <3>1, <3>3 DEF Dock!BreakOff
    <3> QED
      BY <3>4 DEF Dock!Next
  <2>12. CASE LoopStatementFails \/ Crash
    <3>1. UNCHANGED <<quota, usedBytes, Stages, object, ReadNow>> /\ trouble' = trouble + 1
      BY <2>12 DEF LoopStatementFails, Crash, space
    <3>2. Dock!BreakOff
      BY <3>1 DEF Dock!BreakOff
    <3> QED
      BY <3>2 DEF Dock!Next
  <2>13. CASE UNCHANGED uploadsVars
    BY <2>13 DEF uploadsVars, DockState, space
  <2> QED
    BY <2>2, <2>3, <2>4, <2>5, <2>6, <2>7, <2>8, <2>9, <2>10, <2>11, <2>12, <2>13
       DEF UploadsNext, Proceed, Worker
<1> QED
  BY <1>1, <1>2, FileInvHolds, SpaceInvHolds, PTL DEF UploadsSpec, KeepsIntake, Dock!Spec
==============================================================================
