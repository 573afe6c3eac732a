---------------------------- MODULE ForwardProofs ----------------------------
(***************************************************************************)
(* Theorems about the candidate loop, for any number of requests, accounts *)
(* and windows: its types, the bound on what Reserve's two round trips can *)
(* overshoot, the rest an account gets after a failed dispatch, the        *)
(* allowance that survives an eviction, and that the loop keeps the        *)
(* promise of Failover. The last part is about the workbench, where most   *)
(* requests come from: an answer is stored once, what is stored is shown,  *)
(* and the rows of a conversation keep the promise of module Transcript.   *)
(***************************************************************************)
EXTENDS Forward, Workbench, SequenceTheorems, FiniteSetTheorems, TLAPS

\* The stops at which acc is the account the request is working on, and those
\* at which AddStrike has returned.
Working == {"media", "count", "record", "upstream", "throttled", "credit", "streaming"}
Chosen == \A r \in Requests : pc[r] \in Working => acc[r] \in Accounts
Struck == \A r \in Requests : pc[r] \in {"throttled", "credit"} => strike[r] >= 1
TypeInv == TypeOK /\ Chosen /\ Struck

\* The backoff is at least one second: the base or the cap, whichever is less.
LEMMA BackoffBound ==
  ASSUME NEW n \in Nat, n >= 1, NEW shift \in 0 .. 10, NEW cap \in Nat \ {0}
  PROVE  /\ Backoff(n, shift, cap) \in Nat \ {0}
         /\ \/ Backoff(n, shift, cap) >= CooldownSeconds
            \/ Backoff(n, shift, cap) = cap
<1> DEFINE k == Smaller(n - 1, shift)
           p == PowersOfTwo[k + 1]
<1>1. k \in 0 .. 10
  BY DEF Smaller
<1>2. p \in Nat \ {0}
  BY <1>1 DEF PowersOfTwo
<1> HIDE DEF p
<1>3. CooldownSeconds \in Nat \ {0}
  BY ConstantsOK
<1>4. CooldownSeconds * p \in Nat /\ CooldownSeconds * p >= CooldownSeconds
  BY <1>2, <1>3
<1>5. Backoff(n, shift, cap) = IF CooldownSeconds * p <= cap THEN CooldownSeconds * p ELSE cap
  BY DEF Backoff, Smaller, p
<1> QED
  BY <1>3, <1>4, <1>5

\* The requests between the two trips of Reserve are finitely many.
LEMMA RecordingFinite ==
  ASSUME NEW a, NEW r \in Requests
  PROVE  /\ IsFiniteSet(Recording(a)) /\ IsFiniteSet(Recording(a) \cup {r})
         /\ Cardinality(Recording(a)) \in Nat
         /\ Cardinality(Recording(a) \cup {r}) \in Nat
BY ConstantsOK, FS_Subset, FS_AddElement, FS_CardinalityType DEF Recording

\* The loop keeps its types, a request past Select has an account, and a strike
\* that will be shifted by is at least one.
THEOREM TypeCorrect == Spec => []TypeInv
<1>1. Init => TypeInv
  BY ConstantsOK DEF Init, TypeInv, TypeOK, Chosen, Struck, Working, Time, Stops, Replies
<1>2. TypeInv /\ [Next]_vars => TypeInv'
  <2> SUFFICES ASSUME TypeInv, [Next]_vars PROVE TypeInv'
    OBVIOUS
  <2> USE ConstantsOK DEF TypeInv, TypeOK, Chosen, Struck, Working, Time, Stops, Replies,
        RowKinds, Row, Event, GoTo, TryNext, Reply, Failed, shared, locals, ghosts
  <2>1. ASSUME NEW r \in Requests, Arrive(r) PROVE TypeInv'
    <3>1. PICK m \in Models \cup {NoModel}, filter \in Filters, media \in BOOLEAN :
            /\ req' = [req EXCEPT ![r] = [model |-> m, filter |-> filter, media |-> media]]
            /\ cands' = [cands EXCEPT ![r] = EligibleAccounts(m, filter)]
            /\ offered' = [offered EXCEPT ![r] = EligibleAccounts(m, filter)]
            /\ \/ GoTo(r, "head") /\ UNCHANGED reply
               \/ GoTo(r, "done") /\ Reply(r, "unknown_model")
               \/ GoTo(r, "done") /\ Reply(r, "no_account")
      BY <2>1, Zenon DEF Arrive
    <3>2. EligibleAccounts(m, filter) \in SUBSET Accounts
      BY DEF EligibleAccounts
    <3>3. UNCHANGED <<now, shared, i, acc, at, strike, lastAuth, granted, failed, crowd>>
      BY <2>1 DEF Arrive
    <3>4. req' \in [Requests -> [model : Models \cup {NoModel}, filter : SUBSET Accounts,
                                media : BOOLEAN]]
      BY <3>1
    <3>5. cands' \in [Requests -> SUBSET Accounts] /\ offered' \in [Requests -> SUBSET Accounts]
      BY <3>1, <3>2
    <3>6. pc' \in [Requests -> Stops] /\ reply' \in [Requests -> Replies]
      <4>1. PICK stop \in Stops : pc' = [pc EXCEPT ![r] = stop]
        BY <3>1
      <4>2. PICK what \in Replies : reply' = [reply EXCEPT ![r] = what]
        <5>1. reply[r] \in Replies /\ reply = [reply EXCEPT ![r] = reply[r]]
          OBVIOUS
        <5>2. reply' = reply \/ Reply(r, "unknown_model") \/ Reply(r, "no_account")
          BY <3>1, Zenon
        <5> QED
          BY <5>1, <5>2
      <4> QED
        BY <4>1, <4>2
    <3>7. Chosen' /\ Struck'
      BY <3>1, <3>3
    <3> QED
      BY <3>3, <3>4, <3>5, <3>6, <3>7
  <2>2. ASSUME NEW r \in Requests, Select(r) PROVE TypeInv'
    BY <2>2 DEF Select, SelectAccount
  <2>3. ASSUME NEW r \in Requests, GiveUp(r) PROVE TypeInv'
    BY <2>3 DEF GiveUp
  <2>4. ASSUME NEW r \in Requests, MediaAnswered(r) PROVE TypeInv'
    BY <2>4 DEF MediaAnswered, Succeed, RecordUsage
  <2>5. ASSUME NEW r \in Requests, MediaFailed(r) PROVE TypeInv'
    BY <2>5 DEF MediaFailed, SetCooldown
  <2>6. ASSUME NEW r \in Requests, NoMediaAdapter(r) PROVE TypeInv'
    BY <2>6 DEF NoMediaAdapter
  <2>7. ASSUME NEW r \in Requests, ReserveCount(r) PROVE TypeInv'
    <3>1. acc[r] \in Accounts
      BY <2>7 DEF ReserveCount
    <3>2. Larger(crowd[acc[r]], Cardinality(Recording(acc[r]) \cup {r})) \in Nat
      BY <3>1, RecordingFinite DEF Larger
    <3>3. crowd' \in [Accounts -> Nat]
      BY <2>7, <3>2 DEF ReserveCount
    <3> QED
      BY <2>7, <3>3 DEF ReserveCount
  <2>8. ASSUME NEW r \in Requests, ReserveRefused(r) PROVE TypeInv'
    BY <2>8 DEF ReserveRefused
  <2>9. ASSUME NEW r \in Requests, ReserveRecord(r) PROVE TypeInv'
    BY <2>9 DEF ReserveRecord
  <2>10. ASSUME NEW r \in Requests, BadTarget(r) PROVE TypeInv'
    BY <2>10 DEF BadTarget
  <2>11. ASSUME NEW r \in Requests, TransportError(r) PROVE TypeInv'
    BY <2>11 DEF TransportError, SetCooldown
  <2>12. ASSUME NEW r \in Requests, Throttled(r) PROVE TypeInv'
    BY <2>12 DEF Throttled, AddStrike, Strikes
  <2>13. ASSUME NEW r \in Requests, CoolThrottled(r) PROVE TypeInv'
    <3>1. Backoff(strike[r], ThrottleShift, ThrottleCap) \in Nat
      BY <2>13, BackoffBound DEF CoolThrottled
    <3>2. PICK seconds \in Nat : SetCooldown(acc[r], seconds)
      BY <2>13, <3>1 DEF CoolThrottled
    <3> QED
      BY <2>13, <3>2 DEF CoolThrottled, SetCooldown
  <2>14. ASSUME NEW r \in Requests, Refused(r) PROVE TypeInv'
    BY <2>14 DEF Refused, SetCooldown
  <2>15. ASSUME NEW r \in Requests, OutOfCredit(r) PROVE TypeInv'
    BY <2>15 DEF OutOfCredit, AddStrike, Strikes
  <2>16. ASSUME NEW r \in Requests, CoolCredit(r) PROVE TypeInv'
    <3>1. PICK seconds \in Nat : SetCooldown(acc[r], seconds)
      BY <2>16, BackoffBound DEF CoolCredit
    <3> QED
      BY <2>16, <3>1 DEF CoolCredit, SetCooldown, RecordUsage
  <2>17. ASSUME NEW r \in Requests, StrikeLost(r) PROVE TypeInv'
    BY <2>17 DEF StrikeLost
  <2>18. ASSUME NEW r \in Requests, ModelGone(r) PROVE TypeInv'
    BY <2>18 DEF ModelGone, SetCooldown
  <2>19. ASSUME NEW r \in Requests, NEW streaming \in BOOLEAN, NEW whole \in BOOLEAN,
                NEW parsed \in BOOLEAN, Answered(r, streaming, whole, parsed)
         PROVE  TypeInv'
    BY <2>19 DEF Answered, Succeed, RecordUsage
  <2>20. ASSUME NEW r \in Requests, Streamed(r) PROVE TypeInv'
    BY <2>20 DEF Streamed, RecordUsage
  <2>21. CASE Tick
    BY <2>21 DEF Tick
  <2>22. ASSUME NEW a \in Accounts, EvictWindow(a) PROVE TypeInv'
    BY <2>22 DEF EvictWindow
  <2>23. CASE UNCHANGED vars
    BY <2>23 DEF vars
  <2> HIDE DEF TypeInv
  <2> QED
    BY <2>1, <2>2, <2>3, <2>4, <2>5, <2>6, <2>7, <2>8, <2>9, <2>10, <2>11, <2>12, <2>13,
       <2>14, <2>15, <2>16, <2>17, <2>18, <2>19, <2>20, <2>21, <2>22, <2>23 DEF Next, Step
<1> QED
  BY <1>1, <1>2, PTL DEF Spec

-----------------------------------------------------------------------------
(* The rest after a failed dispatch. *)

PastFailures == \A e \in failed : e.at <= now
RestInv == PastFailures /\ RestsAfterFailure

\* A backoff is as long as the cooldown it starts from or as its cap.
LEMMA BackoffRests ==
  ASSUME NEW b \in Nat, NEW cap \in {ThrottleCap, CreditCap}, b >= CooldownSeconds \/ b = cap
  PROVE  \E rest \in Rests : b >= rest
<1>1. CooldownSeconds \in Rests /\ cap \in Rests
  BY DEF Rests
<1>2. CASE b >= CooldownSeconds
  BY <1>1, <1>2
<1>3. CASE b = cap
  <2>1. b >= cap
    BY <1>3
  <2> QED
    BY <1>1, <2>1
<1> QED
  BY <1>2, <1>3

\* A handler that cools its account for one of the rests or longer keeps the
\* invariant: earlier failures of that account lie in the past.
LEMMA CoolingRests ==
  ASSUME TypeInv, RestInv, NEW r \in Requests, acc[r] \in Accounts,
         NEW seconds \in Nat, NEW rest \in Rests, seconds >= rest,
         SetCooldown(acc[r], seconds), Failed(r), now' = now
  PROVE  RestInv'
<1>1. failed \subseteq Event /\ now \in Nat /\ cooldown \in [Accounts -> Nat] /\ rest \in Nat
  BY ConstantsOK DEF TypeInv, TypeOK, Time, Rests
<1>2. PastFailures'
  BY <1>1 DEF RestInv, PastFailures, Failed
<1>3. ASSUME NEW e \in failed' PROVE \E s \in Rests : cooldown'[e.account] >= e.at + s
  <2>1. e.account \in Accounts /\ e.at \in Nat /\ e.at <= now
    BY <1>1, <1>2, ConstantsOK DEF Failed, Event, Time, PastFailures
  <2>2. CASE e.account = acc[r]
    BY <2>1, <2>2, <1>1 DEF SetCooldown
  <2>3. CASE e.account # acc[r]
    <3>1. e \in failed
      BY <2>3 DEF Failed
    <3> QED
      BY <2>1, <2>3, <3>1, <1>1 DEF SetCooldown, RestInv, RestsAfterFailure
  <2> QED
    BY <2>2, <2>3
<1> QED
  BY <1>2, <1>3 DEF RestInv, RestsAfterFailure, Rests

\* An account that failed a dispatch rests at least as long as the shortest
\* cooldown of the loop, though every SetCooldown overwrites the one before.
THEOREM FailureRests == Spec => []RestsAfterFailure
<1>1. Init => RestInv
  BY DEF Init, RestInv, PastFailures, RestsAfterFailure
<1>2. TypeInv /\ RestInv /\ [Next]_vars => RestInv'
  <2> SUFFICES ASSUME TypeInv, RestInv, [Next]_vars PROVE RestInv'
    OBVIOUS
  <2>0. ASSUME UNCHANGED <<cooldown, failed>>, now' = now \/ now' = now + 1 PROVE RestInv'
    BY <2>0, ConstantsOK DEF RestInv, PastFailures, RestsAfterFailure, TypeInv, TypeOK, Time,
       Event, Rests
  <2> DEFINE Cools(r) ==
        /\ acc[r] \in Accounts /\ Failed(r) /\ now' = now
        /\ \E seconds \in Nat, rest \in Rests : seconds >= rest /\ SetCooldown(acc[r], seconds)
  <2>a. ASSUME NEW r \in Requests, Cools(r) PROVE RestInv'
    BY <2>a, CoolingRests
  <2> HIDE DEF Cools
  <2>1. ASSUME NEW r \in Requests,
               MediaFailed(r) \/ TransportError(r) \/ Refused(r) \/ ModelGone(r)
        PROVE  Cools(r)
    <3>1. acc[r] \in Accounts /\ Failed(r) /\ now' = now
      BY <2>1 DEF MediaFailed, TransportError, Refused, ModelGone, TypeInv, Chosen, Working
    <3>2. PICK s \in {MediaRest, TransportRest, CooldownSeconds, ModelRest} :
            SetCooldown(acc[r], s)
      BY <2>1 DEF MediaFailed, TransportError, Refused, ModelGone
    <3>3. s \in Nat /\ s \in Rests /\ s >= s
      BY ConstantsOK DEF Rests
    <3> QED
      BY <3>1, <3>2, <3>3 DEF Cools
  <2>2. ASSUME NEW r \in Requests, CoolThrottled(r) PROVE Cools(r)
    <3>1. strike[r] \in Nat /\ strike[r] >= 1 /\ acc[r] \in Accounts
      BY <2>2 DEF CoolThrottled, TypeInv, TypeOK, Struck, Chosen, Working
    <3> DEFINE b == Backoff(strike[r], ThrottleShift, ThrottleCap)
    <3>2. b \in Nat /\ (b >= CooldownSeconds \/ b = ThrottleCap)
      BY <3>1, BackoffBound, ConstantsOK
    <3> HIDE DEF b
    <3>3. PICK seconds \in RetryAfters : SetCooldown(acc[r], IF seconds > 0 THEN seconds ELSE b)
      BY <2>2 DEF CoolThrottled, b
    <3>4. \E rest \in Rests : (IF seconds > 0 THEN seconds ELSE b) >= rest
      <4>1. CASE seconds > 0
        BY <4>1, ConstantsOK DEF Rests
      <4>2. CASE ~(seconds > 0)
        BY <4>2, <3>2, BackoffRests
      <4> QED
        BY <4>1, <4>2
    <3>5. (IF seconds > 0 THEN seconds ELSE b) \in Nat
      BY <3>2, ConstantsOK
    <3> QED
      BY <3>1, <3>3, <3>4, <3>5, <2>2 DEF Cools, CoolThrottled
  <2>3. ASSUME NEW r \in Requests, CoolCredit(r) PROVE Cools(r)
    <3>1. strike[r] \in Nat /\ strike[r] >= 1 /\ acc[r] \in Accounts
      BY <2>3 DEF CoolCredit, TypeInv, TypeOK, Struck, Chosen, Working
    <3> DEFINE b == Backoff(strike[r], CreditShift, CreditCap)
    <3>2. b \in Nat /\ (b >= CooldownSeconds \/ b = CreditCap)
      BY <3>1, BackoffBound, ConstantsOK
    <3> HIDE DEF b
    <3>3. \E rest \in Rests : b >= rest
      BY <3>2, BackoffRests
    <3>4. SetCooldown(acc[r], b)
      BY <2>3 DEF CoolCredit, b
    <3> QED
      BY <3>1, <3>2, <3>3, <3>4, <2>3 DEF Cools, CoolCredit
  <2>4. ASSUME NEW r \in Requests, NEW streaming \in BOOLEAN, NEW whole \in BOOLEAN,
               NEW parsed \in BOOLEAN, Answered(r, streaming, whole, parsed)
        PROVE  RestInv'
    BY <2>4, <2>0 DEF Answered, ghosts
  <2>5. ASSUME NEW r \in Requests,
               \/ Arrive(r) \/ Select(r) \/ GiveUp(r) \/ MediaAnswered(r) \/ NoMediaAdapter(r)
               \/ ReserveCount(r) \/ ReserveRefused(r) \/ ReserveRecord(r) \/ BadTarget(r)
               \/ Throttled(r) \/ OutOfCredit(r) \/ StrikeLost(r) \/ Streamed(r)
        PROVE  RestInv'
    BY <2>5, <2>0 DEF Arrive, Select, GiveUp, MediaAnswered, NoMediaAdapter, ReserveCount,
       ReserveRefused, ReserveRecord, BadTarget, Throttled, OutOfCredit, StrikeLost, Streamed,
       shared, ghosts
  <2>6. ASSUME NEW a \in Accounts, EvictWindow(a) PROVE RestInv'
    BY <2>6, <2>0 DEF EvictWindow, ghosts
  <2>7. CASE Tick \/ UNCHANGED vars
    BY <2>7, <2>0 DEF Tick, vars, shared, ghosts
  <2> QED
    BY <2>a, <2>1, <2>2, <2>3, <2>4, <2>5, <2>6, <2>7 DEF Next, Step
<1>3. RestInv => RestsAfterFailure
  BY DEF RestInv
<1> QED
  BY <1>1, <1>2, <1>3, TypeCorrect, PTL DEF Spec

-----------------------------------------------------------------------------
(* The bound on what the two round trips of Reserve overshoot. *)

CrowdCounts == \A a \in Accounts : Cardinality(Recording(a)) <= crowd[a]
OverInv == CrowdCounts /\ OvershootBounded

\* A window of reservations is finite: the clock is.
LEMMA ReservedFinite ==
  ASSUME TypeInv, NEW a \in Accounts, NEW w \in Windows, NEW t \in Time
  PROVE  IsFiniteSet(Reserved(a, w, t)) /\ Cardinality(Reserved(a, w, t)) \in Nat
<1>1. IsFiniteSet(Time)
  BY FS_Interval, ConstantsOK DEF Time
<1>2. Reserved(a, w, t) \subseteq Time
  BY DEF TypeInv, TypeOK, Reserved
<1> QED
  BY <1>1, <1>2, FS_Subset, FS_CardinalityType

\* Thresholds are monotone: a count below one is less than any count at it.
LEMMA BelowThreshold ==
  ASSUME NEW count \in Nat, NEW cap \in Nat, NEW limit \in Nat,
         ~AtThreshold(count, limit), AtThreshold(cap, limit)
  PROVE  count < cap
<1>1. ThresholdDen \in Nat /\ ThresholdDen > 0 /\ ThresholdNum \in Nat
  BY ConstantsOK
<1>2. limit * ThresholdNum \in Nat
  BY <1>1
<1>3. count * ThresholdDen < limit * ThresholdNum /\ cap * ThresholdDen >= limit * ThresholdNum
  BY <1>1, <1>2 DEF AtThreshold
<1>4. SUFFICES ASSUME count >= cap PROVE FALSE
  OBVIOUS
<1>5. count * ThresholdDen >= cap * ThresholdDen
  BY <1>1, <1>4
<1> QED
  BY <1>1, <1>2, <1>3, <1>5

\* A step that moves one request between stops other than "record", and leaves
\* the windows alone, keeps the bound.
LEMMA ElsewhereKeepsBound ==
  ASSUME TypeInv, OverInv, UNCHANGED <<now, reserved, crowd>>,
         NEW r \in Requests, NEW stop, pc[r] # "record", stop # "record",
         pc' = [pc EXCEPT ![r] = stop],
         acc' = acc \/ \E a : acc' = [acc EXCEPT ![r] = a]
  PROVE  OverInv'
<1>1. \A a \in Accounts : Recording(a)' = Recording(a)
  BY DEF TypeInv, TypeOK, Recording
<1>2. \A a \in Accounts, w \in Windows : Reserved(a, w, now)' = Reserved(a, w, now)
  BY DEF Reserved
<1> QED
  BY <1>1, <1>2 DEF OverInv, CrowdCounts, OvershootBounded

\* What Reserve lets through beyond the threshold is bounded by the requests
\* that were between its two round trips at once.
THEOREM Overshoot == Spec => []OvershootBounded
<1>1. Init => OverInv
  <2> SUFFICES ASSUME Init PROVE OverInv
    OBVIOUS
  <2>1. \A a : Recording(a) = {}
    BY DEF Init, Recording
  <2>2. \A a \in Accounts, w \in Windows : Reserved(a, w, now) = {}
    BY DEF Init, Reserved
  <2>3. Cardinality({}) = 0
    BY FS_EmptySet
  <2>4. \A a \in Accounts, w \in Windows : Limit[a][w] * ThresholdNum \in Nat
    BY ConstantsOK
  <2>5. CrowdCounts
    <3>1. ASSUME NEW a \in Accounts PROVE Cardinality(Recording(a)) <= crowd[a]
      <4>1. Cardinality(Recording(a)) = 0
        BY <2>1, <2>3
      <4>2. crowd[a] = 0
        BY DEF Init
      <4> QED
        BY <4>1, <4>2
    <3> QED
      BY <3>1 DEF CrowdCounts
  <2>6. ASSUME NEW a \in Accounts, NEW w \in Windows, NEW cap \in 1 .. Limit[a][w] * ThresholdNum
        PROVE  Cardinality(Reserved(a, w, now)) + Cardinality(Recording(a)) < cap + crowd[a]
    <3>1. Cardinality(Reserved(a, w, now)) = 0 /\ Cardinality(Recording(a)) = 0 /\ crowd[a] = 0
      BY <2>1, <2>2, <2>3 DEF Init
    <3> QED
      BY <2>4, <3>1
  <2> QED
    BY <2>5, <2>6 DEF OverInv, OvershootBounded
<1>2. TypeInv /\ TypeInv' /\ OverInv /\ [Next]_vars => OverInv'
  <2> SUFFICES ASSUME TypeInv, TypeInv', OverInv, [Next]_vars PROVE OverInv'
    OBVIOUS
  <2>0. /\ now \in Time /\ pc \in [Requests -> Stops] /\ crowd \in [Accounts -> Nat]
        /\ acc \in [Requests -> Accounts \cup {NoAccount}] /\ at \in [Requests -> Time]
        /\ reserved \in [Accounts -> SUBSET Time]
        /\ \A a \in Accounts : Cardinality(Recording(a)) \in Nat
    <3>1. \A a : IsFiniteSet(Recording(a)) 
      BY ConstantsOK, FS_Subset DEF Recording
    <3> QED
      BY <3>1, FS_CardinalityType DEF TypeInv, TypeOK
  <2>c. \A a \in Accounts, w \in Windows : \A cap \in 1 .. Limit[a][w] * ThresholdNum :
          cap \in Nat /\ Limit[a][w] \in Nat
    BY ConstantsOK
  <2>1. ASSUME NEW r \in Requests,
               \/ Arrive(r) \/ Select(r) \/ GiveUp(r) \/ MediaAnswered(r) \/ MediaFailed(r)
               \/ NoMediaAdapter(r) \/ ReserveRefused(r) \/ BadTarget(r) \/ TransportError(r)
               \/ Throttled(r) \/ CoolThrottled(r) \/ Refused(r) \/ OutOfCredit(r)
               \/ CoolCredit(r) \/ StrikeLost(r) \/ ModelGone(r) \/ Streamed(r)
               \/ \E streaming, whole, parsed \in BOOLEAN : Answered(r, streaming, whole, parsed)
        PROVE  OverInv'
    <3>1. UNCHANGED <<now, reserved, crowd>> /\ pc[r] # "record"
      BY <2>1 DEF Arrive, Select, GiveUp, MediaAnswered, MediaFailed, NoMediaAdapter,
         ReserveRefused, BadTarget, TransportError, Throttled, CoolThrottled, Refused, OutOfCredit,
         CoolCredit, StrikeLost, ModelGone, Streamed, Answered, shared, ghosts
    <3>2. acc' = acc \/ \E a : acc' = [acc EXCEPT ![r] = a]
      BY <2>1 DEF Arrive, Select, GiveUp, MediaAnswered, MediaFailed, NoMediaAdapter,
         ReserveRefused, BadTarget, TransportError, Throttled, CoolThrottled, Refused, OutOfCredit,
         CoolCredit, StrikeLost, ModelGone, Streamed, Answered, locals
    <3>3. \E stop \in Stops \ {"record"} : GoTo(r, stop)
      BY <2>1 DEF Arrive, Select, GiveUp, MediaAnswered, MediaFailed, NoMediaAdapter,
         ReserveRefused, BadTarget, TransportError, Throttled, CoolThrottled, Refused, OutOfCredit,
         CoolCredit, StrikeLost, ModelGone, Streamed, Answered, TryNext, Stops
    <3> QED
      BY <3>1, <3>2, <3>3, ElsewhereKeepsBound DEF GoTo
  <2>2. ASSUME NEW r \in Requests, ReserveCount(r) PROVE OverInv'
    <3> DEFINE b == acc[r]
    <3>1. b \in Accounts /\ now' = now /\ reserved' = reserved /\ acc' = acc
      BY <2>2 DEF ReserveCount, TypeInv, Chosen, Working, shared
    <3>2. /\ crowd' = [crowd EXCEPT ![b] = Larger(@, Cardinality(Recording(b) \cup {r}))]
          /\ pc[r] = "count" /\ pc' = [pc EXCEPT ![r] = "record"]
          /\ \A w \in Windows : ~AtThreshold(Cardinality(Reserved(b, w, now)), Limit[b][w])
      BY <2>2 DEF ReserveCount, GoTo
    <3>3. Recording(b)' = Recording(b) \cup {r}
      BY <2>0, <3>1, <3>2 DEF Recording
    <3>4. \A a \in Accounts \ {b} : Recording(a)' = Recording(a)
      BY <2>0, <3>1, <3>2 DEF Recording
    <3>5. Cardinality(Recording(b) \cup {r}) \in Nat
      BY RecordingFinite
    <3>6. \A a \in Accounts, w \in Windows :
            /\ Reserved(a, w, now)' = Reserved(a, w, now)
            /\ Cardinality(Reserved(a, w, now)) \in Nat
      BY <2>0, <3>1, ReservedFinite DEF Reserved
    <3>7. crowd'[b] \in Nat /\ crowd'[b] >= Cardinality(Recording(b)')
      BY <2>0, <3>1, <3>2, <3>3, <3>5 DEF Larger
    <3>8. \A a \in Accounts \ {b} : crowd'[a] = crowd[a]
      BY <2>0, <3>2
    <3>9. CrowdCounts'
      <4>1. ASSUME NEW a \in Accounts PROVE Cardinality(Recording(a)') <= crowd'[a]
        <5>1. CASE a = b
          BY <3>1, <3>7, <5>1 DEF Recording
        <5>2. CASE a # b
          <6>1. Cardinality(Recording(a)) <= crowd[a]
            BY DEF OverInv, CrowdCounts
          <6> QED
            BY <3>4, <3>8, <5>2, <6>1
        <5> QED
          BY <5>1, <5>2
      <4> QED
        BY <4>1 DEF CrowdCounts
    <3>10. ASSUME NEW w \in Windows, NEW cap \in 1 .. Limit[b][w] * ThresholdNum,
                  AtThreshold(cap, Limit[b][w])
           PROVE  Cardinality(Reserved(b, w, now)') + Cardinality(Recording(b)') < cap + crowd'[b]
      <4>1. Cardinality(Reserved(b, w, now)) < cap
        BY <2>c, <3>1, <3>2, <3>6, <3>10, BelowThreshold
      <4> QED
        BY <2>c, <3>1, <3>3, <3>5, <3>6, <3>7, <4>1
    <3>11. OvershootBounded'
      BY <3>1, <3>4, <3>6, <3>8, <3>10 DEF OverInv, OvershootBounded
    <3> QED
      BY <3>9, <3>11 DEF OverInv
  <2>3. ASSUME NEW r \in Requests, ReserveRecord(r) PROVE OverInv'
    <3> DEFINE b == acc[r]
    <3>1. /\ b \in Accounts /\ now' = now /\ acc' = acc /\ crowd' = crowd
          /\ pc[r] = "record" /\ pc' = [pc EXCEPT ![r] = "upstream"]
          /\ reserved' = [reserved EXCEPT ![b] = {s \in @ \cup {at[r]} : s + Retention > at[r]}]
      BY <2>3 DEF ReserveRecord, TypeInv, Chosen, Working, GoTo, locals
    <3>2. Recording(b)' = Recording(b) \ {r} /\ r \in Recording(b)
      BY <2>0, <3>1 DEF Recording
    <3>3. \A a \in Accounts \ {b} : Recording(a)' = Recording(a)
      BY <2>0, <3>1 DEF Recording
    <3>4. Cardinality(Recording(b)') = Cardinality(Recording(b)) - 1
      BY <3>2, RecordingFinite, FS_RemoveElement
    <3>5. \A a \in Accounts \ {b}, w \in Windows : Reserved(a, w, now)' = Reserved(a, w, now)
      BY <2>0, <3>1 DEF Reserved
    <3>6. CrowdCounts'
      BY <2>0, <3>1, <3>3, <3>4 DEF OverInv, CrowdCounts
    <3>7. ASSUME NEW w \in Windows
          PROVE  /\ Cardinality(Reserved(b, w, now)) \in Nat
                 /\ Cardinality(Reserved(b, w, now)') \in Nat
                 /\ Cardinality(Reserved(b, w, now)') <= Cardinality(Reserved(b, w, now)) + 1
      <4>1. Reserved(b, w, now)' \subseteq Reserved(b, w, now) \cup {at[r]}
        BY <2>0, <3>1 DEF Reserved
      <4>2. IsFiniteSet(Reserved(b, w, now)) /\ Cardinality(Reserved(b, w, now)) \in Nat
        BY <2>0, <3>1, ReservedFinite
      <4>3. /\ IsFiniteSet(Reserved(b, w, now) \cup {at[r]})
            /\ Cardinality(Reserved(b, w, now) \cup {at[r]}) <= Cardinality(Reserved(b, w, now)) + 1
            /\ Cardinality(Reserved(b, w, now) \cup {at[r]}) \in Nat
        <5>1. IsFiniteSet(Reserved(b, w, now) \cup {at[r]})
          BY <4>2, FS_AddElement
        <5>2. \/ Cardinality(Reserved(b, w, now) \cup {at[r]}) = Cardinality(Reserved(b, w, now))
              \/ Cardinality(Reserved(b, w, now) \cup {at[r]}) = Cardinality(Reserved(b, w, now)) + 1
          BY <4>2, FS_AddElement
        <5> QED
          BY <4>2, <5>1, <5>2
      <4>4. /\ IsFiniteSet(Reserved(b, w, now)')
            /\ Cardinality(Reserved(b, w, now)') <= Cardinality(Reserved(b, w, now) \cup {at[r]})
        BY <4>1, <4>3, FS_Subset
      <4> QED
        BY <4>2, <4>3, <4>4, FS_CardinalityType
    <3>8. ASSUME NEW w \in Windows, NEW cap \in 1 .. Limit[b][w] * ThresholdNum,
                 AtThreshold(cap, Limit[b][w])
          PROVE  Cardinality(Reserved(b, w, now)') + Cardinality(Recording(b)') < cap + crowd'[b]
      <4>1. Cardinality(Reserved(b, w, now)) + Cardinality(Recording(b)) < cap + crowd[b]
        BY <3>1, <3>8 DEF OverInv, OvershootBounded
      <4> QED
        BY <2>0, <2>c, <3>1, <3>4, <3>7, <4>1
    <3>9. OvershootBounded'
      BY <3>1, <3>3, <3>5, <3>8 DEF OverInv, OvershootBounded
    <3> QED
      BY <3>6, <3>9 DEF OverInv
  <2>4. ASSUME UNCHANGED <<pc, acc, crowd>>,
               \A a \in Accounts, w \in Windows : Reserved(a, w, now)' \subseteq Reserved(a, w, now)
        PROVE  OverInv'
    <3>1. \A a : Recording(a)' = Recording(a)
      BY <2>4 DEF Recording
    <3>2. \A a \in Accounts, w \in Windows :
            /\ Cardinality(Reserved(a, w, now)') <= Cardinality(Reserved(a, w, now))
            /\ Cardinality(Reserved(a, w, now)) \in Nat
            /\ Cardinality(Reserved(a, w, now)') \in Nat
      BY <2>0, <2>4, ReservedFinite, FS_Subset, FS_CardinalityType
    <3>3. CrowdCounts'
      BY <2>4, <3>1 DEF OverInv, CrowdCounts
    <3>4. ASSUME NEW a \in Accounts, NEW w \in Windows,
                 NEW cap \in 1 .. Limit[a][w] * ThresholdNum, AtThreshold(cap, Limit[a][w])
          PROVE  Cardinality(Reserved(a, w, now)') + Cardinality(Recording(a)') < cap + crowd'[a]
      <4>1. Cardinality(Reserved(a, w, now)) + Cardinality(Recording(a)) < cap + crowd[a]
        BY <3>4 DEF OverInv, OvershootBounded
      <4> QED
        BY <2>0, <2>c, <2>4, <3>1, <3>2, <4>1
    <3>5. OvershootBounded'
      BY <3>4 DEF OvershootBounded
    <3> QED
      BY <3>3, <3>5 DEF OverInv
  <2>5. CASE Tick
    BY <2>0, <2>4, <2>5, ConstantsOK DEF Tick, Reserved, shared, locals, ghosts, Time
  <2>6. ASSUME NEW b \in Accounts, EvictWindow(b) PROVE OverInv'
    BY <2>0, <2>4, <2>6 DEF EvictWindow, Reserved, locals, ghosts
  <2>7. CASE UNCHANGED vars
    BY <2>4, <2>7 DEF vars, Reserved, shared, locals, ghosts
  <2> QED
    BY <2>1, <2>2, <2>3, <2>5, <2>6, <2>7 DEF Next, Step
<1>3. OverInv => OvershootBounded
  BY DEF OverInv
<1> QED
  BY <1>1, <1>2, <1>3, TypeCorrect, PTL DEF Spec

-----------------------------------------------------------------------------
(* How far the loop gets, and the promise it keeps. *)

\* What is known of a request at each stop: the counter of the loop is the
\* number of accounts taken so far, and stays within one of those left.
Attempting == Working \ {"streaming"}
Tried(r) == offered[r] \ cands[r]
HalfAt(r) == Cardinality(Tried(r)) = (Cardinality(offered[r]) + 1) \div 2
LoopAt(r) ==
  /\ cands[r] \subseteq offered[r]
  /\ pc[r] = "idle" => offered[r] = {} /\ i[r] = 0 /\ reply[r] = "none"
  /\ pc[r] \in {"head"} \cup Attempting => offered[r] # {} /\ reply[r] = "none"
  /\ pc[r] \in Working => Tried(r) # {} /\ i[r] <= Cardinality(cands[r])
  /\ pc[r] \in Attempting => Cardinality(Tried(r)) = i[r] + 1
  /\ pc[r] = "head" => Cardinality(Tried(r)) = i[r] /\ i[r] <= Cardinality(cands[r]) + 1
  /\ pc[r] = "streaming" => reply[r] \in {"answer", "cut_answer"}
  /\ pc[r] = "done" /\ offered[r] # {} /\ reply[r] \in {"no_account", "auth"} => HalfAt(r)
LoopInv == \A r \in Requests : LoopAt(r)

\* The candidates a request began with are those it tried and those left.
LEMMA AccountSets ==
  ASSUME TypeInv, NEW r \in Requests, cands[r] \subseteq offered[r]
  PROVE  /\ IsFiniteSet(cands[r]) /\ IsFiniteSet(offered[r]) /\ IsFiniteSet(Tried(r))
         /\ Cardinality(cands[r]) \in Nat /\ Cardinality(Tried(r)) \in Nat
         /\ Cardinality(offered[r]) = Cardinality(Tried(r)) + Cardinality(cands[r])
<1>1. IsFiniteSet(cands[r]) /\ IsFiniteSet(offered[r]) /\ IsFiniteSet(Tried(r))
  <2>1. cands[r] \subseteq Accounts /\ offered[r] \subseteq Accounts /\ Tried(r) \subseteq Accounts
    BY DEF TypeInv, TypeOK, Tried
  <2> QED
    BY <2>1, ConstantsOK, FS_Subset
<1>2. Cardinality(cands[r]) \in Nat /\ Cardinality(offered[r]) \in Nat /\ Cardinality(Tried(r)) \in Nat
  BY <1>1, FS_CardinalityType
<1>3. offered[r] \cap cands[r] = cands[r]
  OBVIOUS
<1>4. Cardinality(Tried(r)) = Cardinality(offered[r]) - Cardinality(cands[r])
  BY <1>1, <1>3, FS_Difference DEF Tried
<1> QED
  BY <1>1, <1>2, <1>4

\* A step of one request keeps the invariant of the others.
LEMMA OneLoopMoves ==
  ASSUME LoopInv, NEW r \in Requests, LoopAt(r)',
         \A q \in Requests \ {r} : /\ pc'[q] = pc[q] /\ cands'[q] = cands[q] /\ i'[q] = i[q]
                                   /\ offered'[q] = offered[q] /\ reply'[q] = reply[q]
  PROVE  LoopInv'
<1>1. ASSUME NEW q \in Requests, q # r PROVE LoopAt(q)'
  <2>1. LoopAt(q)
    BY DEF LoopInv
  <2> QED
    BY <1>1, <2>1 DEF LoopAt, Tried, HalfAt
<1>2. ASSUME NEW q \in Requests, q = r PROVE LoopAt(q)'
  BY <1>2, Zenon
<1> QED
  BY <1>1, <1>2, Zenon DEF LoopInv

\* The loop counter counts the candidates tried.
LEMMA LoopInvHolds == Spec => []LoopInv
<1>1. Init => LoopInv
  BY FS_EmptySet DEF Init, LoopInv, LoopAt, Working, Attempting
<1>2. TypeInv /\ LoopInv /\ [Next]_vars => LoopInv'
  <2> SUFFICES ASSUME TypeInv, LoopInv, [Next]_vars PROVE LoopInv'
    OBVIOUS
  <2>0. /\ pc \in [Requests -> Stops] /\ cands \in [Requests -> SUBSET Accounts]
        /\ i \in [Requests -> Nat] /\ offered \in [Requests -> SUBSET Accounts]
        /\ reply \in [Requests -> Replies] /\ \A r \in Requests : LoopAt(r)
    BY DEF TypeInv, TypeOK, LoopInv
  <2>1. ASSUME NEW r \in Requests, Arrive(r) PROVE LoopInv'
    <3>1. PICK eligible \in SUBSET Accounts :
            /\ cands' = [cands EXCEPT ![r] = eligible]
            /\ offered' = [offered EXCEPT ![r] = eligible]
            /\ \/ eligible # {} /\ pc' = [pc EXCEPT ![r] = "head"] /\ reply' = reply
               \/ /\ eligible = {} /\ pc' = [pc EXCEPT ![r] = "done"]
                  /\ \E what : reply' = [reply EXCEPT ![r] = what]
      <4>1. \A m, filter : filter \in Filters => EligibleAccounts(m, filter) \in SUBSET Accounts
        BY ConstantsOK DEF EligibleAccounts
      <4> QED
        BY <2>1, <4>1, Zenon DEF Arrive, GoTo, Reply
    <3>2. i' = i /\ i[r] = 0 /\ reply[r] = "none"
      BY <2>0, <2>1 DEF Arrive, LoopAt
    <3>3. cands'[r] = eligible /\ offered'[r] = eligible /\ Tried(r)' = {}
      BY <2>0, <3>1 DEF Tried
    <3>4. Cardinality(Tried(r)') = 0
      BY <3>3, FS_EmptySet
    <3>5. Cardinality(cands'[r]) \in Nat
      <4>1. IsFiniteSet(cands'[r])
        BY <3>3, ConstantsOK, FS_Subset
      <4> QED
        BY <4>1, FS_CardinalityType
    <3>6. CASE eligible # {}
      <4>1. pc'[r] = "head" /\ reply'[r] = "none"
        BY <2>0, <3>1, <3>2, <3>6
      <4>2. LoopAt(r)'
        BY <3>2, <3>3, <3>4, <3>5, <3>6, <4>1 DEF LoopAt, Working, Attempting
      <4> QED
        BY <2>0, <3>1, <3>2, <4>2, OneLoopMoves
    <3>7. CASE eligible = {}
      <4>1. pc'[r] = "done"
        BY <2>0, <3>1, <3>7
      <4>2. LoopAt(r)'
        BY <3>3, <3>7, <4>1 DEF LoopAt, Working, Attempting
      <4> QED
        BY <2>0, <3>1, <3>2, <4>2, OneLoopMoves
    <3> QED
      BY <3>6, <3>7
  <2>2. ASSUME NEW r \in Requests, Select(r) PROVE LoopInv'
    <3>1. PICK a \in cands[r] : cands' = [cands EXCEPT ![r] = @ \ {a}]
      BY <2>2 DEF Select, SelectAccount
    <3>2. PICK stop \in {"media", "count"} : pc' = [pc EXCEPT ![r] = stop]
      BY <2>2 DEF Select, GoTo
    <3>3. /\ pc[r] = "head" /\ i[r] < Cardinality(cands[r])
          /\ UNCHANGED <<i, offered, reply>>
      BY <2>2 DEF Select, ghosts
    <3>4. /\ cands[r] \subseteq offered[r] /\ offered[r] # {} /\ reply[r] = "none"
          /\ Cardinality(Tried(r)) = i[r] /\ i[r] \in Nat
      BY <2>0, <3>3 DEF LoopAt
    <3>5. /\ cands'[r] = cands[r] \ {a} /\ Tried(r)' = Tried(r) \cup {a} /\ a \notin Tried(r)
          /\ pc'[r] = stop /\ offered'[r] = offered[r]
      BY <2>0, <3>1, <3>2, <3>3, <3>4 DEF Tried
    <3>6. Cardinality(Tried(r)') = i[r] + 1
      <4>1. IsFiniteSet(Tried(r))
        BY <3>4, AccountSets
      <4>2. Cardinality(Tried(r) \cup {a}) = Cardinality(Tried(r)) + 1
        BY <3>5, <4>1, FS_AddElement
      <4> QED
        BY <3>4, <3>5, <4>2
    <3>7. Cardinality(cands'[r]) = Cardinality(cands[r]) - 1 /\ Cardinality(cands[r]) \in Nat
      BY <3>1, <3>4, <3>5, AccountSets, FS_RemoveElement
    <3>8. i'[r] <= Cardinality(cands'[r])
      BY <3>3, <3>4, <3>7
    <3>9. LoopAt(r)'
      BY <3>2, <3>3, <3>4, <3>5, <3>6, <3>8 DEF LoopAt, Working, Attempting
    <3> QED
      BY <2>0, <3>1, <3>2, <3>3, <3>9, OneLoopMoves
  <2>3. ASSUME NEW r \in Requests, GiveUp(r) PROVE LoopInv'
    <3>1. /\ pc[r] = "head" /\ ~(i[r] < Cardinality(cands[r]))
          /\ pc' = [pc EXCEPT ![r] = "done"] /\ UNCHANGED <<i, offered, cands>>
          /\ \E what : reply' = [reply EXCEPT ![r] = what]
      BY <2>3 DEF GiveUp, GoTo, Reply, ghosts
    <3>2. /\ cands[r] \subseteq offered[r] /\ Cardinality(Tried(r)) = i[r] /\ i[r] \in Nat
          /\ i[r] <= Cardinality(cands[r]) + 1
      BY <2>0, <3>1 DEF LoopAt
    <3>3. HalfAt(r)
      <4> DEFINE left == Cardinality(cands[r])
                 all == Cardinality(offered[r])
                 taken == i[r]
      <4>1. left \in Nat /\ taken \in Nat /\ all = taken + left
        BY <3>2, AccountSets
      <4>2. left <= taken /\ taken <= left + 1
        BY <3>1, <3>2, <4>1
      <4> HIDE DEF left, all, taken
      <4>3. taken = (all + 1) \div 2
        <5>1. taken = left \/ taken = left + 1
          BY <4>1, <4>2
        <5> QED
          BY <4>1, <5>1
      <4> QED
        BY <3>2, <4>3 DEF HalfAt, all, taken
    <3>4. HalfAt(r)' /\ pc'[r] = "done" /\ cands'[r] \subseteq offered'[r]
      BY <2>0, <3>1, <3>2, <3>3 DEF HalfAt, Tried
    <3>5. LoopAt(r)'
      BY <3>4 DEF LoopAt, Working, Attempting
    <3> QED
      BY <2>0, <3>1, <3>5, OneLoopMoves
  <2>4. ASSUME NEW r \in Requests, pc[r] \in Attempting, TryNext(r),
               UNCHANGED <<cands, offered, reply>>
        PROVE  LoopInv'
    <3>1. pc'[r] = "head" /\ i'[r] = i[r] + 1
      BY <2>0, <2>4 DEF TryNext, GoTo
    <3>2. LoopAt(r) /\ i[r] \in Nat /\ Cardinality(cands[r]) \in Nat
      BY <2>0, AccountSets DEF LoopAt
    <3>3. LoopAt(r)'
      BY <2>4, <3>1, <3>2 DEF LoopAt, Tried, Working, Attempting
    <3> QED
      BY <2>0, <2>4, <3>3, OneLoopMoves DEF TryNext, GoTo
  <2>5. ASSUME NEW r \in Requests, pc[r] \in Attempting, NEW stop \in Attempting, GoTo(r, stop),
               UNCHANGED <<i, cands, offered, reply>>
        PROVE  LoopInv'
    <3>1. pc'[r] = stop /\ LoopAt(r)
      BY <2>0, <2>5 DEF GoTo
    <3>2. LoopAt(r)'
      BY <2>5, <3>1 DEF LoopAt, Tried, Working, Attempting
    <3> QED
      BY <2>0, <2>5, <3>2, OneLoopMoves DEF GoTo
  <2>6. ASSUME NEW r \in Requests, pc[r] \in Attempting, NEW what \in {"answer", "aborted"},
               GoTo(r, "done"), Reply(r, what), UNCHANGED <<i, cands, offered>>
        PROVE  LoopInv'
    <3>1. pc'[r] = "done" /\ reply'[r] = what /\ LoopAt(r)
      BY <2>0, <2>6 DEF GoTo, Reply
    <3>2. LoopAt(r)'
      BY <2>6, <3>1 DEF LoopAt, Tried, Working, Attempting
    <3> QED
      BY <2>0, <2>6, <3>2, OneLoopMoves DEF GoTo, Reply
  <2>7. ASSUME NEW r \in Requests, NEW streaming \in BOOLEAN, NEW whole \in BOOLEAN,
               NEW parsed \in BOOLEAN, Answered(r, streaming, whole, parsed)
        PROVE  LoopInv'
    <3>1. PICK what \in {"answer", "cut_answer"} : Reply(r, what)
      BY <2>7 DEF Answered
    <3>2. pc[r] = "upstream" /\ GoTo(r, "streaming") /\ UNCHANGED <<i, cands, offered>>
      BY <2>7 DEF Answered, ghosts
    <3>3. pc'[r] = "streaming" /\ reply'[r] = what /\ LoopAt(r)
      BY <2>0, <3>1, <3>2 DEF GoTo, Reply
    <3>4. LoopAt(r)'
      BY <3>2, <3>3 DEF LoopAt, Tried, Working, Attempting
    <3> QED
      BY <2>0, <3>1, <3>2, <3>4, OneLoopMoves DEF GoTo, Reply
  <2>8. ASSUME NEW r \in Requests, Streamed(r) PROVE LoopInv'
    <3>1. pc[r] = "streaming" /\ GoTo(r, "done") /\ UNCHANGED <<i, cands, offered, reply>>
      BY <2>8 DEF Streamed, locals, ghosts
    <3>2. pc'[r] = "done" /\ LoopAt(r)
      BY <2>0, <3>1 DEF GoTo
    <3>3. LoopAt(r)'
      BY <3>1, <3>2 DEF LoopAt, Tried, Working, Attempting
    <3> QED
      BY <2>0, <3>1, <3>3, OneLoopMoves DEF GoTo
  <2>9. ASSUME NEW r \in Requests,
               \/ MediaFailed(r) \/ ReserveRefused(r) \/ BadTarget(r) \/ TransportError(r)
               \/ CoolThrottled(r) \/ Refused(r) \/ CoolCredit(r) \/ ModelGone(r)
        PROVE  LoopInv'
    BY <2>4, <2>9 DEF MediaFailed, ReserveRefused, BadTarget, TransportError, CoolThrottled,
       Refused, CoolCredit, ModelGone, ghosts, Working, Attempting
  <2>10. ASSUME NEW r \in Requests,
                \/ NoMediaAdapter(r) \/ ReserveCount(r) \/ ReserveRecord(r)
                \/ Throttled(r) \/ OutOfCredit(r)
         PROVE  LoopInv'
    BY <2>5, <2>10 DEF NoMediaAdapter, ReserveCount, ReserveRecord, Throttled, OutOfCredit,
       locals, ghosts, Working, Attempting
  <2>11. ASSUME NEW r \in Requests, MediaAnswered(r) \/ StrikeLost(r) PROVE LoopInv'
    BY <2>6, <2>11 DEF MediaAnswered, StrikeLost, ghosts, Working, Attempting
  <2>12. ASSUME UNCHANGED <<pc, i, cands, offered, reply>> PROVE LoopInv'
    BY <2>12 DEF LoopInv, LoopAt, Tried, HalfAt
  <2>13. CASE Tick \/ (\E a \in Accounts : EvictWindow(a)) \/ UNCHANGED vars
    BY <2>12, <2>13 DEF Tick, EvictWindow, vars, locals, ghosts
  <2> QED
    BY <2>1, <2>2, <2>3, <2>7, <2>8, <2>9, <2>10, <2>11, <2>13 DEF Next, Step
<1> QED
  BY <1>1, <1>2, TypeCorrect, PTL DEF Spec

\* A request given up has tried exactly the larger half of its candidates.
THEOREM HalfIsTried == Spec => []HalfTried
<1>1. LoopInv => HalfTried
  BY DEF LoopInv, LoopAt, HalfTried, HalfAt, Tried
<1> QED
  BY <1>1, LoopInvHolds, PTL

\* Cardinality means the same in the module Failover instantiates.
LEMMA SameCardinality == \A S : Promise!Cardinality(S) = Cardinality(S)
BY DEF Promise!Cardinality, Cardinality

\* The loop implements module Failover: every step of it is one of the steps
\* promised to a request, or leaves what the promise speaks of alone.
THEOREM LoopKeepsPromise == Spec => KeepsPromise
<1>1. Init => Promise!Init
  BY DEF Init, Promise!Init
<1>2. TypeInv /\ LoopInv /\ [Next]_vars => [Promise!Next]_(Promise!vars)
  <2> SUFFICES ASSUME TypeInv, LoopInv, [Next]_vars PROVE [Promise!Next]_(Promise!vars)
    OBVIOUS
  <2>0. /\ cands \in [Requests -> SUBSET Accounts] /\ i \in [Requests -> Nat]
        /\ lastAuth \in [Requests -> BOOLEAN] /\ \A r \in Requests : LoopAt(r)
    BY DEF TypeInv, TypeOK, LoopInv
  <2>1. ASSUME NEW r \in Requests, Arrive(r) PROVE Promise!Next
    <3>1. PICK eligible \in SUBSET Accounts :
            /\ cands' = [cands EXCEPT ![r] = eligible]
            /\ offered' = [offered EXCEPT ![r] = eligible]
            /\ \/ eligible # {} /\ reply' = reply
               \/ /\ eligible = {}
                  /\ \/ reply' = [reply EXCEPT ![r] = "unknown_model"]
                     \/ reply' = [reply EXCEPT ![r] = "no_account"]
      <4>1. \A m, filter : filter \in Filters => EligibleAccounts(m, filter) \in SUBSET Accounts
        BY ConstantsOK DEF EligibleAccounts
      <4> QED
        BY <2>1, <4>1, Zenon DEF Arrive, Reply
    <3>2. offered[r] = {} /\ cands[r] = {} /\ reply[r] = "none" /\ UNCHANGED lastAuth
      BY <2>0, <2>1 DEF Arrive, LoopAt
    <3>3. CASE eligible # {}
      <4>1. Promise!Open(r, eligible)
        BY <3>1, <3>2, <3>3 DEF Promise!Open, Promise!Pending
      <4> QED
        BY <4>1, Zenon DEF Promise!Next
    <3>4. CASE eligible = {}
      <4>1. UNCHANGED <<cands, offered>>
        BY <2>0, <3>1, <3>2, <3>4 DEF TypeInv, TypeOK
      <4>2. Promise!TurnAway(r)
        BY <3>1, <3>2, <3>4, <4>1 DEF Promise!TurnAway, Promise!Pending
      <4> QED
        BY <4>2, Zenon DEF Promise!Next
    <3> QED
      BY <3>3, <3>4
  <2>2. ASSUME NEW r \in Requests, Select(r) PROVE Promise!Next
    <3>1. PICK a \in cands[r] : cands' = [cands EXCEPT ![r] = @ \ {a}]
      BY <2>2 DEF Select, SelectAccount
    <3>2. a \in Accounts /\ reply[r] = "none" /\ UNCHANGED <<offered, lastAuth, reply>>
      BY <2>0, <2>2 DEF Select, LoopAt, ghosts
    <3>3. Promise!Take(r, a)
      BY <3>1, <3>2 DEF Promise!Take, Promise!Pending
    <3> QED
      BY <3>2, <3>3, Zenon DEF Promise!Next
  <2>3. ASSUME NEW r \in Requests, GiveUp(r) PROVE Promise!Next
    <3>1. /\ pc[r] = "head" /\ ~(i[r] < Cardinality(cands[r]))
          /\ reply' = [reply EXCEPT ![r] = IF lastAuth[r] THEN "auth" ELSE "no_account"]
          /\ UNCHANGED <<offered, cands, lastAuth>>
      BY <2>3 DEF GiveUp, Reply, ghosts
    <3>2. /\ reply[r] = "none" /\ offered[r] # {} /\ cands[r] \subseteq offered[r]
          /\ Cardinality(Tried(r)) = i[r] /\ i[r] \in Nat
      BY <2>0, <3>1 DEF LoopAt
    <3>3. Cardinality(offered[r] \ cands[r]) >= Cardinality(cands[r])
      BY <3>1, <3>2, AccountSets DEF Tried
    <3>4. Promise!GiveUp(r)
      <4>1. Promise!Taken(r) = offered[r] \ cands[r]
        BY DEF Promise!Taken
      <4>2. Promise!Pending(r) /\ offered[r] # {}
        BY <3>2 DEF Promise!Pending
      <4>3. Promise!Cardinality(Promise!Taken(r)) >= Promise!Cardinality(cands[r])
        BY <3>3, <4>1, SameCardinality
      <4>4. UNCHANGED <<offered, cands, lastAuth>>
        BY <3>1
      <4> QED
        BY <3>1, <4>2, <4>3, <4>4, Zenon DEF Promise!GiveUp
    <3> QED
      BY <3>4, Zenon DEF Promise!Next
  <2>4. ASSUME NEW r \in Requests, Refused(r) PROVE Promise!Next
    <3>1. /\ pc[r] = "upstream" /\ lastAuth' = [lastAuth EXCEPT ![r] = TRUE]
          /\ UNCHANGED <<offered, cands, reply>>
      BY <2>4 DEF Refused
    <3>2. reply[r] = "none" /\ Tried(r) # {}
      BY <2>0, <3>1 DEF LoopAt, Working, Attempting
    <3>3. Promise!Refuse(r)
      BY <3>1, <3>2 DEF Promise!Refuse, Promise!Pending, Promise!Taken, Tried
    <3> QED
      BY <3>3, Zenon DEF Promise!Next
  <2>5. ASSUME NEW r \in Requests, pc[r] \in Attempting,
               NEW what \in {"answer", "cut_answer", "aborted"}, Reply(r, what),
               UNCHANGED <<offered, cands, lastAuth>>
        PROVE  Promise!Next
    <3>1. reply[r] = "none" /\ Tried(r) # {}
      BY <2>0, <2>5 DEF LoopAt, Working, Attempting
    <3>2. Promise!Answer(r)
      BY <2>5, <3>1 DEF Reply, Promise!Answer, Promise!Pending, Promise!Taken, Tried
    <3> QED
      BY <3>2, Zenon DEF Promise!Next
  <2>6. ASSUME NEW r \in Requests, MediaAnswered(r) \/ StrikeLost(r) PROVE Promise!Next
    <3>1. pc[r] \in Attempting /\ (Reply(r, "answer") \/ Reply(r, "aborted"))
      BY <2>6 DEF MediaAnswered, StrikeLost, Working, Attempting
    <3>2. UNCHANGED <<offered, cands, lastAuth>>
      BY <2>6 DEF MediaAnswered, StrikeLost, ghosts
    <3> QED
      BY <2>5, <3>1, <3>2
  <2>7. ASSUME NEW r \in Requests, NEW streaming \in BOOLEAN, NEW whole \in BOOLEAN,
               NEW parsed \in BOOLEAN, Answered(r, streaming, whole, parsed)
        PROVE  Promise!Next
    <3>1. pc[r] \in Attempting /\ (Reply(r, "answer") \/ Reply(r, "cut_answer"))
      BY <2>7 DEF Answered, Working, Attempting
    <3>2. UNCHANGED <<offered, cands, lastAuth>>
      BY <2>7 DEF Answered, ghosts
    <3> QED
      BY <2>5, <3>1, <3>2
  <2>8. ASSUME NEW r \in Requests,
               \/ MediaFailed(r) \/ NoMediaAdapter(r) \/ ReserveCount(r) \/ ReserveRefused(r)
               \/ ReserveRecord(r) \/ BadTarget(r) \/ TransportError(r) \/ Throttled(r)
               \/ CoolThrottled(r) \/ OutOfCredit(r) \/ CoolCredit(r) \/ ModelGone(r)
               \/ Streamed(r)
        PROVE  UNCHANGED Promise!vars
    BY <2>8 DEF MediaFailed, NoMediaAdapter, ReserveCount, ReserveRefused, ReserveRecord,
       BadTarget, TransportError, Throttled, CoolThrottled, OutOfCredit, CoolCredit, ModelGone,
       Streamed, locals, ghosts, Promise!vars
  <2>9. CASE Tick \/ (\E a \in Accounts : EvictWindow(a)) \/ UNCHANGED vars
    BY <2>9 DEF Tick, EvictWindow, vars, locals, ghosts, Promise!vars
  <2> QED
    BY <2>1, <2>2, <2>3, <2>4, <2>6, <2>7, <2>8, <2>9 DEF Next, Step
<1> QED
  BY <1>1, <1>2, TypeCorrect, LoopInvHolds, PTL DEF Spec, KeepsPromise, Promise!Spec

-----------------------------------------------------------------------------
(* The types that TLC checks. *)

\* Whatever upstreams answer and Valkey loses, the state of the loop keeps to the
\* values its Go counterpart can take.
THEOREM TypesHold == Spec => []TypeOK
<1>1. TypeInv => TypeOK
  BY DEF TypeInv
<1> QED
  BY <1>1, TypeCorrect, PTL

-----------------------------------------------------------------------------
(* The allowance that survives the loss of a window. *)

HistoryFinite == IsFiniteSet(history)

\* request_history gains one row at a time.
LEMMA HistoryStaysFinite == Spec => []HistoryFinite
<1>1. Init => HistoryFinite
  BY FS_EmptySet DEF Init, HistoryFinite
<1>2. HistoryFinite /\ [Next]_vars => HistoryFinite'
  <2> SUFFICES ASSUME HistoryFinite, [Next]_vars PROVE HistoryFinite'
    OBVIOUS
  <2>1. (\E row : history' = history \cup {row}) => HistoryFinite'
    BY FS_AddElement DEF HistoryFinite
  <2>2. history' = history => HistoryFinite'
    BY DEF HistoryFinite
  <2>3. ASSUME NEW r \in Requests, NEW streaming \in BOOLEAN, NEW whole \in BOOLEAN,
               NEW parsed \in BOOLEAN, Answered(r, streaming, whole, parsed)
        PROVE  HistoryFinite'
    BY <2>1, <2>2, <2>3 DEF Answered, RecordUsage
  <2>4. ASSUME NEW r \in Requests, MediaAnswered(r) \/ CoolCredit(r) \/ Streamed(r)
        PROVE  HistoryFinite'
    BY <2>1, <2>4 DEF MediaAnswered, CoolCredit, Streamed, RecordUsage
  <2>5. ASSUME NEW r \in Requests,
               \/ Arrive(r) \/ Select(r) \/ GiveUp(r) \/ MediaFailed(r) \/ NoMediaAdapter(r)
               \/ ReserveCount(r) \/ ReserveRefused(r) \/ ReserveRecord(r) \/ BadTarget(r)
               \/ TransportError(r) \/ Throttled(r) \/ CoolThrottled(r) \/ Refused(r)
               \/ OutOfCredit(r) \/ StrikeLost(r) \/ ModelGone(r)
        PROVE  HistoryFinite'
    BY <2>2, <2>5 DEF Arrive, Select, GiveUp, MediaFailed, NoMediaAdapter, ReserveCount,
       ReserveRefused, ReserveRecord, BadTarget, TransportError, Throttled, CoolThrottled,
       Refused, OutOfCredit, StrikeLost, ModelGone, shared
  <2>6. CASE Tick \/ (\E a \in Accounts : EvictWindow(a)) \/ UNCHANGED vars
    BY <2>2, <2>6 DEF Tick, EvictWindow, vars, shared
  <2> QED
    BY <2>3, <2>4, <2>5, <2>6 DEF Next, Step
<1> QED
  BY <1>1, <1>2, PTL DEF Spec

\* A request that finished on an account has a row of its own.
LEMMA FinishedAreRows ==
  ASSUME HistoryFinite, NEW a \in Accounts, NEW w \in Windows
  PROVE  /\ Cardinality(FinishedIn(a, w)) \in Nat /\ Cardinality(Durable(a, w)) \in Nat
         /\ Cardinality(FinishedIn(a, w)) <= Cardinality(Durable(a, w))
<1> DEFINE By == [row \in Durable(a, w) |-> row.by]
           Authors == {By[row] : row \in Durable(a, w)}
<1>1. IsFiniteSet(Durable(a, w)) /\ Cardinality(Durable(a, w)) \in Nat
  BY FS_Subset, FS_CardinalityType DEF HistoryFinite, Durable
<1>2. /\ IsFiniteSet(Authors) /\ Cardinality(Authors) \in Nat
      /\ Cardinality(Authors) <= Cardinality(Durable(a, w))
  <2>1. By \in Surjection(Durable(a, w), Authors)
    BY DEF Surjection
  <2> QED
    BY <1>1, <2>1, FS_Surjection, FS_CardinalityType
<1>3. FinishedIn(a, w) \subseteq Authors
  BY DEF FinishedIn, Durable
<1>4. /\ Cardinality(FinishedIn(a, w)) \in Nat
      /\ Cardinality(FinishedIn(a, w)) <= Cardinality(Authors)
  BY <1>2, <1>3, FS_Subset, FS_CardinalityType
<1> QED
  BY <1>1, <1>2, <1>4

\* No account whose finished answers fill a window is offered to a new request,
\* whatever Valkey has lost.
THEOREM AllowanceKept == Spec => AllowanceSurvives
<1> DEFINE Respected == \A r \in Requests : pc[r] = "idle" /\ pc'[r] = "head" =>
             \A a \in offered'[r], w \in Windows :
               ~AtThreshold(Cardinality(FinishedIn(a, w)), Limit[a][w])
<1>1. TypeInv /\ HistoryFinite /\ [Next]_vars => [Respected]_vars
  <2> SUFFICES ASSUME TypeInv, HistoryFinite, [Next]_vars,
                      NEW r \in Requests, pc[r] = "idle", pc'[r] = "head",
                      NEW a \in offered'[r], NEW w \in Windows
               PROVE  ~AtThreshold(Cardinality(FinishedIn(a, w)), Limit[a][w])
    BY Zenon
  <2>1. Arrive(r)
    <3>1. pc \in [Requests -> Stops]
      BY DEF TypeInv, TypeOK
    <3>2. ASSUME NEW q \in Requests, Step(q) PROVE pc'[r] = "idle"
      <4>1. pc[q] # "idle"
        BY <3>2 DEF Step, Select, GiveUp, MediaAnswered, MediaFailed, NoMediaAdapter, ReserveCount,
           ReserveRefused, ReserveRecord, BadTarget, TransportError, Throttled, CoolThrottled,
           Refused, OutOfCredit, CoolCredit, StrikeLost, ModelGone, Answered, Streamed
      <4>2. \E stop : pc' = [pc EXCEPT ![q] = stop]
        BY <3>2 DEF Step, Select, GiveUp, MediaAnswered, MediaFailed, NoMediaAdapter, ReserveCount,
           ReserveRefused, ReserveRecord, BadTarget, TransportError, Throttled, CoolThrottled,
           Refused, OutOfCredit, CoolCredit, StrikeLost, ModelGone, Answered, Streamed, TryNext, GoTo
      <4> QED
        BY <3>1, <4>1, <4>2
    <3>3. ASSUME NEW q \in Requests, Arrive(q), q # r PROVE pc'[r] = "idle"
      <4>1. \E stop : pc' = [pc EXCEPT ![q] = stop]
        BY <3>3 DEF Arrive, GoTo
      <4> QED
        BY <3>1, <3>3, <4>1
    <3>4. CASE Tick \/ (\E b \in Accounts : EvictWindow(b)) \/ UNCHANGED vars
      BY <3>4 DEF Tick, EvictWindow, vars
    <3> QED
      BY <3>2, <3>3, <3>4 DEF Next
  <2>2. a \in Accounts /\ HasCapacity(a)
    <3>1. offered \in [Requests -> SUBSET Accounts]
      BY DEF TypeInv, TypeOK
    <3>2. PICK m \in Models \cup {NoModel}, filter \in Filters, media \in BOOLEAN :
            offered' = [offered EXCEPT ![r] = EligibleAccounts(m, filter)]
      BY <2>1, Zenon DEF Arrive
    <3> QED
      BY <3>1, <3>2, ConstantsOK DEF EligibleAccounts
  <2>3. ~AtThreshold(WindowCount(a, w), Limit[a][w])
    BY <2>2 DEF HasCapacity
  <2>4. /\ WindowCount(a, w) \in Nat
        /\ WindowCount(a, w) >= Cardinality(Durable(a, w))
    <3>1. Cardinality(Reserved(a, w, now)) \in Nat
      BY <2>2, ReservedFinite DEF TypeInv, TypeOK
    <3> QED
      BY <2>2, <3>1, FinishedAreRows DEF WindowCount, Larger
  <2>5. Cardinality(FinishedIn(a, w)) <= WindowCount(a, w) /\ Cardinality(FinishedIn(a, w)) \in Nat
    BY <2>2, <2>4, FinishedAreRows
  <2>6. Limit[a][w] \in Nat
    BY <2>2, ConstantsOK
  <2> QED
    BY <2>3, <2>4, <2>5, <2>6, BelowThreshold
<1> QED
  BY <1>1, TypeCorrect, HistoryStaysFinite, PTL DEF Spec, AllowanceSurvives

-----------------------------------------------------------------------------
(* The workbench: lists of messages. *)

\* The places of some messages, counted from the first: each has its own count, and every
\* count up to their number is some place's.
LEMMA Ranks ==
  ASSUME NEW n \in Nat, NEW S \in SUBSET (1 .. n)
  PROVE  /\ IsFiniteSet(S) /\ Cardinality(S) \in Nat
         /\ \A x \in S : Cardinality({j \in S : j <= x}) \in 1 .. Cardinality(S)
         /\ \A x, k \in S :
              Cardinality({j \in S : j <= x}) = Cardinality({j \in S : j <= k}) => x = k
         /\ \A c \in 1 .. Cardinality(S) : \E x \in S : Cardinality({j \in S : j <= x}) = c
<1> DEFINE Below(x) == {j \in S : j <= x}
           Rank(x)  == Cardinality(Below(x))
           size     == Cardinality(S)
<1>0. \A x \in S : x \in Int
  OBVIOUS
<1>1. IsFiniteSet(S) /\ size \in Nat
  <2>1. IsFiniteSet(1 .. n)
    BY FS_Interval
  <2> QED
    BY <2>1, FS_Subset, FS_CardinalityType
<1>2. ASSUME NEW x \in S PROVE IsFiniteSet(Below(x)) /\ Rank(x) \in Nat /\ Rank(x) <= size
  <2>1. Below(x) \in SUBSET S
    OBVIOUS
  <2> QED
    BY <1>1, <2>1, FS_Subset, FS_CardinalityType
<1>3. \A x \in S : Rank(x) # 0
  <2> TAKE x \in S
  <2>1. x \in Below(x)
    BY <1>0
  <2> QED
    BY <2>1, <1>2, FS_EmptySet
<1>4. \A x, k \in S : x <= k /\ Rank(x) = Rank(k) => x = k
  <2> SUFFICES ASSUME NEW x \in S, NEW k \in S, x <= k, Rank(x) = Rank(k) PROVE x = k
    OBVIOUS
  <2>1. Below(x) \in SUBSET Below(k) /\ k \in Below(k)
    <3>1. \A j \in S : j <= x => j <= k
      BY <1>0
    <3>2. Below(x) \subseteq Below(k)
      BY <3>1
    <3>3. k \in Below(k)
      BY <1>0
    <3> QED
      BY <3>2, <3>3
  <2>2. IsFiniteSet(Below(k))
    BY <1>2
  <2>3. Below(x) = Below(k)
    BY <2>1, <2>2, FS_Subset
  <2> QED
    BY <1>0, <2>1, <2>3
<1>5. \A x, k \in S : Rank(x) = Rank(k) => x = k
  <2> HIDE DEF Rank
  <2> QED
    BY <1>0, <1>4
<1>6. \A x \in S : Rank(x) \in 1 .. size
  <2> HIDE DEF Rank, Below, size
  <2> QED
    BY <1>1, <1>2, <1>3
<1>7. \A c \in 1 .. size : \E x \in S : Rank(x) = c
  <2> DEFINE f == [x \in S |-> Rank(x)]
  <2> HIDE DEF Rank, size
  <2>1. f \in [S -> 1 .. size] /\ \A x \in S : f[x] = Rank(x)
    BY <1>6
  <2>2. f \in Injection(S, 1 .. size)
    BY <2>1, <1>5 DEF Injection, IsInjective
  <2>3. IsFiniteSet(1 .. size) /\ Cardinality(1 .. size) = size
    BY <1>1, FS_Interval
  <2>4. f \in Surjection(S, 1 .. size)
    BY <2>2, <2>3, FS_Injection DEF size
  <2> QED
    BY <2>1, <2>4 DEF Surjection
<1> QED
  BY <1>1, <1>5, <1>6, <1>7

\* What is left of a list are the messages at the places that are kept.
LEMMA KeptMessages ==
  ASSUME NEW M, NEW list \in Seq(M), NEW places \in SUBSET DOMAIN list
  PROVE  /\ Kept(list, places) \in Seq(M)
         /\ \A x \in places : \E k \in DOMAIN Kept(list, places) : Kept(list, places)[k] = list[x]
         /\ \A k \in DOMAIN Kept(list, places) : \E x \in places : Kept(list, places)[k] = list[x]
<1> DEFINE Rank(x) == Cardinality({j \in places : j <= x})
           size    == Cardinality(places)
           rest    == Kept(list, places)
<1>1. Len(list) \in Nat /\ DOMAIN list = 1 .. Len(list) /\ \A x \in DOMAIN list : list[x] \in M
  OBVIOUS
<1>2. /\ size \in Nat /\ \A x \in places : Rank(x) \in 1 .. size
      /\ \A x, k \in places : Rank(x) = Rank(k) => x = k
      /\ \A c \in 1 .. size : \E x \in places : Rank(x) = c
  BY <1>1, Ranks
<1>3. rest = [k \in 1 .. size |-> list[CHOOSE x \in places : Rank(x) = k]]
  BY DEF Kept
<1> HIDE DEF Rank, size, rest
<1>4. \A k \in 1 .. size : \E x \in places : Rank(x) = k /\ rest[k] = list[x]
  BY <1>2, <1>3
<1>5. rest \in Seq(M) /\ DOMAIN rest = 1 .. size
  <2>1. \A k \in 1 .. size : rest[k] \in M
    BY <1>1, <1>4
  <2> QED
    BY <1>2, <1>3, <2>1, IsASeq
<1>6. \A x \in places : rest[Rank(x)] = list[x]
  BY <1>2, <1>4
<1> QED
  BY <1>2, <1>4, <1>5, <1>6 DEF rest

\* The last question of a list that has one is one of its questions.
LEMMA LastQuestionAsked ==
  ASSUME NEW M, NEW list \in Seq(M), \E x \in DOMAIN list : list[x].role = "user"
  PROVE  \E x \in DOMAIN list : list[x].role = "user" /\ LastQuestion(list) = list[x].run
<1> DEFINE asked == {x \in DOMAIN list : list[x].role = "user"}
           Below(x) == {j \in asked : j <= x}
<1>1. asked \in SUBSET (1 .. Len(list)) /\ Len(list) \in Nat /\ asked # {}
  OBVIOUS
<1>2. /\ IsFiniteSet(asked) /\ Cardinality(asked) \in Nat
      /\ \A c \in 1 .. Cardinality(asked) : \E x \in asked : Cardinality(Below(x)) = c
  BY <1>1, Ranks
<1>3. Cardinality(asked) # 0
  BY <1>1, <1>2, FS_EmptySet
<1> DEFINE size == Cardinality(asked)
<1>4. PICK x \in asked : Cardinality(Below(x)) = size
  <2> HIDE DEF size
  <2>1. size \in 1 .. size
    BY <1>2, <1>3 DEF size
  <2> QED
    BY <1>2, <2>1 DEF size
<1>5. Below(x) = asked
  BY <1>2, <1>4, FS_Subset
<1>6. \A j \in asked : x >= j
  BY <1>1, <1>5
<1>7. Max(asked) \in asked
  BY <1>6 DEF Max
<1> QED
  BY <1>1, <1>7 DEF LastQuestion

-----------------------------------------------------------------------------
(* The workbench: types. *)

Began      == {r \in Runs : page[r] # "none"}
Message(R) == {m \in [id : {"user", "row", "streaming-assistant"}, role : {"user", "assistant"},
                      run : R, size : Nat] :
                 (m.id = "streaming-assistant" => m.role = "assistant") /\ (m.id = "user" => m.role = "user")}
RowOf(R)   == [role : {"user", "assistant"}, run : R]
HeldOf(R)  == [why : {"none", "load", "rate"}, list : Seq(Message(R)), stale : BOOLEAN]

Serving == {"question", "gateway", "relay", "save", "rescue", "audit", "audit again"}
Served  == {"closed", "refused", "hung"}

\* Messages and rows are about runs that have begun.
Lists     == shown \in Seq(Message(Began)) /\ held \in HeldOf(Began) /\ db \in Seq(RowOf(Began))
PageTypes == /\ page \in [Runs -> {"none", "waiting", "done", "failed"}] /\ seen \in [Runs -> Nat]
             /\ question \in [Runs -> Runs \cup {NoRun}] /\ crossed \in BOOLEAN
Services  == /\ server \in [Runs -> Serving \cup Served \cup {"none"}] /\ content \in [Runs -> Nat]
             /\ trouble \in Nat

\* What the page and the handler have of one run.
OfOneRun(r) ==
  /\ page[r] = "none" <=> server[r] = "none"
  /\ page[r] = "none" => seen[r] = 0
  /\ server[r] \in {"none", "question", "gateway"} => content[r] = 0
  /\ page[r] # "none" => question[r] \in Began
  /\ seen[r] <= content[r]
  /\ page[r] \in {"done", "failed"} => server[r] \in Served /\ seen[r] = content[r]
  /\ page[r] = "done" => server[r] = "closed"

BenchInv == Lists /\ PageTypes /\ Services /\ \A r \in Runs : OfOneRun(r)

\* A list stays one when runs begin.
LEMMA ListsLast ==
  ASSUME NEW R, NEW S, R \subseteq S
  PROVE  /\ Seq(Message(R)) \subseteq Seq(Message(S)) /\ Seq(RowOf(R)) \subseteq Seq(RowOf(S))
         /\ HeldOf(R) \subseteq HeldOf(S)
<1>1. Message(R) \subseteq Message(S) /\ RowOf(R) \subseteq RowOf(S)
  BY DEF Message, RowOf
<1>2. Seq(Message(R)) \subseteq Seq(Message(S)) /\ Seq(RowOf(R)) \subseteq Seq(RowOf(S))
  BY <1>1, SeqMonotonic
<1> QED
  BY <1>2 DEF HeldOf

\* The handler goes on, or has ended.
LEMMA HandlerGoesOn ==
  ASSUME BenchInv, NEW r \in Runs, NEW stop \in Serving \cup Served, Reaches(r, stop),
         server[r] \in Serving, stop \in {"question", "gateway"} => content[r] = 0,
         UNCHANGED <<client, content, held, crossed>>,
         db' \in {db, Append(db, MessageRow("user", question[r])), Append(db, MessageRow("assistant", r))},
         trouble' \in {trouble, trouble + 1}
  PROVE  BenchInv'
<1>1. page[r] = "waiting" /\ r \in Began /\ question[r] \in Began
  <2>1. OfOneRun(r)
    BY DEF BenchInv
  <2> QED
    BY <2>1 DEF BenchInv, PageTypes, OfOneRun, Serving, Served, Began
<1>2. Began' = Began
  BY DEF client, Began
<1>3. db' \in Seq(RowOf(Began))
  <2>1. MessageRow("user", question[r]) \in RowOf(Began) /\ MessageRow("assistant", r) \in RowOf(Began)
    BY <1>1 DEF MessageRow, RowOf
  <2> QED
    BY <2>1, AppendProperties DEF BenchInv, Lists
<1>4. Lists'
  BY <1>2, <1>3 DEF client, BenchInv, Lists
<1>5. PageTypes' /\ Services'
  BY DEF Reaches, client, BenchInv, PageTypes, Services
<1>6. ASSUME NEW s \in Runs PROVE OfOneRun(s)'
  <2>1. OfOneRun(s)
    BY DEF BenchInv
  <2>2. server'[s] = IF s = r THEN stop ELSE server[s]
    BY DEF Reaches, BenchInv, Services
  <2> QED
    BY <1>1, <1>2, <2>1, <2>2 DEF OfOneRun, client, Serving, Served
<1> QED
  BY <1>4, <1>5, <1>6 DEF BenchInv

LEMMA ServeTypes ==
  ASSUME BenchInv, NEW r \in Runs, Serve(r)
  PROVE  BenchInv'
<1>0. UNCHANGED <<client, content, held, crossed>>
  BY DEF Serve, StoreQuestion, AskGateway, GatewayEnds, SaveAnswer, AuditAnswer, runHistory
<1>1. CASE StoreQuestion(r)
  <2>1. OfOneRun(r)
    BY DEF BenchInv
  <2> QED
    BY <1>0, <1>1, <2>1, HandlerGoesOn DEF StoreQuestion, Fails, At, Serving, Served, OfOneRun
<1>2. CASE AskGateway(r)
  BY <1>0, <1>2, HandlerGoesOn DEF AskGateway, At, Serving, Served
<1>3. CASE GatewayEnds(r)
  BY <1>0, <1>3, HandlerGoesOn DEF GatewayEnds, At, Serving, Served
<1>4. CASE SaveAnswer(r)
  BY <1>0, <1>4, HandlerGoesOn DEF SaveAnswer, Fails, At, Serving, Served
<1>5. CASE AuditAnswer(r)
  BY <1>0, <1>5, HandlerGoesOn DEF AuditAnswer, Fails, At, Serving, Served
<1> QED
  BY <1>1, <1>2, <1>3, <1>4, <1>5 DEF Serve


\* A chunk makes the list end with a bubble of its run: the one that was there, or a new one.
LEMMA ChunkShown ==
  ASSUME BenchInv, NEW r \in Runs, ReadChunk(r)
  PROVE  /\ shown' \in Seq(Message(Began)) /\ shown' # <<>>
         /\ Last(shown') \in Message(Began) /\ Last(shown').id = "streaming-assistant"
         /\ Last(shown').run = r /\ Last(shown').size = seen[r] + 1 /\ seen'[r] = seen[r] + 1
         /\ \A x \in DOMAIN shown :
              /\ x \in DOMAIN shown'
              /\ shown'[x] = shown[x] \/ (shown[x] = Last(shown) /\ shown[x].id = "streaming-assistant")
<1>1. /\ page[r] = "waiting" /\ r \in Began /\ seen'[r] = seen[r] + 1 /\ seen[r] + 1 \in Nat
  BY DEF ReadChunk, BenchInv, PageTypes, Began
<1> DEFINE n == seen'[r]
           M == Message(Began)
<1>2. shown \in Seq(M) /\ n \in Nat /\ n = seen[r] + 1
  BY <1>1 DEF BenchInv, Lists
<1>3. CASE shown # <<>> /\ Last(shown).id = "streaming-assistant"
  <2> DEFINE old == Last(shown)
             new == [old EXCEPT !.run = r, !.size = n]
  <2>1. shown' = [shown EXCEPT ![Len(shown)] = new]
    BY <1>3 DEF ReadChunk, UpdateStreaming, Changes, Last
  <2>2. Len(shown) \in DOMAIN shown /\ old \in M /\ old.id = "streaming-assistant"
    BY <1>2, <1>3 DEF Last
  <2>3. new \in M /\ new.id = "streaming-assistant" /\ new.run = r /\ new.size = n
    BY <1>1, <1>2, <2>2 DEF Message
  <2> HIDE DEF old, new, n, M
  <2>4. shown' \in Seq(M) /\ Len(shown') = Len(shown) /\ shown' # <<>> /\ shown'[Len(shown)] = new
    BY <1>2, <1>3, <2>1, <2>2, <2>3, ExceptSeq
  <2>5. \A x \in DOMAIN shown : x \in DOMAIN shown' /\ (shown'[x] = shown[x] \/ x = Len(shown))
    BY <1>2, <2>1
  <2> QED
    BY <1>1, <1>2, <2>2, <2>3, <2>4, <2>5 DEF Last, old, M, n
<1>4. CASE ~(shown # <<>> /\ Last(shown).id = "streaming-assistant")
  <2> DEFINE new == Bubble(r, n)
  <2>1. shown' = Append(shown, new)
    BY <1>4 DEF ReadChunk, UpdateStreaming, Changes
  <2>2. new \in M /\ new.id = "streaming-assistant" /\ new.run = r /\ new.size = n
    BY <1>1, <1>2 DEF Message, Bubble
  <2> HIDE DEF new, n, M
  <2>3. /\ shown' \in Seq(M) /\ Len(shown') = Len(shown) + 1 /\ shown'[Len(shown)+1] = new
        /\ \A x \in DOMAIN shown : x \in DOMAIN shown' /\ shown'[x] = shown[x]
    BY <1>2, <2>1, <2>2, AppendProperties
  <2>4. shown' # <<>>
    BY <1>2, <2>3
  <2> QED
    BY <1>1, <1>2, <2>2, <2>3, <2>4 DEF Last, M, n
<1> QED
  BY <1>3, <1>4

\* A run begins, and the page's list is left or replaced.
LEMMA StartTypes ==
  ASSUME BenchInv, NEW r \in Runs, NEW q \in Began \cup {r}, NEW gone, Starts(r, q, gone),
         NEW list \in Seq(Message(Began \cup {r})), UNCHANGED <<shown, held>> \/ Changes(list)
  PROVE  BenchInv' /\ Began' = Began \cup {r} /\ r \notin Began
<1>1. /\ page[r] = "none" /\ page' = [page EXCEPT ![r] = "waiting"]
      /\ server' = [server EXCEPT ![r] = "question"] /\ question' = [question EXCEPT ![r] = q]
      /\ UNCHANGED <<seen, db, content, trouble>> /\ crossed' = (crossed \/ Busy)
  BY DEF Starts, Reaches, Crosses
<1>2. Began' = Began \cup {r} /\ r \notin Began
  BY <1>1 DEF Began, BenchInv, PageTypes
<1>3. /\ Seq(Message(Began)) \subseteq Seq(Message(Began')) /\ Seq(RowOf(Began)) \subseteq Seq(RowOf(Began'))
      /\ HeldOf(Began) \subseteq HeldOf(Began')
  BY <1>2, ListsLast
<1>4. shown' \in Seq(Message(Began')) /\ held' \in HeldOf(Began')
  <2>1. held \in HeldOf(Began') /\ shown \in Seq(Message(Began'))
    BY <1>3 DEF BenchInv, Lists
  <2>2. [held EXCEPT !.stale = held.why # "none"] \in HeldOf(Began')
    BY <2>1 DEF HeldOf
  <2> QED
    BY <1>2, <2>1, <2>2 DEF Changes
<1>5. Lists'
  BY <1>1, <1>3, <1>4 DEF BenchInv, Lists
<1>6. PageTypes' /\ Services'
  BY <1>1 DEF BenchInv, PageTypes, Services, Busy, Serving, Began
<1>7. ASSUME NEW s \in Runs PROVE OfOneRun(s)'
  <2>1. OfOneRun(s)
    BY DEF BenchInv
  <2>2. /\ page'[s] = IF s = r THEN "waiting" ELSE page[s]
        /\ server'[s] = IF s = r THEN "question" ELSE server[s]
        /\ question'[s] = IF s = r THEN q ELSE question[s]
    BY <1>1 DEF BenchInv, PageTypes, Services
  <2> QED
    BY <1>1, <1>2, <2>1, <2>2 DEF OfOneRun
<1> QED
  BY <1>2, <1>5, <1>6, <1>7 DEF BenchInv


\* How a run begins: what it takes off the page are answers, and what it goes on with is a
\* bubble of its own, or of a run that it takes off.
BeginsWith(r, q, gone, list) ==
  /\ Starts(r, q, gone)
  /\ (UNCHANGED <<shown, held>> /\ list = shown /\ q # r) \/ Changes(list)
  /\ q = r => \E x \in DOMAIN list : list[x].role = "user" /\ list[x].run = r
  /\ \A x \in DOMAIN shown : \/ \E y \in DOMAIN list : list[y] = shown[x]
                             \/ shown[x].role = "assistant" /\ shown[x].run \in gone
  /\ list # <<>> /\ Last(list).id = "streaming-assistant" => Last(list).run \in gone \cup {r}

\* A question or an answer that is put on the page.
LEMMA MessageTypes ==
  ASSUME NEW r \in Runs
  PROVE  /\ Question(r) \in Message(Began \cup {r}) /\ Bubble(r, 0) \in Message(Began \cup {r})
         /\ Question(r).id = "user" /\ Question(r).role = "user" /\ Question(r).run = r
         /\ Bubble(r, 0).run = r
BY DEF Question, Bubble, Message

LEMMA PageBegins ==
  ASSUME BenchInv, NEW r \in Runs, Send(r) \/ Research(r) \/ Regenerate(r) \/ AskAgain(r)
  PROVE  \E q \in Began \cup {r}, gone \in SUBSET Began, list \in Seq(Message(Began \cup {r})) :
           BeginsWith(r, q, gone, list)
<1> DEFINE M == Message(Began)
           N == Message(Began \cup {r})
<1>1. shown \in Seq(M) /\ shown \in Seq(N) /\ Seq(M) \subseteq Seq(N)
  BY ListsLast DEF BenchInv, Lists
<1>2. \A x \in DOMAIN shown : /\ shown[x].run \in Began
                              /\ shown[x].id = "streaming-assistant" => shown[x].role = "assistant"
                              /\ shown[x].id = "user" => shown[x].role = "user"
                              /\ shown[x].id \in {"user", "row", "streaming-assistant"}
  BY <1>1 DEF Message
<1>3. Question(r) \in N /\ Bubble(r, 0) \in N
  BY MessageTypes
<1>4. ASSUME Send(r) \/ Research(r) \/ Regenerate(r) \/ AskAgain(r) PROVE r \notin Began
  BY DEF Send, Research, Regenerate, AskAgain, Starts, Began
<1>5. CASE Send(r)
  <2> DEFINE list == Append(shown, Question(r))
  <2>1. Starts(r, r, {}) /\ Changes(list)
    BY <1>5 DEF Send
  <2>2. /\ list \in Seq(N) /\ list[Len(shown) + 1] = Question(r) /\ Len(list) = Len(shown) + 1
        /\ \A x \in DOMAIN shown : x \in DOMAIN list /\ list[x] = shown[x]
        /\ Len(shown) + 1 \in DOMAIN list
    <3> HIDE DEF N
    <3> QED
      BY <1>1, <1>3, AppendProperties
  <2> HIDE DEF list
  <2>3. BeginsWith(r, r, {}, list)
    BY <2>1, <2>2, MessageTypes DEF BeginsWith, Last
  <2> QED
    BY <2>2, <2>3
<1>6. CASE Research(r)
  <2> DEFINE tail == <<Question(r), Bubble(r, 0)>>
             list == shown \o tail
  <2>1. Starts(r, r, {}) /\ Changes(list)
    BY <1>6 DEF Research
  <2>2. tail \in Seq(N) /\ Len(tail) = 2 /\ tail[1] = Question(r) /\ tail[2] = Bubble(r, 0)
    <3> HIDE DEF N
    <3> QED
      BY <1>3
  <2>3. /\ list \in Seq(N) /\ Len(list) = Len(shown) + 2 /\ list[Len(shown) + 1] = Question(r)
        /\ list[Len(shown) + 2] = Bubble(r, 0)
        /\ \A x \in DOMAIN shown : x \in DOMAIN list /\ list[x] = shown[x]
        /\ Len(shown) + 1 \in DOMAIN list
    <3> HIDE DEF N, tail
    <3>1. Len(shown) \in Nat /\ DOMAIN shown = 1 .. Len(shown)
      BY <1>1
    <3>2. /\ list \in Seq(N) /\ Len(list) = Len(shown) + Len(tail)
          /\ \A x \in 1 .. Len(shown) + Len(tail) :
               list[x] = IF x <= Len(shown) THEN shown[x] ELSE tail[x - Len(shown)]
      BY <1>1, <2>2, ConcatProperties
    <3> HIDE DEF list
    <3>3. DOMAIN list = 1 .. Len(list)
      BY <3>2
    <3> QED
      BY <2>2, <3>1, <3>2, <3>3
  <2> HIDE DEF list
  <2>4. BeginsWith(r, r, {}, list)
    BY <2>1, <2>3, MessageTypes DEF BeginsWith, Last
  <2> QED
    BY <2>3, <2>4
<1>7. CASE AskAgain(r)
  <2>1. \E x \in DOMAIN shown : shown[x].role = "user"
    BY <1>7 DEF AskAgain, LastQuestion
  <2>2. LastQuestion(shown) \in Began
    BY <1>1, <1>2, <2>1, LastQuestionAsked
  <2>3. Covered(shown) \in SUBSET Began
    BY <1>1, <1>2 DEF Covered, Last
  <2>4. BeginsWith(r, LastQuestion(shown), Covered(shown), shown)
    BY <1>4, <1>7, <2>2 DEF BeginsWith, AskAgain, Covered
  <2> QED
    BY <1>1, <2>2, <2>3, <2>4
<1>8. CASE Regenerate(r)
  <2> PICK k \in DOMAIN shown :
        LET same == {j \in DOMAIN shown : /\ shown[j].id = shown[k].id
                                          /\ shown[j].id = "row" => shown[j] = shown[k]}
            rest == Kept(shown, DOMAIN shown \ same)
        IN /\ shown[k].role = "assistant" /\ LastQuestion(rest) # NoRun
           /\ Starts(r, LastQuestion(rest), Covered(rest) \cup {shown[j].run : j \in same})
           /\ Changes(rest)
    BY <1>8 DEF Regenerate
  <2> DEFINE same == {j \in DOMAIN shown : /\ shown[j].id = shown[k].id
                                           /\ shown[j].id = "row" => shown[j] = shown[k]}
             places == DOMAIN shown \ same
             rest == Kept(shown, places)
             taken == {shown[j].run : j \in same}
  <2>1. /\ shown[k].role = "assistant" /\ LastQuestion(rest) # NoRun
        /\ Starts(r, LastQuestion(rest), Covered(rest) \cup taken) /\ Changes(rest)
    OBVIOUS
  <2>2. \A j \in same : shown[j].role = "assistant" /\ shown[j].run \in taken
    BY <1>2, <2>1
  <2>3. places \in SUBSET DOMAIN shown /\ taken \in SUBSET Began
    BY <1>2
  <2>4. /\ rest \in Seq(M) /\ \A x \in places : \E y \in DOMAIN rest : rest[y] = shown[x]
        /\ \A y \in DOMAIN rest : \E x \in places : rest[y] = shown[x]
    <3> HIDE DEF M, places
    <3> QED
      BY <1>1, <2>3, KeptMessages
  <2>5. \A x \in DOMAIN shown : x \in places \/ (shown[x].role = "assistant" /\ shown[x].run \in taken)
    BY <2>2
  <2> HIDE DEF places, rest, taken, same
  <2>6. LastQuestion(rest) \in Began
    <3>1. \E x \in DOMAIN rest : rest[x].role = "user"
      BY <2>1 DEF LastQuestion
    <3>2. \A x \in DOMAIN rest : rest[x].run \in Began
      BY <2>4 DEF Message
    <3> QED
      BY <2>4, <3>1, <3>2, LastQuestionAsked
  <2>7. Covered(rest) \in SUBSET Began
    <3>1. rest # <<>> => Last(rest) \in M
      BY <2>4 DEF Last
    <3> QED
      BY <3>1 DEF Covered, Message
  <2>8. BeginsWith(r, LastQuestion(rest), Covered(rest) \cup taken, rest)
    BY <1>4, <1>8, <2>1, <2>4, <2>5, <2>6 DEF BeginsWith, Covered
  <2> QED
    BY <1>1, <2>3, <2>4, <2>6, <2>7, <2>8
<1> QED
  BY <1>5, <1>6, <1>7, <1>8


\* Steps that no run begins with and no handler takes.
LEMMA RunTypes ==
  ASSUME BenchInv, NEW r \in Runs, ReadChunk(r) \/ StreamEnds(r) \/ Relay(r)
  PROVE  BenchInv' /\ Began' = Began
<1>1. CASE ReadChunk(r)
  <2>1. /\ page[r] = "waiting" /\ seen[r] < content[r] /\ seen' = [seen EXCEPT ![r] = @ + 1]
        /\ UNCHANGED <<page, question, db, server, content, crossed, trouble>>
        /\ held' = [held EXCEPT !.stale = held.why # "none"]
    BY <1>1 DEF ReadChunk, UpdateStreaming, Changes, handler, runHistory
  <2>2. Began' = Began
    BY <2>1 DEF Began
  <2>3. Lists'
    <3>1. held' \in HeldOf(Began)
      BY <2>1 DEF BenchInv, Lists, HeldOf
    <3> QED
      BY <1>1, <2>1, <2>2, <3>1, ChunkShown DEF BenchInv, Lists
  <2>4. PageTypes' /\ Services'
    BY <2>1 DEF BenchInv, PageTypes, Services
  <2>5. ASSUME NEW s \in Runs PROVE OfOneRun(s)'
    <3>1. OfOneRun(s) /\ seen'[s] = IF s = r THEN seen[r] + 1 ELSE seen[s]
      BY <2>1 DEF BenchInv, PageTypes
    <3>2. seen[r] \in Nat /\ content[r] \in Nat
      BY DEF BenchInv, PageTypes, Services
    <3> QED
      BY <2>1, <2>2, <3>1, <3>2 DEF OfOneRun
  <2> QED
    BY <2>2, <2>3, <2>4, <2>5 DEF BenchInv
<1>2. CASE StreamEnds(r)
  <2>1. /\ page[r] = "waiting" /\ seen[r] = content[r] /\ server[r] \in Served
        /\ page' = [page EXCEPT ![r] = IF server[r] = "closed" THEN "done" ELSE "failed"]
        /\ UNCHANGED <<shown, question, seen, db, server, content, held, crossed, trouble>>
    BY <1>2 DEF StreamEnds, handler, runHistory, Served, At
  <2>2. Began' = Began
    BY <2>1 DEF Began, BenchInv, PageTypes
  <2>3. Lists' /\ PageTypes' /\ Services'
    BY <2>1, <2>2 DEF BenchInv, Lists, PageTypes, Services
  <2>4. ASSUME NEW s \in Runs PROVE OfOneRun(s)'
    <3>1. OfOneRun(s) /\ page'[s] = IF s = r THEN IF server[r] = "closed" THEN "done" ELSE "failed" ELSE page[s]
      BY <2>1 DEF BenchInv, PageTypes
    <3> QED
      BY <2>1, <2>2, <3>1 DEF OfOneRun, Served
  <2> QED
    BY <2>2, <2>3, <2>4 DEF BenchInv
<1>3. CASE Relay(r)
  <2>1. /\ server[r] = "relay" /\ content' = [content EXCEPT ![r] = @ + 1]
        /\ UNCHANGED <<shown, page, question, seen, db, server, held, crossed, trouble>>
    BY <1>3 DEF Relay, client, runHistory, At
  <2>2. Began' = Began
    BY <2>1 DEF Began
  <2>3. Lists' /\ PageTypes' /\ Services'
    BY <2>1, <2>2 DEF BenchInv, Lists, PageTypes, Services
  <2>4. ASSUME NEW s \in Runs PROVE OfOneRun(s)'
    <3>1. OfOneRun(s) /\ content'[s] = IF s = r THEN content[r] + 1 ELSE content[s]
      BY <2>1 DEF BenchInv, Services
    <3>2. seen[s] \in Nat /\ content[s] \in Nat
      BY DEF BenchInv, PageTypes, Services
    <3> QED
      BY <2>1, <2>2, <3>1, <3>2 DEF OfOneRun, Served
  <2> QED
    BY <2>2, <2>3, <2>4 DEF BenchInv
<1> QED
  BY <1>1, <1>2, <1>3

\* What is loaded from the table: as many messages as rows.
LEMMA LoadedList ==
  ASSUME BenchInv
  PROVE  LET list == [x \in DOMAIN db |-> Entry(db[x])]
         IN  list \in Seq(Message(Began)) /\ DOMAIN list = DOMAIN db
<1> DEFINE list == [x \in DOMAIN db |-> Entry(db[x])]
<1>1. db \in Seq(RowOf(Began)) /\ content \in [Runs -> Nat] /\ Began \subseteq Runs
  BY DEF BenchInv, Lists, Services, Began
<1>2. \A m \in RowOf(Began) : Entry(m) \in Message(Began)
  BY <1>1 DEF RowOf, Entry, Message
<1>3. Len(db) \in Nat /\ DOMAIN db = 1 .. Len(db) /\ \A x \in DOMAIN db : db[x] \in RowOf(Began)
  BY <1>1
<1>4. list = [x \in 1 .. Len(db) |-> Entry(db[x])] /\ \A x \in 1 .. Len(db) : Entry(db[x]) \in Message(Began)
  BY <1>2, <1>3
<1> QED
  BY <1>3, <1>4, IsASeq

LEMMA ListTypes ==
  ASSUME BenchInv, LoadReads \/ LoadShows \/ LoadFails \/ RateStarts \/ RateEnds
  PROVE  BenchInv' /\ Began' = Began
<1>1. UNCHANGED <<page, question, seen, db, server, content, trouble>> /\ crossed' \in BOOLEAN
  BY DEF LoadReads, LoadShows, LoadFails, RateStarts, RateEnds, Holds, Crosses, client,
     handler, runHistory, BenchInv, PageTypes
<1>2. Began' = Began
  BY <1>1 DEF Began
<1>3. held.list \in Seq(Message(Began)) /\ shown \in Seq(Message(Began)) /\ NoList \in HeldOf(Began)
  BY EmptySeq DEF BenchInv, Lists, HeldOf, NoList
<1>4. shown' \in Seq(Message(Began)) /\ held' \in HeldOf(Began)
  <2>1. CASE LoadReads
    <3> DEFINE list == [x \in DOMAIN db |-> Entry(db[x])]
               stale == "load" = "load" /\ Busy
    <3>1. shown' = shown /\ held' = [why |-> "load", list |-> list, stale |-> stale]
      BY <2>1 DEF LoadReads, Holds, client
    <3>2. list \in Seq(Message(Began)) /\ stale \in BOOLEAN
      BY LoadedList DEF Busy
    <3> HIDE DEF list, stale
    <3> QED
      BY <1>3, <3>1, <3>2 DEF HeldOf
  <2>2. CASE RateStarts
    BY <1>3, <2>2 DEF RateStarts, Holds, client, HeldOf
  <2>3. CASE LoadShows \/ LoadFails \/ RateEnds
    BY <1>3, <2>3 DEF LoadShows, LoadFails, RateEnds, client
  <2> QED
    BY <2>1, <2>2, <2>3
<1>5. Lists' /\ PageTypes' /\ Services'
  BY <1>1, <1>2, <1>4 DEF BenchInv, Lists, PageTypes, Services
<1>6. ASSUME NEW s \in Runs PROVE OfOneRun(s)'
  BY <1>1, <1>2 DEF BenchInv, OfOneRun
<1> QED
  BY <1>2, <1>5, <1>6 DEF BenchInv

LEMMA BenchInvHolds == WorkbenchSpec => []BenchInv
<1>1. WorkbenchInit => BenchInv
  <2> SUFFICES ASSUME WorkbenchInit PROVE BenchInv
    OBVIOUS
  <2>1. Lists
    BY EmptySeq DEF WorkbenchInit, Lists, HeldOf, NoList
  <2>2. PageTypes /\ Services
    BY DEF WorkbenchInit, PageTypes, Services
  <2>3. ASSUME NEW r \in Runs PROVE OfOneRun(r)
    BY DEF WorkbenchInit, OfOneRun, Served
  <2> QED
    BY <2>1, <2>2, <2>3 DEF BenchInv
<1>2. BenchInv /\ [WorkbenchNext]_workbenchVars => BenchInv'
  <2> SUFFICES ASSUME BenchInv, [WorkbenchNext]_workbenchVars PROVE BenchInv'
    OBVIOUS
  <2>1. ASSUME NEW r \in Runs, Send(r) \/ Research(r) \/ Regenerate(r) \/ AskAgain(r) PROVE BenchInv'
    BY <2>1, PageBegins, StartTypes DEF BeginsWith
  <2>2. CASE UNCHANGED workbenchVars
    BY <2>2 DEF workbenchVars, client, handler, runHistory, BenchInv, Lists, PageTypes,
       Services, OfOneRun, Began
  <2> QED
    BY <2>1, <2>2, RunTypes, ServeTypes, ListTypes DEF WorkbenchNext
<1> QED
  BY <1>1, <1>2, PTL DEF WorkbenchSpec

-----------------------------------------------------------------------------
(* The workbench: how often an answer is stored. *)

\* The most rows an answer has when its handler has come to a statement: the second attempt
\* begins with a row only if a statement failed after the first.
MayStore(stop, again) ==
  IF stop \in {"none", "question", "gateway", "relay", "save"} THEN 0
  ELSE IF stop = "audit" THEN 1
  ELSE IF stop = "rescue" THEN again ELSE 1 + again
Again       == IF trouble > 0 THEN 1 ELSE 0
MayHave(r)  == MayStore(server[r], Again)
CopiesOK(r) == Cardinality(Stored(r)) <= MayHave(r)

LEMMA StoredCounts ==
  ASSUME BenchInv, NEW r \in Runs
  PROVE  IsFiniteSet(Stored(r)) /\ Cardinality(Stored(r)) \in Nat
<1>1. Stored(r) \in SUBSET (1 .. Len(db)) /\ Len(db) \in Nat
  BY DEF BenchInv, Lists, Stored
<1>2. IsFiniteSet(1 .. Len(db))
  BY <1>1, FS_Interval
<1> QED
  BY <1>1, <1>2, FS_Subset, FS_CardinalityType

\* A row adds itself, and no other answer's.
LEMMA RowAdds ==
  ASSUME BenchInv, NEW r \in Runs, NEW row \in RowOf(Began), db' = Append(db, row)
  PROVE  /\ Cardinality(Stored(r)') \in Nat /\ Cardinality(Stored(r)') <= Cardinality(Stored(r)) + 1
         /\ row # MessageRow("assistant", r) => Stored(r)' = Stored(r)
<1>1. /\ Len(db) \in Nat /\ DOMAIN db = 1 .. Len(db) /\ Len(db') = Len(db) + 1 /\ DOMAIN db' = 1 .. Len(db')
      /\ \A x \in DOMAIN db : db'[x] = db[x]
      /\ db'[Len(db) + 1] = row
  BY AppendProperties DEF BenchInv, Lists
<1> DEFINE n == Len(db) + 1
<1>2. Stored(r)' = IF row = MessageRow("assistant", r) THEN Stored(r) \cup {n} ELSE Stored(r)
  <2>1. DOMAIN db' = DOMAIN db \cup {n} /\ n \notin DOMAIN db
    BY <1>1
  <2>2. \A x \in DOMAIN db' : x \in Stored(r)' <=> \/ x \in Stored(r)
                                                   \/ x = n /\ row = MessageRow("assistant", r)
    BY <1>1, <2>1 DEF Stored, MessageRow
  <2> HIDE DEF n
  <2>3. Stored(r)' \subseteq DOMAIN db' /\ Stored(r) \subseteq DOMAIN db
    BY DEF Stored
  <2> QED
    BY <2>1, <2>2, <2>3
<1> HIDE DEF n
<1>3. IsFiniteSet(Stored(r)) /\ Cardinality(Stored(r)) \in Nat
  BY StoredCounts
<1>4. /\ Cardinality(Stored(r) \cup {n}) \in Nat
      /\ Cardinality(Stored(r) \cup {n}) <= Cardinality(Stored(r)) + 1
  <2> DEFINE old == Cardinality(Stored(r))
             new == Cardinality(Stored(r) \cup {n})
  <2>1. old \in Nat /\ (new = old \/ new = old + 1)
    BY <1>3, FS_AddElement
  <2> HIDE DEF old, new
  <2>2. new \in Nat /\ new <= old + 1
    BY <2>1
  <2> QED
    BY <2>2 DEF old, new
<1> QED
  BY <1>2, <1>3, <1>4

\* Arithmetic of one row more.
LEMMA OneMore ==
  ASSUME NEW c \in Nat, NEW d \in Nat, NEW most \in Nat, NEW more \in Nat, c <= most,
         (d = c /\ most <= more) \/ (d <= c + 1 /\ most + 1 <= more)
  PROVE  d <= more
OBVIOUS

\* A statement of the handler of r, which stores nothing or one row.
LEMMA CopiesMove ==
  ASSUME BenchInv, \A s \in Runs : CopiesOK(s), NEW r \in Runs,
         \A s \in Runs \ {r} : server'[s] = server[s], trouble' \in {trouble, trouble + 1},
         \/ /\ db' = db /\ MayHave(r) <= MayHave(r)'
         \/ /\ db' = Append(db, MessageRow("user", question[r])) /\ question[r] \in Began
            /\ MayHave(r) <= MayHave(r)'
         \/ db' = Append(db, MessageRow("assistant", r)) /\ r \in Began /\ MayHave(r) + 1 <= MayHave(r)'
  PROVE  \A s \in Runs : CopiesOK(s)'
<1> SUFFICES ASSUME NEW s \in Runs PROVE Cardinality(Stored(s)') <= MayHave(s)'
  BY DEF CopiesOK
<1>1. /\ Cardinality(Stored(s)) \in Nat /\ MayHave(s) \in Nat /\ MayHave(s)' \in Nat
      /\ Cardinality(Stored(s)) <= MayHave(s)
  BY StoredCounts DEF MayHave, MayStore, Again, CopiesOK
<1>2. s # r => MayHave(s) <= MayHave(s)'
  BY DEF MayHave, MayStore, Again, BenchInv, Services
<1>3. CASE db' = db
  <2>1. Stored(s)' = Stored(s) /\ MayHave(s) <= MayHave(s)'
    <3>1. db' # Append(db, MessageRow("assistant", r)) \/ r \notin Began
      BY <1>3, AppendProperties DEF BenchInv, Lists, RowOf, MessageRow
    <3> QED
      BY <1>2, <1>3, <3>1 DEF Stored
  <2> QED
    BY <1>1, <2>1, OneMore
<1>4. ASSUME NEW row \in RowOf(Began), db' = Append(db, row),
             row = MessageRow("assistant", s) => MayHave(s) + 1 <= MayHave(s)',
             MayHave(s) <= MayHave(s)'
      PROVE  Cardinality(Stored(s)') <= MayHave(s)'
  <2>1. /\ Cardinality(Stored(s)') \in Nat /\ Cardinality(Stored(s)') <= Cardinality(Stored(s)) + 1
        /\ row # MessageRow("assistant", s) => Stored(s)' = Stored(s)
    BY <1>4, RowAdds
  <2>2. CASE row = MessageRow("assistant", s)
    BY <1>1, <1>4, <2>1, <2>2, OneMore
  <2>3. CASE row # MessageRow("assistant", s)
    BY <1>1, <1>4, <2>1, <2>3
  <2> QED
    BY <2>2, <2>3
<1>5. CASE db' = Append(db, MessageRow("user", question[r])) /\ question[r] \in Began
           /\ MayHave(r) <= MayHave(r)'
  <2>1. /\ MessageRow("user", question[r]) \in RowOf(Began)
        /\ MessageRow("user", question[r]) # MessageRow("assistant", s)
    BY <1>5 DEF RowOf, MessageRow
  <2> QED
    BY <1>2, <1>4, <1>5, <2>1
<1>6. CASE db' = Append(db, MessageRow("assistant", r)) /\ r \in Began /\ MayHave(r) + 1 <= MayHave(r)'
  <2>1. /\ MessageRow("assistant", r) \in RowOf(Began)
        /\ MessageRow("assistant", r) = MessageRow("assistant", s) => s = r
    BY <1>6 DEF RowOf, MessageRow
  <2>2. s = r => MayHave(s) + 1 <= MayHave(s)' /\ MayHave(s) <= MayHave(s)'
    BY <1>1, <1>6
  <2> QED
    BY <1>2, <1>4, <1>6, <2>1, <2>2
<1> QED
  BY <1>3, <1>5, <1>6

\* How the rows that an answer may have grow from one statement to the next.
LEMMA Allowances ==
  ASSUME NEW a \in {0, 1}, NEW b \in {0, 1}, a <= b
  PROVE  /\ MayStore("save", a) <= MayStore("closed", b) /\ MayStore("rescue", a) <= MayStore("closed", b)
         /\ MayStore("audit", a) <= MayStore("closed", b) /\ MayStore("audit again", a) <= MayStore("closed", b)
         /\ MayStore("save", a) + 1 <= MayStore("audit", b)
         /\ MayStore("rescue", a) + 1 <= MayStore("audit again", b)
         /\ MayStore("save", a) <= MayStore("rescue", b) /\ MayStore("rescue", a) <= MayStore("hung", b)
         /\ MayStore("audit again", a) <= MayStore("hung", b)
         /\ b = 1 => MayStore("audit", a) <= MayStore("rescue", b)
         /\ MayStore("question", a) <= MayStore("gateway", b) /\ MayStore("question", a) <= MayStore("refused", b)
         /\ MayStore("gateway", a) <= MayStore("relay", b) /\ MayStore("gateway", a) <= MayStore("refused", b)
         /\ MayStore("relay", a) <= MayStore("save", b) /\ MayStore("relay", a) <= MayStore("rescue", b)
BY DEF MayStore

LEMMA ServeCopies ==
  ASSUME BenchInv, \A s \in Runs : CopiesOK(s), NEW r \in Runs, Serve(r)
  PROVE  \A s \in Runs : CopiesOK(s)'
<1>1. server \in [Runs -> Serving \cup Served \cup {"none"}] /\ trouble \in Nat /\ OfOneRun(r)
  BY DEF BenchInv, Services
<1>2. ASSUME NEW stop, Reaches(r, stop)
      PROVE  /\ server'[r] = stop /\ MayHave(r)' = MayStore(stop, Again')
             /\ \A s \in Runs \ {r} : server'[s] = server[s]
  BY <1>1, <1>2 DEF Reaches, MayHave
<1>3. server[r] # "none" => r \in Began /\ question[r] \in Began
  BY <1>1 DEF OfOneRun, Began
<1> DEFINE a == Again
           b == Again'
<1>4. trouble' \in {trouble, trouble + 1} => a \in {0, 1} /\ b \in {0, 1} /\ a <= b
  BY <1>1 DEF Again
<1>5. trouble' = trouble + 1 => b = 1
  BY <1>1 DEF Again
<1>6. MayHave(r) = MayStore(server[r], a)
  BY DEF MayHave
<1> HIDE DEF a, b
<1>7. CASE StoreQuestion(r)
  <2>1. /\ server[r] = "question"
        /\ \/ db' = Append(db, MessageRow("user", question[r])) /\ trouble' = trouble /\ Reaches(r, "gateway")
           \/ db' = db /\ trouble' = trouble + 1 /\ Reaches(r, "refused")
    BY <1>7 DEF StoreQuestion, Fails, At
  <2>2. MayHave(r) <= MayHave(r)'
    BY <1>2, <1>4, <1>6, <2>1, Allowances DEF b
  <2> QED
    BY <1>2, <1>3, <2>1, <2>2, CopiesMove
<1>8. CASE AskGateway(r)
  <2>1. /\ server[r] = "gateway" /\ db' = db /\ trouble' = trouble
        /\ Reaches(r, "relay") \/ Reaches(r, "refused")
    BY <1>8 DEF AskGateway, At
  <2>2. MayHave(r) <= MayHave(r)'
    BY <1>2, <1>4, <1>6, <2>1, Allowances DEF b
  <2> QED
    BY <1>2, <2>1, <2>2, CopiesMove
<1>9. CASE GatewayEnds(r)
  <2>1. /\ server[r] = "relay" /\ db' = db /\ trouble' = trouble
        /\ Reaches(r, "save") \/ Reaches(r, "rescue")
    BY <1>9 DEF GatewayEnds, At
  <2>2. MayHave(r) <= MayHave(r)'
    BY <1>2, <1>4, <1>6, <2>1, Allowances DEF b
  <2> QED
    BY <1>2, <2>1, <2>2, CopiesMove
<1>10. CASE SaveAnswer(r)
  <2> DEFINE next(x, y) == IF server[r] = "save" THEN x ELSE y
  <2>1. /\ server[r] \in {"save", "rescue"}
        /\ \/ db' = db /\ trouble' = trouble /\ Reaches(r, "closed")
           \/ /\ db' = Append(db, MessageRow("assistant", r)) /\ trouble' = trouble
              /\ Reaches(r, next("audit", "audit again"))
           \/ db' = db /\ trouble' = trouble + 1 /\ Reaches(r, next("rescue", "hung"))
    BY <1>10 DEF SaveAnswer, Fails, At
  <2>2. CASE \/ db' = db /\ trouble' = trouble /\ Reaches(r, "closed")
             \/ db' = db /\ trouble' = trouble + 1 /\ Reaches(r, next("rescue", "hung"))
    <3>1. MayHave(r) <= MayHave(r)'
      <4>1. CASE server[r] = "save"
        BY <1>2, <1>4, <1>6, <2>2, <4>1, Allowances DEF b
      <4>2. CASE server[r] = "rescue"
        BY <1>2, <1>4, <1>6, <2>2, <4>2, Allowances DEF b
      <4> QED
        BY <2>1, <4>1, <4>2
    <3> QED
      BY <1>2, <2>1, <2>2, <3>1, CopiesMove
  <2>3. CASE db' = Append(db, MessageRow("assistant", r)) /\ trouble' = trouble
             /\ Reaches(r, next("audit", "audit again"))
    <3>1. MayHave(r) + 1 <= MayHave(r)'
      <4>1. CASE server[r] = "save"
        BY <1>2, <1>4, <1>6, <2>3, <4>1, Allowances DEF b
      <4>2. CASE server[r] = "rescue"
        BY <1>2, <1>4, <1>6, <2>3, <4>2, Allowances DEF b
      <4> QED
        BY <2>1, <4>1, <4>2
    <3> QED
      BY <1>2, <1>3, <2>1, <2>3, <3>1, CopiesMove
  <2> QED
    BY <2>1, <2>2, <2>3
<1>11. CASE AuditAnswer(r)
  <2>1. /\ server[r] \in {"audit", "audit again"} /\ db' = db
        /\ \/ trouble' = trouble /\ Reaches(r, "closed")
           \/ trouble' = trouble + 1 /\ Reaches(r, IF server[r] = "audit" THEN "rescue" ELSE "hung")
    BY <1>11 DEF AuditAnswer, Fails, At
  <2>2. MayHave(r) <= MayHave(r)'
    <3>1. CASE server[r] = "audit"
      BY <1>2, <1>4, <1>5, <1>6, <2>1, <3>1, Allowances DEF b
    <3>2. CASE server[r] = "audit again"
      BY <1>2, <1>4, <1>6, <2>1, <3>2, Allowances DEF b
    <3> QED
      BY <2>1, <3>1, <3>2
  <2> QED
    BY <1>2, <2>1, <2>2, CopiesMove
<1> QED
  BY <1>7, <1>8, <1>9, <1>10, <1>11 DEF Serve

Copies == \A r \in Runs : CopiesOK(r)

LEMMA CopiesHold == WorkbenchSpec => []Copies
<1>1. WorkbenchInit => Copies
  <2> SUFFICES ASSUME WorkbenchInit, NEW r \in Runs PROVE CopiesOK(r)
    BY DEF Copies
  <2>1. Stored(r) = {} /\ MayHave(r) = 0
    BY DEF WorkbenchInit, Stored, MayHave, MayStore
  <2> QED
    BY <2>1, FS_EmptySet DEF CopiesOK
<1>2. BenchInv /\ Copies /\ [WorkbenchNext]_workbenchVars => Copies'
  <2> SUFFICES ASSUME BenchInv, \A r \in Runs : CopiesOK(r), [WorkbenchNext]_workbenchVars
               PROVE  \A r \in Runs : CopiesOK(r)'
    BY DEF Copies
  <2>1. ASSUME NEW r \in Runs, Send(r) \/ Research(r) \/ Regenerate(r) \/ AskAgain(r)
        PROVE  \A s \in Runs : CopiesOK(s)'
    <3>1. PICK q \in Began \cup {r}, gone \in SUBSET Began : Starts(r, q, gone)
      BY <2>1, PageBegins DEF BeginsWith
    <3>2. /\ server[r] = "none" /\ server' = [server EXCEPT ![r] = "question"] /\ UNCHANGED <<db, trouble>>
      BY <3>1 DEF Starts, Reaches, BenchInv, OfOneRun
    <3>3. \A s \in Runs : MayHave(s)' = MayHave(s) /\ Stored(s)' = Stored(s)
      BY <3>2 DEF MayHave, MayStore, Again, Stored, BenchInv, Services
    <3> QED
      BY <3>3 DEF CopiesOK
  <2>2. CASE UNCHANGED <<db, server, trouble>>
    BY <2>2 DEF CopiesOK, Stored, MayHave, MayStore, Again
  <2>3. ASSUME NEW r \in Runs, ReadChunk(r) \/ StreamEnds(r) \/ Relay(r) PROVE UNCHANGED <<db, server, trouble>>
    BY <2>3 DEF ReadChunk, StreamEnds, Relay, handler
  <2>4. ASSUME LoadReads \/ LoadShows \/ LoadFails \/ RateStarts \/ RateEnds \/ UNCHANGED workbenchVars
        PROVE  UNCHANGED <<db, server, trouble>>
    BY <2>4 DEF LoadReads, LoadShows, LoadFails, RateStarts, RateEnds, Holds, workbenchVars, handler
  <2> QED
    BY <2>1, <2>2, <2>3, <2>4, ServeCopies DEF WorkbenchNext
<1> QED
  BY <1>1, <1>2, BenchInvHolds, PTL DEF WorkbenchSpec

\* finalize may be called at both ends of a stream, and yet an answer is stored once, and a
\* second time only if a statement failed: for every number of runs, chunks and failures.
THEOREM AnswersStoredOnce == WorkbenchSpec => []StoredOnce
<1>1. BenchInv /\ Copies => StoredOnce
  <2> SUFFICES ASSUME BenchInv, NEW r \in Runs, CopiesOK(r)
               PROVE  Cardinality(Stored(r)) <= 1 + (IF trouble > 0 THEN 1 ELSE 0)
    BY DEF StoredOnce, Copies
  <2> DEFINE c == Cardinality(Stored(r))
  <2>1. c \in Nat /\ c <= MayHave(r) /\ MayHave(r) \in Nat /\ MayHave(r) <= 1 + Again /\ Again \in Nat
    BY StoredCounts DEF CopiesOK, MayHave, MayStore, Again
  <2> HIDE DEF c
  <2>2. c <= 1 + Again
    BY <2>1
  <2> QED
    BY <2>2 DEF c, Again
<1> QED
  BY <1>1, CopiesHold, BenchInvHolds, PTL

-----------------------------------------------------------------------------
(* The workbench: what a page shows that runs one thing at a time. *)

\* As long as no statement fails, the question of a run that goes on is stored, and so is its
\* answer as soon as its handler has saved it.
RowsKept(r) ==
  /\ server[r] \notin {"none", "question"} => \E x \in DOMAIN db : db[x] = MessageRow("user", question[r])
  /\ content[r] > 0 /\ server[r] \in {"audit", "audit again", "closed"} =>
       \E x \in DOMAIN db : db[x] = MessageRow("assistant", r)
  /\ server[r] # "hung"

\* A list has what the page is to show.
Shows(list) ==
  \A r \in Runs :
    /\ page[r] = "done" /\ content[r] > 0 /\ r \notin removed =>
         \E x \in DOMAIN list : list[x].role = "assistant" /\ list[x].run = r /\ list[x].size = content[r]
    /\ page[r] # "none" /\ question[r] = r =>
         \E x \in DOMAIN list : list[x].role = "user" /\ list[x].run = r

Waits(r)    == r \in Runs /\ page[r] = "waiting"
Streams     == shown # <<>> /\ Last(shown).id = "streaming-assistant"
\* What streams in goes on in its own bubble, or in one that was taken off, and only one does.
InItsBubble ==
  /\ \A r \in Runs : Waits(r) /\ seen[r] > 0 => Streams /\ Last(shown).run = r /\ Last(shown).size = seen[r]
  /\ \A r \in Runs : Waits(r) /\ Streams => Last(shown).run \in removed \/ Waits(Last(shown).run)
  /\ \A r, s \in Runs : Waits(r) /\ Waits(s) => r = s
\* A list that is put in place is the one the page has, or has what the page is to show.
HeldWell ==
  /\ held.why = "rate" /\ ~held.stale => held.list = shown
  /\ held.why = "load" /\ ~held.stale => Shows(held.list) /\ \A r \in Runs : Waits(r) => seen[r] = 0

CalmInv == /\ trouble = 0 => \A r \in Runs : RowsKept(r)
           /\ ~crossed /\ trouble = 0 => Shows(shown) /\ InItsBubble /\ HeldWell

\* What is stored stays, and a row is there once it is added.
LEMMA DbGrows ==
  ASSUME BenchInv, NEW row \in RowOf(Began), db' = Append(db, row)
  PROVE  /\ \E x \in DOMAIN db' : db'[x] = row
         /\ \A x \in DOMAIN db : x \in DOMAIN db' /\ db'[x] = db[x]
<1>1. /\ Len(db) \in Nat /\ DOMAIN db = 1 .. Len(db) /\ Len(db') = Len(db) + 1 /\ DOMAIN db' = 1 .. Len(db')
      /\ \A x \in DOMAIN db : db'[x] = db[x]
      /\ db'[Len(db) + 1] = row
  BY AppendProperties DEF BenchInv, Lists
<1>2. Len(db) + 1 \in DOMAIN db' /\ DOMAIN db \subseteq DOMAIN db'
  BY <1>1
<1> QED
  BY <1>1, <1>2

\* A statement of the handler of r, none of which has failed.
LEMMA RowsKeptMove ==
  ASSUME BenchInv, NEW r \in Runs, Serve(r), \A s \in Runs : RowsKept(s), trouble' = 0
  PROVE  \A s \in Runs : RowsKept(s)'
<1>1. /\ server \in [Runs -> Serving \cup Served \cup {"none"}] /\ trouble \in Nat /\ OfOneRun(r)
      /\ content' = content /\ question' = question /\ RowsKept(r)
  BY DEF BenchInv, Services, Serve, StoreQuestion, AskGateway, GatewayEnds, SaveAnswer,
     AuditAnswer, client
<1>2. ASSUME NEW stop, Reaches(r, stop) PROVE server'[r] = stop /\ \A s \in Runs \ {r} : server'[s] = server[s]
  BY <1>1, <1>2 DEF Reaches
<1>3. trouble' # trouble + 1
  BY <1>1
<1>4. server[r] # "none" => r \in Began /\ question[r] \in Began
  BY <1>1 DEF OfOneRun, Began
<1>5. ASSUME NEW stop, Reaches(r, stop), stop # "hung", \A x \in DOMAIN db : x \in DOMAIN db' /\ db'[x] = db[x],
             stop \notin {"none", "question"} => \E x \in DOMAIN db' : db'[x] = MessageRow("user", question[r]),
             content[r] > 0 /\ stop \in {"audit", "audit again", "closed"} =>
               \E x \in DOMAIN db' : db'[x] = MessageRow("assistant", r)
      PROVE  \A s \in Runs : RowsKept(s)'
  <2> TAKE s \in Runs
  <2>1. CASE s = r
    BY <1>1, <1>2, <1>5, <2>1 DEF RowsKept
  <2>2. CASE s # r
    <3>1. server'[s] = server[s] /\ RowsKept(s)
      BY <1>2, <1>5, <2>2
    <3> QED
      BY <1>1, <1>5, <3>1 DEF RowsKept, MessageRow
  <2> QED
    BY <2>1, <2>2
<1>6. CASE StoreQuestion(r)
  <2>1. server[r] = "question" /\ db' = Append(db, MessageRow("user", question[r])) /\ Reaches(r, "gateway")
    BY <1>3, <1>6 DEF StoreQuestion, Fails, At
  <2>2. MessageRow("user", question[r]) \in RowOf(Began)
    BY <1>4, <2>1 DEF MessageRow, RowOf
  <2> QED
    BY <1>5, <2>1, <2>2, DbGrows
<1>7. CASE AskGateway(r) \/ GatewayEnds(r)
  <2>1. /\ server[r] \in {"gateway", "relay"} /\ db' = db
        /\ Reaches(r, "relay") \/ Reaches(r, "refused") \/ Reaches(r, "save") \/ Reaches(r, "rescue")
    BY <1>7 DEF AskGateway, GatewayEnds, At
  <2> QED
    BY <1>1, <1>5, <2>1 DEF RowsKept
<1>8. CASE SaveAnswer(r)
  <2>1. /\ server[r] \in {"save", "rescue"}
        /\ \/ content[r] = 0 /\ db' = db /\ Reaches(r, "closed")
           \/ /\ db' = Append(db, MessageRow("assistant", r))
              /\ Reaches(r, "audit") \/ Reaches(r, "audit again")
    BY <1>3, <1>8 DEF SaveAnswer, Fails, At
  <2>2. \E x \in DOMAIN db : db[x] = MessageRow("user", question[r])
    BY <1>1, <2>1 DEF RowsKept
  <2>3. CASE content[r] = 0 /\ db' = db /\ Reaches(r, "closed")
    BY <1>5, <2>2, <2>3
  <2>4. CASE /\ db' = Append(db, MessageRow("assistant", r))
             /\ Reaches(r, "audit") \/ Reaches(r, "audit again")
    <3>1. MessageRow("assistant", r) \in RowOf(Began)
      BY <1>4, <2>1 DEF MessageRow, RowOf
    <3>2. /\ \E x \in DOMAIN db' : db'[x] = MessageRow("assistant", r)
          /\ \A x \in DOMAIN db : x \in DOMAIN db' /\ db'[x] = db[x]
      BY <2>4, <3>1, DbGrows
    <3> QED
      BY <1>5, <2>2, <2>4, <3>2
  <2> QED
    BY <2>1, <2>3, <2>4
<1>9. CASE AuditAnswer(r)
  <2>1. server[r] \in {"audit", "audit again"} /\ db' = db /\ Reaches(r, "closed")
    BY <1>3, <1>9 DEF AuditAnswer, Fails, At
  <2> QED
    BY <1>1, <1>5, <2>1 DEF RowsKept
<1> QED
  BY <1>6, <1>7, <1>8, <1>9 DEF Serve

\* Steps the page has no part in.
LEMMA PageRests ==
  ASSUME Shows(shown) /\ InItsBubble /\ HeldWell, UNCHANGED <<client, held, removed>>,
         \A s \in Runs : page[s] = "done" => content'[s] = content[s]
  PROVE  Shows(shown)' /\ InItsBubble' /\ HeldWell'
<1>1. /\ shown' = shown /\ held' = held /\ removed' = removed
      /\ page' = page /\ question' = question /\ seen' = seen
  BY DEF client
<1>2. Shows(shown)' /\ (Shows(held.list) => Shows(held.list)')
  BY <1>1 DEF Shows
<1>3. InItsBubble'
  BY <1>1 DEF InItsBubble, Waits, Streams
<1>4. HeldWell'
  BY <1>1, <1>2 DEF HeldWell, Waits
<1> QED
  BY <1>2, <1>3, <1>4

\* A chunk goes into the bubble of its own run, or of one that was taken off.
LEMMA ChunkFits ==
  ASSUME BenchInv, Shows(shown) /\ InItsBubble /\ HeldWell, NEW r \in Runs, ReadChunk(r)
  PROVE  Shows(shown)' /\ InItsBubble' /\ HeldWell'
<1>1. /\ Waits(r) /\ page' = page /\ question' = question /\ content' = content /\ removed' = removed
      /\ held' = [held EXCEPT !.stale = held.why # "none"]
  BY DEF ReadChunk, UpdateStreaming, Changes, handler, runHistory, Waits
<1>2. /\ shown' # <<>> /\ Last(shown').id = "streaming-assistant"
      /\ Last(shown').run = r /\ Last(shown').size = seen'[r]
      /\ \A x \in DOMAIN shown :
           /\ x \in DOMAIN shown'
           /\ shown'[x] = shown[x] \/ (shown[x] = Last(shown) /\ shown[x].id = "streaming-assistant")
  BY ChunkShown
<1>3. \A x \in DOMAIN shown : /\ shown[x].id = "streaming-assistant" => shown[x].role = "assistant"
                              /\ shown # <<>>
  BY DEF BenchInv, Lists, Message
<1>4. \A x \in DOMAIN shown :
        \/ shown'[x] = shown[x]
        \/ shown[x].role = "assistant" /\ (shown[x].run \in removed \/ Waits(shown[x].run))
  BY <1>1, <1>2, <1>3 DEF InItsBubble, Streams
<1>5. Shows(shown)'
  BY <1>1, <1>2, <1>4 DEF Shows, Waits
<1>6. InItsBubble'
  BY <1>1, <1>2 DEF InItsBubble, Streams, Waits
<1>7. HeldWell'
  <2>1. held'.why # "none" => held'.stale
    BY <1>1 DEF BenchInv, Lists, HeldOf
  <2> QED
    BY <2>1 DEF HeldWell
<1> QED
  BY <1>5, <1>6, <1>7

\* What has streamed in is there when the stream ends.
LEMMA EndShown ==
  ASSUME BenchInv, Shows(shown) /\ InItsBubble /\ HeldWell, NEW r \in Runs, StreamEnds(r)
  PROVE  Shows(shown)' /\ InItsBubble' /\ HeldWell'
<1>1. /\ Waits(r) /\ seen[r] = content[r] /\ UNCHANGED <<shown, question, seen, content, held, removed>>
      /\ \A s \in Runs \ {r} : page'[s] = page[s]
      /\ page'[r] \in {"done", "failed"} /\ page[r] = "waiting"
  BY DEF StreamEnds, handler, runHistory, Waits, BenchInv, PageTypes
<1>2. \A s \in Runs : ~Waits(s)'
  BY <1>1 DEF Waits, InItsBubble
<1>3. content[r] > 0 => \E x \in DOMAIN shown : /\ shown[x].role = "assistant" /\ shown[x].run = r
                                                /\ shown[x].size = content[r]
  <2> SUFFICES ASSUME content[r] > 0 PROVE \E x \in DOMAIN shown : /\ shown[x].role = "assistant" /\ shown[x].run = r
                                                                  /\ shown[x].size = content[r]
    OBVIOUS
  <2>1. Streams /\ Last(shown).run = r /\ Last(shown).size = content[r]
    BY <1>1 DEF InItsBubble
  <2>2. Len(shown) \in DOMAIN shown /\ shown[Len(shown)] \in Message(Began)
    BY <2>1 DEF BenchInv, Lists, Streams
  <2> QED
    BY <2>1, <2>2 DEF Last, Streams, Message
<1>4. Shows(shown)'
  BY <1>1, <1>3 DEF Shows
<1>5. InItsBubble'
  BY <1>2 DEF InItsBubble
<1>6. HeldWell'
  <2>1. held.why = "rate" /\ ~held.stale => held.list = shown
    BY DEF HeldWell
  <2>2. ASSUME held.why = "load", ~held.stale PROVE Shows(held.list)'
    <3>1. Shows(held.list) /\ seen[r] = 0
      BY <1>1, <2>2 DEF HeldWell
    <3>2. ~(content'[r] > 0)
      BY <1>1, <3>1
    <3>3. /\ held'.list = held.list /\ content' = content /\ question' = question /\ removed' = removed
          /\ \A s \in Runs \ {r} : page'[s] = page[s]
          /\ page[r] # "none"
      BY <1>1
    <3> QED
      BY <3>1, <3>2, <3>3 DEF Shows
  <2> QED
    BY <1>1, <1>2, <2>1, <2>2 DEF HeldWell
<1> QED
  BY <1>4, <1>5, <1>6

\* What is loaded while nothing runs has what the page is to show.
LEMMA LoadedShows ==
  ASSUME BenchInv, \A r \in Runs : RowsKept(r), ~Busy
  PROVE  Shows([x \in DOMAIN db |-> Entry(db[x])])
<1> DEFINE list == [x \in DOMAIN db |-> Entry(db[x])]
<1>1. /\ DOMAIN list = DOMAIN db
      /\ \A x \in DOMAIN db : /\ list[x].role = db[x].role /\ list[x].run = db[x].run
                              /\ db[x].role # "user" => list[x].size = content[db[x].run]
  BY DEF Entry
<1> HIDE DEF list
<1>2. ASSUME NEW r \in Runs, page[r] # "none"
      PROVE  /\ \E x \in DOMAIN list : list[x].role = "user" /\ list[x].run = question[r]
             /\ page[r] = "done" /\ content[r] > 0 =>
                  \E x \in DOMAIN list : list[x].role = "assistant" /\ list[x].run = r /\ list[x].size = content[r]
  <2>1. RowsKept(r) /\ OfOneRun(r) /\ page[r] \in {"done", "failed"}
    BY <1>2 DEF BenchInv, PageTypes, Busy
  <2>2. server[r] \in Served
    BY <2>1 DEF OfOneRun
  <2>3. \E x \in DOMAIN db : db[x] = MessageRow("user", question[r])
    BY <2>1, <2>2 DEF RowsKept, Served
  <2>4. page[r] = "done" /\ content[r] > 0 => \E x \in DOMAIN db : db[x] = MessageRow("assistant", r)
    BY <2>1 DEF RowsKept, OfOneRun
  <2> QED
    BY <1>1, <2>3, <2>4 DEF MessageRow
<1>3. Shows(list)
  BY <1>2 DEF Shows
<1> QED
  BY <1>3 DEF list

\* Loading and rating.
LEMMA ListsShow ==
  ASSUME BenchInv, trouble = 0, \A r \in Runs : RowsKept(r), Shows(shown) /\ InItsBubble /\ HeldWell,
         ~crossed', LoadReads \/ LoadShows \/ LoadFails \/ RateStarts \/ RateEnds
  PROVE  Shows(shown)' /\ InItsBubble' /\ HeldWell'
<1>1. UNCHANGED <<page, question, seen, content>>
  BY DEF LoadReads, LoadShows, LoadFails, RateStarts, RateEnds, Holds, client, handler
<1>2. removed' = removed
  BY DEF LoadReads, LoadShows, LoadFails, RateStarts, RateEnds, Holds, Crosses, runHistory
<1>3. /\ NoList.why = "none" /\ \A r \in Runs : Waits(r)' = Waits(r)
      /\ Busy <=> \E r \in Runs : Waits(r)
  BY <1>1 DEF NoList, Waits, Busy
<1>4. shown' = shown => Shows(shown)' /\ InItsBubble'
  BY <1>1, <1>2 DEF Shows, InItsBubble, Waits, Streams
<1>5. CASE LoadReads
  <2> DEFINE list == [x \in DOMAIN db |-> Entry(db[x])]
             stale == "load" = "load" /\ Busy
  <2>1. shown' = shown /\ held' = [why |-> "load", list |-> list, stale |-> stale]
    BY <1>5 DEF LoadReads, Holds, client
  <2>2. ~stale => Shows(list) /\ ~Busy
    BY LoadedShows
  <2>3. ASSUME NEW l, Shows(l) PROVE Shows(l)'
    BY <1>1, <1>2, <2>3 DEF Shows
  <2>4. PICK l : l = list
    OBVIOUS
  <2> HIDE DEF stale, list
  <2>5. held'.why = "load" /\ held'.list = l /\ held'.stale = stale
    BY <2>1, <2>4
  <2>6. ~stale => Shows(l)'
    BY <2>2, <2>3, <2>4
  <2>7. ~held'.stale => Shows(held.list)' /\ \A r \in Runs : ~Waits(r)'
    BY <1>3, <2>2, <2>5, <2>6 DEF Shows
  <2>8. HeldWell'
    BY <2>5, <2>7 DEF HeldWell
  <2> QED
    BY <1>4, <2>1, <2>8
<1>6. CASE LoadFails
  <2>1. shown' = shown /\ held' = NoList
    BY <1>6 DEF LoadFails, client
  <2> QED
    BY <1>3, <1>4, <2>1 DEF HeldWell
<1>7. CASE RateStarts
  <2>1. shown' = shown /\ held'.why = "rate" /\ held'.list = shown
    BY <1>7 DEF RateStarts, Holds, client
  <2> QED
    BY <1>4, <2>1 DEF HeldWell
<1>8. CASE RateEnds
  <2>1. held' = NoList /\ shown' = held.list /\ held.why = "rate" /\ ~held.stale
    BY <1>8 DEF RateEnds, Crosses
  <2>2. shown' = shown
    BY <2>1 DEF HeldWell
  <2> QED
    BY <1>3, <1>4, <2>1, <2>2 DEF HeldWell
<1>9. CASE LoadShows
  <2>1. held' = NoList /\ shown' = held.list /\ held.why = "load" /\ ~held.stale /\ ~Busy
    BY <1>9 DEF LoadShows, Crosses
  <2>2. Shows(held.list)
    BY <2>1 DEF HeldWell
  <2>3. Shows(shown)'
    BY <1>1, <1>2, <2>1, <2>2 DEF Shows
  <2>4. InItsBubble'
    BY <1>3, <2>1 DEF InItsBubble
  <2>5. HeldWell'
    BY <1>3, <2>1 DEF HeldWell
  <2> QED
    BY <2>3, <2>4, <2>5
<1> QED
  BY <1>5, <1>6, <1>7, <1>8, <1>9

\* A run begins when no other is under way.
LEMMA BeginShows ==
  ASSUME BenchInv, Shows(shown) /\ InItsBubble /\ HeldWell, ~crossed', NEW r \in Runs,
         NEW q, NEW gone, NEW list, BeginsWith(r, q, gone, list)
  PROVE  Shows(shown)' /\ InItsBubble' /\ HeldWell'
<1>1. /\ page[r] = "none" /\ page' = [page EXCEPT ![r] = "waiting"]
      /\ question' = [question EXCEPT ![r] = q] /\ UNCHANGED <<seen, content>>
      /\ removed' = removed \cup gone /\ ~Busy
  BY DEF BeginsWith, Starts, Crosses
<1>2. /\ page'[r] = "waiting" /\ question'[r] = q /\ seen'[r] = 0 /\ shown' = list
      /\ \A s \in Runs \ {r} : page'[s] = page[s] /\ question'[s] = question[s]
  BY <1>1 DEF BenchInv, PageTypes, OfOneRun, BeginsWith, Changes
<1>3. \A s \in Runs : Waits(s)' <=> s = r
  BY <1>1, <1>2 DEF Waits, Busy
<1>4. /\ q = r => \E x \in DOMAIN list : list[x].role = "user" /\ list[x].run = r
      /\ \A x \in DOMAIN shown : \/ \E y \in DOMAIN list : list[y] = shown[x]
                                 \/ shown[x].role = "assistant" /\ shown[x].run \in gone
      /\ list # <<>> /\ Last(list).id = "streaming-assistant" => Last(list).run \in gone \cup {r}
  BY DEF BeginsWith
<1>5. Shows(shown)'
  <2>1. ASSUME NEW s \in Runs, page'[s] = "done", content'[s] > 0, s \notin removed'
        PROVE  \E x \in DOMAIN list : list[x].role = "assistant" /\ list[x].run = s /\ list[x].size = content[s]
    <3>1. s # r /\ page[s] = "done" /\ content[s] > 0 /\ s \notin removed /\ s \notin gone
      BY <1>1, <1>2, <2>1
    <3>2. PICK x \in DOMAIN shown : shown[x].role = "assistant" /\ shown[x].run = s /\ shown[x].size = content[s]
      BY <3>1 DEF Shows
    <3> QED
      BY <1>4, <3>1, <3>2
  <2>2. ASSUME NEW s \in Runs, page'[s] # "none", question'[s] = s
        PROVE  \E x \in DOMAIN list : list[x].role = "user" /\ list[x].run = s
    <3>1. CASE s = r
      BY <1>2, <1>4, <2>2, <3>1
    <3>2. CASE s # r
      <4>1. PICK x \in DOMAIN shown : shown[x].role = "user" /\ shown[x].run = s
        BY <1>2, <2>2, <3>2 DEF Shows
      <4> QED
        BY <1>4, <4>1
    <3> QED
      BY <3>1, <3>2
  <2> QED
    BY <1>1, <1>2, <2>1, <2>2 DEF Shows
<1>6. InItsBubble'
  BY <1>1, <1>2, <1>3, <1>4 DEF InItsBubble, Streams
<1>7. HeldWell'
  <2>1. CASE UNCHANGED <<shown, held>> /\ list = shown /\ q # r
    <3>1. ASSUME held.why = "load", ~held.stale PROVE Shows(held.list)'
      <4>1. Shows(held.list) /\ held' = held
        BY <2>1, <3>1 DEF HeldWell
      <4>2. \A s \in Runs : page'[s] = "done" => page[s] = "done" /\ s # r
        BY <1>2
      <4>3. \A s \in Runs : page'[s] # "none" /\ question'[s] = s => page[s] # "none" /\ question[s] = s
        BY <1>2, <2>1
      <4> QED
        BY <1>1, <4>1, <4>2, <4>3 DEF Shows
    <3>2. held.why = "rate" /\ ~held.stale => held.list = shown
      BY DEF HeldWell
    <3> QED
      BY <1>2, <1>3, <2>1, <3>1, <3>2 DEF HeldWell
  <2>2. CASE Changes(list)
    <3>1. held'.why # "none" => held'.stale
      BY <2>2 DEF Changes, BenchInv, Lists, HeldOf
    <3> QED
      BY <3>1 DEF HeldWell
  <2> QED
    BY <2>1, <2>2 DEF BeginsWith
<1> QED
  BY <1>5, <1>6, <1>7

\* What is stored is kept by every step.
LEMMA RowsKeptStay ==
  ASSUME BenchInv, \A r \in Runs : RowsKept(r), trouble' = 0, [WorkbenchNext]_workbenchVars
  PROVE  \A r \in Runs : RowsKept(r)'
<1>1. ASSUME NEW r \in Runs, Send(r) \/ Research(r) \/ Regenerate(r) \/ AskAgain(r)
      PROVE  \A s \in Runs : RowsKept(s)'
  <2>1. PICK q \in Began \cup {r}, gone \in SUBSET Began : Starts(r, q, gone)
    BY <1>1, PageBegins DEF BeginsWith
  <2>2. /\ page[r] = "none" /\ server' = [server EXCEPT ![r] = "question"]
        /\ question' = [question EXCEPT ![r] = q] /\ UNCHANGED <<db, content>>
    BY <2>1 DEF Starts, Reaches
  <2>3. server'[r] = "question" /\ \A s \in Runs \ {r} : server'[s] = server[s] /\ question'[s] = question[s]
    BY <2>2 DEF BenchInv, PageTypes, Services
  <2> QED
    BY <2>2, <2>3 DEF RowsKept
<1>2. ASSUME NEW r \in Runs, Relay(r) PROVE \A s \in Runs : RowsKept(s)'
  <2>1. /\ server[r] = "relay" /\ UNCHANGED <<db, server, question>>
        /\ \A s \in Runs \ {r} : content'[s] = content[s]
    BY <1>2 DEF Relay, At, client, BenchInv, Services
  <2> QED
    BY <2>1 DEF RowsKept
<1>3. CASE UNCHANGED <<db, server, question, content>>
  BY <1>3 DEF RowsKept
<1>4. ASSUME \/ \E r \in Runs : ReadChunk(r) \/ StreamEnds(r)
             \/ LoadReads \/ LoadShows \/ LoadFails \/ RateStarts \/ RateEnds \/ UNCHANGED workbenchVars
      PROVE  UNCHANGED <<db, server, question, content>>
  BY <1>4 DEF ReadChunk, StreamEnds, LoadReads, LoadShows, LoadFails, RateStarts, RateEnds, Holds,
     workbenchVars, handler, client
<1> QED
  BY <1>1, <1>2, <1>3, <1>4, RowsKeptMove DEF WorkbenchNext

LEMMA CalmInvHolds == WorkbenchSpec => [](BenchInv /\ CalmInv)
<1>1. WorkbenchInit => CalmInv
  <2> SUFFICES ASSUME WorkbenchInit PROVE CalmInv
    OBVIOUS
  <2>1. /\ \A r \in Runs : page[r] = "none" /\ server[r] = "none" /\ content[r] = 0
        /\ shown = <<>> /\ held.why = "load" /\ held.list = <<>>
    BY DEF WorkbenchInit, NoList
  <2>2. \A r \in Runs : RowsKept(r)
    BY <2>1 DEF RowsKept
  <2>3. Shows(shown) /\ Shows(held.list)
    BY <2>1 DEF Shows
  <2>4. InItsBubble /\ HeldWell
    BY <2>1, <2>3 DEF InItsBubble, HeldWell, Waits
  <2> QED
    BY <2>2, <2>3, <2>4 DEF CalmInv
<1>2. BenchInv /\ CalmInv /\ [WorkbenchNext]_workbenchVars => CalmInv'
  <2> SUFFICES ASSUME BenchInv, CalmInv, [WorkbenchNext]_workbenchVars, trouble' = 0 PROVE CalmInv'
    BY DEF CalmInv
  <2>1. trouble = 0
    <3>1. CASE \E r \in Runs : Serve(r)
      <4>1. trouble' \in {trouble, trouble + 1}
        BY <3>1 DEF Serve, StoreQuestion, AskGateway, GatewayEnds, SaveAnswer, AuditAnswer, Fails
      <4> QED
        BY <4>1 DEF BenchInv, Services
    <3>2. CASE ~\E r \in Runs : Serve(r)
      BY <3>2 DEF WorkbenchNext, Send, Research, Regenerate, AskAgain, Starts, ReadChunk,
         StreamEnds, Relay, LoadReads, LoadShows, LoadFails, RateStarts, RateEnds, Holds,
         workbenchVars
    <3> QED
      BY <3>1, <3>2
  <2>2. \A r \in Runs : RowsKept(r)'
    BY <2>1, RowsKeptStay DEF CalmInv
  <2>3. ASSUME ~crossed' PROVE ~crossed /\ Shows(shown)' /\ InItsBubble' /\ HeldWell'
    <3>1. ~crossed
      BY <2>3 DEF WorkbenchNext, Send, Research, Regenerate, AskAgain, Starts, ReadChunk,
         StreamEnds, Serve, Relay, StoreQuestion, AskGateway, GatewayEnds, SaveAnswer,
         AuditAnswer, LoadReads, LoadShows, LoadFails, RateStarts, RateEnds, Holds, Crosses,
         workbenchVars, runHistory
    <3>2. Shows(shown) /\ InItsBubble /\ HeldWell /\ \A r \in Runs : RowsKept(r)
      BY <2>1, <3>1 DEF CalmInv
    <3>3. ASSUME NEW r \in Runs, Send(r) \/ Research(r) \/ Regenerate(r) \/ AskAgain(r)
          PROVE  Shows(shown)' /\ InItsBubble' /\ HeldWell'
      BY <2>3, <3>2, <3>3, PageBegins, BeginShows
    <3>4. ASSUME NEW r \in Runs, Serve(r) \/ Relay(r) PROVE Shows(shown)' /\ InItsBubble' /\ HeldWell'
      <4>1. UNCHANGED <<client, held, removed>>
        BY <3>4 DEF Serve, StoreQuestion, AskGateway, GatewayEnds, SaveAnswer, AuditAnswer,
           Relay, runHistory
      <4>2. ASSUME NEW s \in Runs, page[s] = "done" PROVE content'[s] = content[s]
        <5>1. CASE Serve(r)
          BY <5>1 DEF Serve, StoreQuestion, AskGateway, GatewayEnds, SaveAnswer, AuditAnswer
        <5>2. CASE Relay(r)
          <6>1. server[s] = "closed" /\ server[r] = "relay" /\ content' = [content EXCEPT ![r] = @ + 1]
            BY <4>2, <5>2 DEF BenchInv, OfOneRun, Relay, At
          <6> QED
            BY <6>1 DEF BenchInv, Services
        <5> QED
          BY <3>4, <5>1, <5>2
      <4> QED
        BY <3>2, <4>1, <4>2, PageRests
    <3>5. ASSUME UNCHANGED workbenchVars PROVE Shows(shown)' /\ InItsBubble' /\ HeldWell'
      <4>1. UNCHANGED <<client, held, removed>>
        BY <3>5 DEF workbenchVars, runHistory
      <4>2. \A s \in Runs : page[s] = "done" => content'[s] = content[s]
        BY <3>5 DEF workbenchVars, handler
      <4> QED
        BY <3>2, <4>1, <4>2, PageRests
    <3>6. ASSUME LoadReads \/ LoadShows \/ LoadFails \/ RateStarts \/ RateEnds
          PROVE  Shows(shown)' /\ InItsBubble' /\ HeldWell'
      BY <2>1, <2>3, <3>2, <3>6, ListsShow
    <3>7. ASSUME NEW r \in Runs, ReadChunk(r) \/ StreamEnds(r) PROVE Shows(shown)' /\ InItsBubble' /\ HeldWell'
      BY <3>2, <3>7, ChunkFits, EndShown
    <3> QED
      BY <3>1, <3>3, <3>4, <3>5, <3>6, <3>7 DEF WorkbenchNext
  <2> QED
    BY <2>2, <2>3 DEF CalmInv
<1> QED
  BY <1>1, <1>2, BenchInvHolds, PTL DEF WorkbenchSpec

\* A page that runs one thing at a time shows all of every finished answer and of every question,
\* although all answers stream into bubbles with one id (updateStreamingMessage, removeMessage,
\* fetchMessages, rate): for every number of runs, chunks, loads and ratings.
THEOREM AnswersStayShown == WorkbenchSpec => []AnswersShown
<1>1. CalmInv => AnswersShown
  BY DEF CalmInv, AnswersShown, Shows
<1> QED
  BY <1>1, CalmInvHolds, PTL

-----------------------------------------------------------------------------
(* The workbench implements module Transcript. *)

Phases == [r \in Runs |-> PhaseOf(server[r])]

\* The rows of an answer are the same in both modules.
LEMMA SameAnswers == \A r : Record!Answers(r) = Stored(r)
BY DEF Record!Answers, Record!Answer, Stored, MessageRow

LEMMA PhaseGoes ==
  ASSUME BenchInv, NEW r \in Runs, NEW stop, Reaches(r, stop)
  PROVE  Phases' = [Phases EXCEPT ![r] = PhaseOf(stop)] /\ Phases[r] = PhaseOf(server[r])
<1>1. \A s \in Runs : server'[s] = IF s = r THEN stop ELSE server[s]
  BY DEF BenchInv, Services, Reaches
<1> QED
  BY <1>1 DEF Phases

LEMMA PhaseStays ==
  ASSUME BenchInv, NEW r \in Runs, NEW stop, Reaches(r, stop), PhaseOf(stop) = PhaseOf(server[r])
  PROVE  Phases' = Phases
BY PhaseGoes DEF Phases

\* A handler that is about to store an answer finds none, or the one that was stored before
\* a statement failed.
LEMMA FewStored ==
  ASSUME BenchInv, Copies, NEW r \in Runs
  PROVE  /\ server[r] \in {"none", "question", "gateway", "relay", "save"} => Stored(r) = {}
         /\ server[r] = "rescue" => \/ Stored(r) = {}
                                    \/ trouble > 0 /\ \A j, k \in Stored(r) : j = k
<1> DEFINE c == Cardinality(Stored(r))
<1>1. c \in Nat /\ c <= MayHave(r) /\ IsFiniteSet(Stored(r))
  BY StoredCounts DEF Copies, CopiesOK
<1>2. (c = 0 => Stored(r) = {}) /\ (c = 1 => \E x : Stored(r) = {x})
  BY <1>1, FS_EmptySet, FS_Singleton
<1> HIDE DEF c
<1>3. CASE server[r] \in {"none", "question", "gateway", "relay", "save"}
  <2>1. MayHave(r) = 0
    BY <1>3 DEF MayHave, MayStore
  <2> QED
    BY <1>1, <1>2, <1>3, <2>1
<1>4. CASE server[r] = "rescue"
  <2>1. MayHave(r) = IF trouble > 0 THEN 1 ELSE 0
    BY <1>4 DEF MayHave, MayStore, Again
  <2>2. c = 0 \/ (c = 1 /\ trouble > 0)
    BY <1>1, <2>1
  <2>3. c = 1 => \A j, k \in Stored(r) : j = k
    BY <1>2
  <2> QED
    BY <1>2, <1>4, <2>2, <2>3
<1> QED
  BY <1>3, <1>4

\* What is audited is stored, whatever has failed.
Audited == \A r \in Runs : server[r] \in {"audit", "audit again"} => Stored(r) # {}

LEMMA AuditedAreStored == WorkbenchSpec => []Audited
<1>1. WorkbenchInit => Audited
  BY DEF WorkbenchInit, Audited
<1>2. BenchInv /\ Audited /\ [WorkbenchNext]_workbenchVars => Audited'
  <2> SUFFICES ASSUME BenchInv, Audited, [WorkbenchNext]_workbenchVars PROVE Audited'
    OBVIOUS
  <2>1. server \in [Runs -> Serving \cup Served \cup {"none"}]
    BY DEF BenchInv, Services
  \* Rows stay, and the handler that goes to an audit has stored its answer.
  <2>2. ASSUME NEW r \in Runs, NEW stop, Reaches(r, stop), NEW row \in RowOf(Began),
               db' = db \/ db' = Append(db, row),
               stop \in {"audit", "audit again"} => /\ db' = Append(db, row)
                                                    /\ row = MessageRow("assistant", r)
        PROVE  Audited'
    <3>1. \A s \in Runs : server'[s] = IF s = r THEN stop ELSE server[s]
      BY <2>1, <2>2 DEF Reaches
    <3>2. \A x \in DOMAIN db : x \in DOMAIN db' /\ db'[x] = db[x]
      BY <2>2, DbGrows
    <3>3. \A s \in Runs : Stored(s) # {} => Stored(s)' # {}
      BY <3>2 DEF Stored
    <3>4. stop \in {"audit", "audit again"} => Stored(r)' # {}
      BY <2>2, DbGrows DEF Stored
    <3> QED
      BY <3>1, <3>3, <3>4 DEF Audited
  <2>3. ASSUME NEW r \in Runs, Send(r) \/ Research(r) \/ Regenerate(r) \/ AskAgain(r) PROVE Audited'
    <3>1. PICK q \in Began \cup {r}, gone \in SUBSET Began : Starts(r, q, gone)
      BY <2>3, PageBegins DEF BeginsWith
    <3>2. server' = [server EXCEPT ![r] = "question"] /\ db' = db
      BY <3>1 DEF Starts, Reaches
    <3> QED
      BY <2>1, <3>2 DEF Audited, Stored
  <2>4. ASSUME NEW r \in Runs, Serve(r) PROVE Audited'
    <3>1. r \in Began /\ question[r] \in Began
      <4>1. OfOneRun(r) /\ server[r] # "none"
        BY <2>4 DEF BenchInv, Serve, StoreQuestion, AskGateway, GatewayEnds, SaveAnswer,
           AuditAnswer, At
      <4> QED
        BY <4>1 DEF OfOneRun, Began
    <3>2. MessageRow("user", question[r]) \in RowOf(Began) /\ MessageRow("assistant", r) \in RowOf(Began)
      BY <3>1 DEF MessageRow, RowOf
    <3>3. CASE StoreQuestion(r)
      <4>1. PICK stop \in {"gateway", "refused"} : Reaches(r, stop)
                   /\ (db' = db \/ db' = Append(db, MessageRow("user", question[r])))
        BY <3>3 DEF StoreQuestion, Fails
      <4> QED
        BY <2>2, <3>2, <4>1
    <3>4. CASE AskGateway(r) \/ GatewayEnds(r) \/ AuditAnswer(r)
      <4>1. PICK stop \in {"relay", "refused", "save", "rescue", "closed", "hung"} :
                   Reaches(r, stop) /\ db' = db
        BY <3>4 DEF AskGateway, GatewayEnds, AuditAnswer, Fails
      <4> QED
        BY <2>2, <3>2, <4>1
    <3>5. CASE SaveAnswer(r)
      <4>1. \/ \E stop \in {"closed", "rescue", "hung"} : Reaches(r, stop) /\ db' = db
            \/ \E stop \in {"audit", "audit again"} :
                 Reaches(r, stop) /\ db' = Append(db, MessageRow("assistant", r))
        BY <3>5 DEF SaveAnswer, Fails
      <4> QED
        BY <2>2, <3>2, <4>1
    <3> QED
      BY <2>4, <3>3, <3>4, <3>5 DEF Serve
  <2>5. CASE UNCHANGED <<db, server>>
    BY <2>5 DEF Audited, Stored
  <2>6. ASSUME NEW r \in Runs, ReadChunk(r) \/ StreamEnds(r) \/ Relay(r) PROVE UNCHANGED <<db, server>>
    BY <2>6 DEF ReadChunk, StreamEnds, Relay, handler
  <2>7. ASSUME LoadReads \/ LoadShows \/ LoadFails \/ RateStarts \/ RateEnds \/ UNCHANGED workbenchVars
        PROVE  UNCHANGED <<db, server>>
    BY <2>7 DEF LoadReads, LoadShows, LoadFails, RateStarts, RateEnds, Holds, workbenchVars, handler
  <2> QED
    BY <2>3, <2>4, <2>5, <2>6, <2>7 DEF WorkbenchNext
<1> QED
  BY <1>1, <1>2, BenchInvHolds, PTL DEF WorkbenchSpec

RecordState == <<db, Phases, content, trouble>>

\* Every step of a page and of its handlers is one module Transcript allows: rows are only
\* added, a question before its answer, an answer whole and once unless a statement failed,
\* and no handler ends well that has not stored what it passed on.
THEOREM WorkbenchKeepsPromise == WorkbenchSpec => KeepsTranscript
<1>1. WorkbenchInit => Record!Init
  <2> SUFFICES ASSUME WorkbenchInit PROVE Record!Init
    OBVIOUS
  <2>1. Phases = [r \in Runs |-> "none"]
    BY DEF WorkbenchInit, Phases, PhaseOf
  <2> QED
    BY <2>1 DEF WorkbenchInit, Record!Init, Phases
<1>2. BenchInv /\ Copies /\ Audited /\ [WorkbenchNext]_workbenchVars => [Record!Next]_(Record!vars)
  <2> SUFFICES ASSUME BenchInv, Copies, Audited, [WorkbenchNext]_workbenchVars
               PROVE  Record!Next \/ UNCHANGED RecordState
    BY DEF Record!vars, RecordState, Phases
  <2>1. /\ \A r \in Runs : OfOneRun(r)
        /\ content \in [Runs -> Nat] /\ server \in [Runs -> Serving \cup Served \cup {"none"}]
    BY DEF BenchInv, Services
  <2>2. ASSUME NEW r \in Runs, Send(r) \/ Research(r) \/ Regenerate(r) \/ AskAgain(r)
        PROVE  Record!Next
    <3>1. PICK q \in Began \cup {r}, gone \in SUBSET Began : Starts(r, q, gone)
      BY <2>2, PageBegins DEF BeginsWith
    <3>2. /\ server[r] = "none" /\ Reaches(r, "question")
          /\ UNCHANGED <<db, content, trouble>>
      BY <2>1, <3>1 DEF Starts, OfOneRun
    <3>3. Phases[r] = "none" /\ Phases' = [Phases EXCEPT ![r] = "asked"]
      BY <3>2, PhaseGoes DEF PhaseOf
    <3>4. Record!Ask(r)
      BY <3>2, <3>3 DEF Record!Ask, Record!Moves, Phases
    <3> QED
      BY <3>4 DEF Record!Next
  <2>3. ASSUME NEW r \in Runs, StoreQuestion(r) PROVE Record!Next
    <3>1. Phases[r] = "asked" /\ content' = content
      BY <2>3, PhaseGoes DEF StoreQuestion, At, PhaseOf, Phases
    <3>2. CASE /\ db' = Append(db, MessageRow("user", question[r])) /\ UNCHANGED trouble
               /\ Reaches(r, "gateway")
      <4>1. Phases' = [Phases EXCEPT ![r] = "open"]
        BY <3>2, PhaseGoes DEF PhaseOf
      <4>2. PICK q \in Runs : q = question[r] /\ q \in Began
        BY <2>1, <2>3 DEF OfOneRun, StoreQuestion, At, Began
      <4>3. Phases[q] # "none"
        BY <2>1, <4>2 DEF OfOneRun, Began, Phases, PhaseOf
      <4>4. db' = Append(db, [role |-> "user", run |-> q])
        BY <3>2, <4>2 DEF MessageRow
      <4>5. Record!KeepQuestion(r)
        BY <3>1, <3>2, <4>1, <4>3, <4>4 DEF Record!KeepQuestion, Record!Moves, Phases
      <4> QED
        BY <4>5 DEF Record!Next
    <3>3. CASE Fails(r, "refused")
      <4>1. Phases' = [Phases EXCEPT ![r] = "closed"]
        BY <3>3, PhaseGoes DEF Fails, PhaseOf
      <4>2. Record!Fail
        BY <3>1, <3>3, <4>1 DEF Record!Fail, Record!Moves, Fails, Phases
      <4> QED
        BY <4>2 DEF Record!Next
    <3> QED
      BY <2>3, <3>2, <3>3 DEF StoreQuestion
  <2>4. ASSUME NEW r \in Runs, AskGateway(r) PROVE Record!Next \/ UNCHANGED RecordState
    <3>1. UNCHANGED <<db, content, trouble>> /\ server[r] = "gateway" /\ Phases[r] = "open"
      BY <2>4 DEF AskGateway, At, Phases, PhaseOf
    <3>2. CASE Reaches(r, "relay")
      BY <3>1, <3>2, PhaseStays DEF PhaseOf, RecordState
    <3>3. CASE Reaches(r, "refused")
      <4>1. Phases' = [Phases EXCEPT ![r] = "closed"] /\ content[r] = 0
        BY <2>1, <3>1, <3>3, PhaseGoes DEF PhaseOf, OfOneRun
      <4>2. Record!Close(r)
        BY <3>1, <4>1 DEF Record!Close, Record!Moves, Phases
      <4> QED
        BY <4>2 DEF Record!Next
    <3> QED
      BY <2>4, <3>2, <3>3 DEF AskGateway
  <2>5. ASSUME NEW r \in Runs, Relay(r) PROVE Record!Next
    <3>1. /\ UNCHANGED <<db, Phases, trouble>> /\ Phases[r] = "open" /\ Stored(r) = {}
          /\ content' = [content EXCEPT ![r] = @ + 1]
      BY <2>5, FewStored DEF Relay, At, Phases, PhaseOf
    <3>2. Record!Stream(r)
      BY <3>1, SameAnswers DEF Record!Stream, Phases
    <3> QED
      BY <3>2 DEF Record!Next
  <2>6. ASSUME NEW r \in Runs, GatewayEnds(r) PROVE UNCHANGED RecordState
    BY <2>6, PhaseStays DEF GatewayEnds, At, PhaseOf, RecordState
  <2>7. ASSUME NEW r \in Runs, Fails(r, "rescue") \/ Fails(r, "hung"), Phases[r] = "open",
               UNCHANGED content
        PROVE  Record!Next
    <3>1. Phases' = Phases \/ Phases' = [Phases EXCEPT ![r] = "closed"]
      <4>1. CASE Reaches(r, "rescue")
        BY <2>7, <4>1, PhaseStays DEF PhaseOf, Phases
      <4>2. CASE Reaches(r, "hung")
        BY <4>2, PhaseGoes DEF PhaseOf
      <4> QED
        BY <2>7, <4>1, <4>2 DEF Fails
    <3>2. Record!Fail
      BY <2>7, <3>1 DEF Record!Fail, Record!Moves, Fails, Phases
    <3> QED
      BY <3>2 DEF Record!Next
  <2>8. ASSUME NEW r \in Runs, SaveAnswer(r) PROVE Record!Next
    <3>1. Phases[r] = "open" /\ content' = content /\ server[r] \in {"save", "rescue"}
      BY <2>8 DEF SaveAnswer, Phases, PhaseOf
    <3>2. CASE content[r] = 0 /\ Reaches(r, "closed") /\ UNCHANGED <<db, trouble>>
      <4>1. Phases' = [Phases EXCEPT ![r] = "closed"]
        BY <3>2, PhaseGoes DEF PhaseOf
      <4>2. Record!Close(r)
        BY <3>1, <3>2, <4>1 DEF Record!Close, Record!Moves, Phases
      <4> QED
        BY <4>2 DEF Record!Next
    <3>3. CASE /\ content[r] > 0 /\ db' = Append(db, MessageRow("assistant", r)) /\ UNCHANGED trouble
               /\ Reaches(r, IF At(r, "save") THEN "audit" ELSE "audit again")
      <4>1. Phases' = Phases
        BY <3>1, <3>3, PhaseStays DEF PhaseOf, At
      <4>2. Stored(r) = {} \/ (trouble > 0 /\ \A j, k \in Stored(r) : j = k)
        BY <3>1, FewStored
      <4>3. Record!KeepAnswer(r)
        BY <3>1, <3>3, <4>1, <4>2, SameAnswers DEF Record!KeepAnswer, Record!Answer, MessageRow, Phases
      <4> QED
        BY <4>3 DEF Record!Next
    <3>4. CASE Fails(r, IF At(r, "save") THEN "rescue" ELSE "hung")
      BY <2>7, <3>1, <3>4
    <3> QED
      BY <2>8, <3>2, <3>3, <3>4 DEF SaveAnswer
  <2>9. ASSUME NEW r \in Runs, AuditAnswer(r) PROVE Record!Next
    <3>1. Phases[r] = "open" /\ content' = content /\ Stored(r) # {}
      BY <2>9 DEF AuditAnswer, Phases, PhaseOf, Audited
    <3>2. CASE Reaches(r, "closed") /\ UNCHANGED <<db, trouble>>
      <4>1. Phases' = [Phases EXCEPT ![r] = "closed"]
        BY <3>2, PhaseGoes DEF PhaseOf
      <4>2. Record!Close(r)
        BY <3>1, <3>2, <4>1, SameAnswers DEF Record!Close, Record!Moves, Phases
      <4> QED
        BY <4>2 DEF Record!Next
    <3>3. CASE Fails(r, IF At(r, "audit") THEN "rescue" ELSE "hung")
      BY <2>7, <3>1, <3>3
    <3> QED
      BY <2>9, <3>2, <3>3 DEF AuditAnswer
  <2>10. ASSUME NEW r \in Runs, ReadChunk(r) \/ StreamEnds(r) PROVE UNCHANGED RecordState
    BY <2>10 DEF ReadChunk, StreamEnds, handler, RecordState, Phases
  <2>11. ASSUME LoadReads \/ LoadShows \/ LoadFails \/ RateStarts \/ RateEnds \/ UNCHANGED workbenchVars
         PROVE  UNCHANGED RecordState
    BY <2>11 DEF LoadReads, LoadShows, LoadFails, RateStarts, RateEnds, Holds, workbenchVars,
       handler, RecordState, Phases
  <2> QED
    BY <2>2, <2>3, <2>4, <2>5, <2>6, <2>8, <2>9, <2>10, <2>11 DEF WorkbenchNext, Serve
<1> QED
  BY <1>1, <1>2, BenchInvHolds, CopiesHold, AuditedAreStored, PTL
     DEF WorkbenchSpec, KeepsTranscript, Record!Spec
==============================================================================
