----------------------------- MODULE QuotaProofs -----------------------------
(***************************************************************************)
(* Theorems about the plan allowance, for any number of calls, plans,      *)
(* activations and buckets: its types, the exact balance of its counters,  *)
(* that no more calls are counted than allowed, and that no call is        *)
(* refused while there is room. The second part is about billing, where    *)
(* allowances come from: its types, that an invoice is confirmed once, and *)
(* that the subscription's row follows Stripe.                             *)
(***************************************************************************)
EXTENDS Quota, Billing, FiniteSetTheorems, TLAPS

Undo == {"undoMonth", "undoDay"}

\* A call that is being counted has a plan that limits its bucket.
Limited(c) ==
  /\ pc[c] \in {"month", "undoMonth"} =>
       bucket[c] \in Months /\ lim[c] \in Plans /\ MonthLimited(lim[c])
  /\ pc[c] \in {"day", "undoDay"} =>
       bucket[c] \in Days /\ lim[c] \in Plans /\ DayLimited(lim[c])

\* A call is in the books of a bucket only after its INCR there.
Booked(c, b) == c \in counted[b] \cup strays[b] \cup leaked[b]
Unbooked(c) ==
  /\ pc[c] \in {"idle", "month"} => \A b \in Buckets : ~Booked(c, b)
  /\ pc[c] = "day" => \A b \in Days : ~Booked(c, b)
  /\ pc[c] \in Undo => c \notin counted[bucket[c]] \cup leaked[bucket[c]]

CallInv == \A c \in Calls : Limited(c) /\ Unbooked(c)

\* The invariant of one bucket b: its counter n, the calls S counted, T astray,
\* L leaked and U on their way out, and the plans f the calls have read.
BucketOK(b, n, S, T, L, U, f) ==
  /\ n + Cardinality(T \ U) = Cardinality(S) + Cardinality(U \ T) + Cardinality(L)
  /\ S # {} => \E c \in S : f[c] \in Plans /\ Cardinality(S) <= Cap(f[c], b) + Cardinality(T \ U)
  /\ U \ T # {} => \E plan \in Plans : /\ Cap(plan, b) >= 0
                                       /\ Cardinality(S) + Cardinality(L) >= Cap(plan, b)
QuotaInv == \A b \in Buckets :
  BucketOK(b, count[GatewayDB][b], counted[b], strays[b], leaked[b], Undoing(b), lim)

\* Every set of calls is finite.
LEMMA CallSets ==
  ASSUME NEW S \in SUBSET Calls
  PROVE  IsFiniteSet(S) /\ Cardinality(S) \in Nat
BY ConstantsOK, FS_Subset, FS_CardinalityType

\* One call more.
LEMMA PlusOne ==
  ASSUME NEW S \in SUBSET Calls, NEW c \in Calls \ S
  PROVE  Cardinality(S \cup {c}) = Cardinality(S) + 1
BY CallSets, FS_AddElement

\* One call less.
LEMMA MinusOne ==
  ASSUME NEW S \in SUBSET Calls, NEW c \in S
  PROVE  Cardinality(S \ {c}) = Cardinality(S) - 1
BY CallSets, FS_RemoveElement

\* A counter that is set to 0 leaves its database's counters integers.
LEMMA CounterReset ==
  ASSUME NEW f \in [Buckets -> Int], NEW b \in Buckets
  PROVE  [f EXCEPT ![b] = 0] \in [Buckets -> Int]
OBVIOUS

\* Calls, activations and counters keep their types; a counter may be negative,
\* when the DECR of a refused call comes after a reset.
THEOREM QuotaTypes == Spec => []TypeOK
<1> USE ConstantsOK DEF TypeOK, Time, Buckets, DBs, Stops, JobStops, Cached, GoTo, calls, jobs, ghosts
<1>1. Init => TypeOK
  <2> SUFFICES ASSUME Init PROVE TypeOK
    OBVIOUS
  <2>1. DayOf[0] \in Days
    OBVIOUS
  <2> QED
    BY <2>1 DEF Init
<1>2. TypeOK /\ [Next]_vars => TypeOK'
  <2> SUFFICES ASSUME TypeOK, [Next]_vars PROVE TypeOK'
    OBVIOUS
  <2>1. ASSUME NEW c \in Calls, Unlimited(c) PROVE TypeOK'
    BY <2>1 DEF Unlimited
  <2>2. ASSUME NEW c \in Calls, ReadLimits(c) PROVE TypeOK'
    <3>1. Read(GatewayDB) \in Plans \cup {NoPlan}
      BY DEF Read
    <3>2. lim' \in [Calls -> Plans \cup {NoPlan}]
      BY <2>2, <3>1 DEF ReadLimits
    <3>3. pc' \in [Calls -> Stops]
      <4>1. pc \in [Calls -> Stops]
        OBVIOUS
      <4> HIDE DEF TypeOK
      <4>2. \E stop \in {"month", "day", "admitted"} : pc' = [pc EXCEPT ![c] = stop]
        BY <2>2 DEF ReadLimits
      <4> QED
        BY <4>1, <4>2
    <3>4. DayOf[now] \in Buckets /\ MonthOf[now] \in Buckets
      OBVIOUS
    <3>5. bucket' \in [Calls -> Buckets]
      <4> HIDE DEF Buckets
      <4> QED
        BY <2>2, <3>4 DEF ReadLimits
    <3> QED
      BY <2>2, <3>2, <3>3, <3>5 DEF ReadLimits
  <2>3. ASSUME NEW c \in Calls, Proceed(c)
        PROVE  pc' \in [Calls -> Stops] /\ bucket' \in [Calls -> Buckets]
    <3>1. PICK stop \in Stops, b \in Buckets :
            pc' = [pc EXCEPT ![c] = stop] /\ bucket' = [bucket EXCEPT ![c] = b]
      <4>1. CASE pc[c] = "month" /\ DayLimited(lim[c])
        <5>1. DayOf[now] \in Buckets
          OBVIOUS
        <5> QED
          BY <2>3, <4>1, <5>1 DEF Proceed
      <4>2. CASE ~(pc[c] = "month" /\ DayLimited(lim[c]))
        <5>1. bucket[c] \in Buckets /\ bucket = [bucket EXCEPT ![c] = bucket[c]]
          OBVIOUS
        <5> QED
          BY <2>3, <4>2, <5>1 DEF Proceed
      <4> QED
        BY <4>1, <4>2
    <3> QED
      BY <3>1
  <2>4. ASSUME NEW c \in Calls, NEW n \in {1, -1}, Add(n, bucket[c])
        PROVE  count' \in [DBs -> [Buckets -> Int]]
    <3>1. count[GatewayDB] \in [Buckets -> Int] /\ GatewayDB \in DBs /\ bucket[c] \in Buckets
      OBVIOUS
    <3>2. PICK k \in Int : k = count[GatewayDB][bucket[c]] + n
      BY <3>1
    <3>3. count' = [count EXCEPT ![GatewayDB] = [count[GatewayDB] EXCEPT ![bucket[c]] = k]]
      BY <2>4, <3>2 DEF Add
    <3> QED
      BY <3>1, <3>3
  <2>5. ASSUME NEW c \in Calls, CountIn(c) PROVE TypeOK'
    BY <2>3, <2>4, <2>5 DEF CountIn
  <2>6. ASSUME NEW c \in Calls, CountOut(c) PROVE TypeOK'
    BY <2>4, <2>6 DEF CountOut
  <2>7. ASSUME NEW c \in Calls, CountFails(c) PROVE TypeOK'
    BY <2>3, <2>7 DEF CountFails
  <2>8. ASSUME NEW c \in Calls, TakeBack(c) PROVE TypeOK'
    BY <2>4, <2>8 DEF TakeBack
  <2>9. ASSUME NEW c \in Calls, TakeBackFails(c) PROVE TypeOK'
    BY <2>9 DEF TakeBackFails
  <2>10. ASSUME NEW db \in DBs, NEW b \in Buckets, Restart(db, b)
         PROVE  /\ count' \in [DBs -> [Buckets -> Int]]
                /\ counted' \in [Buckets -> SUBSET Calls]
                /\ strays' \in [Buckets -> SUBSET Calls]
                /\ leaked' \in [Buckets -> SUBSET Calls]
    <3>1. count' \in [DBs -> [Buckets -> Int]]
      <4>1. count[db] \in [Buckets -> Int]
        OBVIOUS
      <4>2. [count[db] EXCEPT ![b] = 0] \in [Buckets -> Int]
        BY <4>1, CounterReset
      <4>3. count' = [count EXCEPT ![db] = [count[db] EXCEPT ![b] = 0]]
        BY <2>10 DEF Restart
      <4> QED
        BY <4>2, <4>3
    <3>2. Undoing(b) \in SUBSET Calls
      BY DEF Undoing
    <3>3. CASE db = GatewayDB
      <4>1. /\ counted' = [counted EXCEPT ![b] = {}] /\ leaked' = [leaked EXCEPT ![b] = {}]
            /\ strays' = [strays EXCEPT ![b] = Undoing(b)]
        BY <2>10, <3>3 DEF Restart
      <4> QED
        BY <3>1, <3>2, <4>1
    <3>4. CASE db # GatewayDB
      BY <2>10, <3>1, <3>4 DEF Restart
    <3> QED
      BY <3>3, <3>4
  <2>11. CASE Enrol
    BY <2>11 DEF Enrol
  <2>12. ASSUME NEW j \in Activations, NEW plan \in Plans, Activate(j, plan) PROVE TypeOK'
    BY <2>12 DEF Activate
  <2>13. ASSUME NEW j \in Activations, ReadBack(j) PROVE TypeOK'
    BY <2>13 DEF ReadBack
  <2>14. ASSUME NEW j \in Activations, ResetDay(j) PROVE TypeOK'
    BY <2>10, <2>14 DEF ResetDay
  <2>15. ASSUME NEW j \in Activations, ResetMonth(j) PROVE TypeOK'
    BY <2>10, <2>15 DEF ResetMonth
  <2>16. ASSUME NEW j \in Activations, WriteLimits(j) PROVE TypeOK'
    <3>1. [plan |-> seen[j], until |-> now + LimitsTTL] \in Cached
      OBVIOUS
    <3>2. limits' \in [DBs -> Cached]
      BY <2>16, <3>1 DEF WriteLimits
    <3>3. job' \in [Activations -> JobStops]
      BY <2>16 DEF WriteLimits
    <3> QED
      BY <2>16, <3>2, <3>3 DEF WriteLimits
  <2>17. CASE Tick
    BY <2>17, SMTT(30) DEF Tick
  <2>18. ASSUME NEW db \in DBs, EvictLimits(db) PROVE TypeOK'
    BY <2>18 DEF EvictLimits
  <2>19. ASSUME NEW db \in DBs, NEW b \in Buckets, EvictCounter(db, b) PROVE TypeOK'
    BY <2>10, <2>19 DEF EvictCounter
  <2>20. CASE UNCHANGED vars
    BY <2>20 DEF vars
  <2> HIDE DEF TypeOK
  <2> QED
    BY <2>1, <2>2, <2>5, <2>6, <2>7, <2>8, <2>9, <2>11, <2>12, <2>13, <2>14, <2>15, <2>16,
       <2>17, <2>18, <2>19, <2>20 DEF Next
<1> QED
  BY <1>1, <1>2, PTL DEF Spec

-----------------------------------------------------------------------------
(* The calls and the books. *)

\* A call that does not move, and enters no book, keeps its invariant.
LEMMA CallRests ==
  ASSUME TypeOK, NEW d \in Calls, Limited(d), Unbooked(d),
         pc'[d] = pc[d], bucket'[d] = bucket[d], lim'[d] = lim[d],
         \A b \in Buckets : /\ d \in counted'[b] => d \in counted[b]
                            /\ d \in strays'[b] => d \in strays[b] \/ pc[d] \in Undo
                            /\ d \in leaked'[b] => d \in leaked[b]
  PROVE  Limited(d)' /\ Unbooked(d)'
<1>1. Limited(d)'
  BY DEF Limited, MonthLimited, DayLimited
<1>2. ASSUME NEW b \in Buckets, ~Booked(d, b), pc[d] \notin Undo PROVE ~Booked(d, b)'
  <2>1. d \notin counted[b] /\ d \notin strays[b] /\ d \notin leaked[b]
    BY <1>2 DEF Booked
  <2>2. d \notin counted'[b] /\ d \notin strays'[b] /\ d \notin leaked'[b]
    BY <1>2, <2>1
  <2> QED
    BY <2>2 DEF Booked
<1>3. pc'[d] \in {"idle", "month"} => \A b \in Buckets : ~Booked(d, b)'
  BY <1>2 DEF Unbooked, Undo
<1>4. pc'[d] = "day" => \A b \in Days : ~Booked(d, b)'
  BY <1>2 DEF Unbooked, Undo, Buckets
<1>5. pc'[d] \in Undo => d \notin counted'[bucket'[d]] \cup leaked'[bucket'[d]]
  <2>1. bucket[d] \in Buckets
    BY DEF TypeOK
  <2> QED
    BY <2>1 DEF Unbooked
<1>6. Unbooked(d)'
  BY <1>3, <1>4, <1>5 DEF Unbooked
<1> QED
  BY <1>1, <1>6

\* A call is in the books of a bucket only after its INCR there.
LEMMA CallInvHolds == Spec => []CallInv
<1>1. Init => CallInv
  BY DEF Init, CallInv, Limited, Unbooked, Booked, Undo, Buckets
<1>2. TypeOK /\ CallInv /\ [Next]_vars => CallInv'
  <2> SUFFICES ASSUME TypeOK, CallInv, [Next]_vars, NEW d \in Calls
               PROVE  Limited(d)' /\ Unbooked(d)'
    BY DEF CallInv
  <2>0. /\ Limited(d) /\ Unbooked(d)
        /\ now \in Time /\ pc \in [Calls -> Stops] /\ bucket \in [Calls -> Buckets]
        /\ lim \in [Calls -> Plans \cup {NoPlan}]
        /\ counted \in [Buckets -> SUBSET Calls] /\ strays \in [Buckets -> SUBSET Calls]
        /\ leaked \in [Buckets -> SUBSET Calls]
    BY DEF CallInv, TypeOK
  <2>d. DayOf[now] \in Days /\ MonthOf[now] \in Months
    BY <2>0, ConstantsOK
  <2>1. ASSUME NEW c \in Calls, Unlimited(c) PROVE Limited(d)' /\ Unbooked(d)'
    <3>1. CASE c = d
      BY <2>0, <2>1, <3>1 DEF Unlimited, GoTo, Limited, Unbooked, Undo
    <3>2. CASE c # d
      BY <2>0, <2>1, <3>2, CallRests DEF Unlimited, GoTo, ghosts
    <3> QED
      BY <3>1, <3>2
  <2>2. ASSUME NEW c \in Calls, ReadLimits(c) PROVE Limited(d)' /\ Unbooked(d)'
    <3>1. CASE c = d
      <4>1. PICK plan \in Plans :
              /\ lim' = [lim EXCEPT ![c] = plan]
              /\ \/ /\ MonthLimited(plan) /\ pc' = [pc EXCEPT ![c] = "month"]
                    /\ bucket' = [bucket EXCEPT ![c] = MonthOf[now]]
                 \/ /\ DayLimited(plan) /\ pc' = [pc EXCEPT ![c] = "day"]
                    /\ bucket' = [bucket EXCEPT ![c] = DayOf[now]]
                 \/ pc' = [pc EXCEPT ![c] = "admitted"]
        <5>1. Read(GatewayDB) \in Plans \cup {NoPlan}
          BY DEF TypeOK, Read, Cached, DBs
        <5> QED
          BY <2>2, <5>1, Zenon DEF ReadLimits, GoTo
      <4>2. pc[d] = "idle" /\ UNCHANGED ghosts
        BY <2>2, <3>1 DEF ReadLimits
      <4>3. Limited(d)'
        BY <2>0, <2>d, <3>1, <4>1, <4>2 DEF Limited, MonthLimited, DayLimited
      <4>4. Unbooked(d)'
        BY <2>0, <3>1, <4>1, <4>2 DEF Unbooked, Booked, Undo, Buckets, ghosts
      <4> QED
        BY <4>3, <4>4
    <3>2. CASE c # d
      <4>1. pc'[d] = pc[d] /\ bucket'[d] = bucket[d] /\ lim'[d] = lim[d]
        BY <2>0, <2>2, <3>2 DEF ReadLimits, GoTo
      <4> QED
        BY <2>0, <2>2, <4>1, CallRests DEF ReadLimits, ghosts
    <3> QED
      BY <3>1, <3>2
  <2>3. ASSUME NEW c \in Calls, Proceed(c), pc[c] \in {"month", "day"}, lim' = lim,
               \/ counted' = counted
               \/ counted' = [counted EXCEPT ![bucket[c]] = @ \cup {c}],
               UNCHANGED <<strays, leaked>>
        PROVE  Limited(d)' /\ Unbooked(d)'
    <3>1. CASE c = d
      <4>1. \/ /\ pc[c] = "month" /\ DayLimited(lim[c]) /\ pc'[c] = "day"
               /\ bucket'[c] = DayOf[now]
            \/ pc'[c] = "admitted"
        BY <2>0, <2>3 DEF Proceed, GoTo
      <4>2. CASE pc'[c] = "admitted"
        BY <3>1, <4>2 DEF Limited, Unbooked, Undo
      <4>3. CASE pc[c] = "month" /\ DayLimited(lim[c]) /\ pc'[c] = "day" /\ bucket'[c] = DayOf[now]
        <5>1. bucket[c] \in Months /\ lim[c] \in Plans /\ \A b \in Buckets : ~Booked(c, b)
          BY <2>0, <3>1, <4>3 DEF Limited, Unbooked
        <5>2. \A b \in Days : b \in Buckets /\ b # bucket[c]
          BY <5>1, ConstantsOK DEF Buckets
        <5>3. \A b \in Days : counted'[b] = counted[b]
          BY <2>0, <2>3, <5>2
        <5> QED
          BY <2>d, <2>3, <3>1, <4>3, <5>1, <5>2, <5>3 DEF Limited, Unbooked, Booked, Undo,
             DayLimited
      <4> QED
        BY <4>1, <4>2, <4>3
    <3>2. CASE c # d
      <4>1. pc'[d] = pc[d] /\ bucket'[d] = bucket[d] /\ lim'[d] = lim[d]
        BY <2>0, <2>3, <3>2 DEF Proceed, GoTo
      <4>2. \A b \in Buckets : d \in counted'[b] => d \in counted[b]
        BY <2>0, <2>3, <3>2
      <4> QED
        BY <2>0, <2>3, <4>1, <4>2, CallRests
    <3> QED
      BY <3>1, <3>2
  <2>4. ASSUME NEW c \in Calls, CountOut(c) PROVE Limited(d)' /\ Unbooked(d)'
    <3>1. CASE c = d
      <4>1. /\ \/ pc[c] = "month" /\ pc'[c] = "undoMonth"
               \/ pc[c] = "day" /\ pc'[c] = "undoDay"
            /\ UNCHANGED <<lim, bucket, counted, strays, leaked>>
        BY <2>0, <2>4 DEF CountOut, GoTo, ghosts
      <4>2. Limited(d)'
        BY <2>0, <3>1, <4>1 DEF Limited, MonthLimited, DayLimited
      <4>3. ~Booked(c, bucket[c])
        BY <2>0, <3>1, <4>1 DEF Limited, Unbooked
      <4>4. Unbooked(d)'
        BY <3>1, <4>1, <4>3 DEF Unbooked, Booked, Undo
      <4> QED
        BY <4>2, <4>4
    <3>2. CASE c # d
      BY <2>0, <2>4, <3>2, CallRests DEF CountOut, GoTo, ghosts
    <3> QED
      BY <3>1, <3>2
  <2>5. ASSUME NEW c \in Calls, TakeBack(c) \/ TakeBackFails(c) PROVE Limited(d)' /\ Unbooked(d)'
    <3>1. CASE c = d
      <4>1. pc'[d] = "refused"
        BY <2>0, <2>5, <3>1 DEF TakeBack, TakeBackFails, GoTo
      <4> QED
        BY <4>1 DEF Limited, Unbooked, Undo
    <3>2. CASE c # d
      <4>1. pc'[d] = pc[d] /\ bucket'[d] = bucket[d] /\ lim'[d] = lim[d]
        BY <2>0, <2>5, <3>2 DEF TakeBack, TakeBackFails, GoTo
      <4>2. counted' = counted
        BY <2>5 DEF TakeBack, TakeBackFails, ghosts
      <4>3. \A b \in Buckets : d \in strays'[b] => d \in strays[b]
        BY <2>0, <2>5, <3>2 DEF TakeBack, TakeBackFails, ghosts
      <4>4. \A b \in Buckets : d \in leaked'[b] => d \in leaked[b]
        BY <2>0, <2>5, <3>2 DEF TakeBack, TakeBackFails, ghosts
      <4> QED
        BY <2>0, <4>1, <4>2, <4>3, <4>4, CallRests
    <3> QED
      BY <3>1, <3>2
  <2>6. ASSUME NEW db \in DBs, NEW e \in Buckets, Restart(db, e), UNCHANGED calls
        PROVE  Limited(d)' /\ Unbooked(d)'
    <3>1. \A b \in Buckets : /\ d \in counted'[b] => d \in counted[b]
                             /\ d \in strays'[b] => d \in strays[b] \/ pc[d] \in Undo
                             /\ d \in leaked'[b] => d \in leaked[b]
      <4>1. CASE db = GatewayDB
        <5>1. /\ counted' = [counted EXCEPT ![e] = {}] /\ leaked' = [leaked EXCEPT ![e] = {}]
              /\ strays' = [strays EXCEPT ![e] = Undoing(e)]
          BY <2>6, <4>1 DEF Restart
        <5>2. d \in Undoing(e) => pc[d] \in Undo
          BY DEF Undoing, Undo
        <5> QED
          BY <2>0, <5>1, <5>2
      <4>2. CASE db # GatewayDB
        BY <2>6, <4>2 DEF Restart, ghosts
      <4> QED
        BY <4>1, <4>2
    <3> QED
      BY <2>0, <2>6, <3>1, CallRests DEF calls
  <2>7. ASSUME UNCHANGED calls, UNCHANGED ghosts PROVE Limited(d)' /\ Unbooked(d)'
    BY <2>0, <2>7, CallRests DEF calls, ghosts
  <2>8. ASSUME NEW c \in Calls, CountIn(c) \/ CountFails(c) PROVE Limited(d)' /\ Unbooked(d)'
    BY <2>3, <2>8 DEF CountIn, CountFails, ghosts
  <2>9. ASSUME NEW j \in Activations, ResetDay(j) \/ ResetMonth(j)
        PROVE  Limited(d)' /\ Unbooked(d)'
    <3>1. stamp[j] \in Time
      BY DEF TypeOK
    <3> QED
      BY <2>6, <2>9, <3>1, ConstantsOK DEF ResetDay, ResetMonth, DBs, Buckets
  <2>10. ASSUME NEW db \in DBs, NEW b \in Buckets, EvictCounter(db, b)
         PROVE  Limited(d)' /\ Unbooked(d)'
    BY <2>6, <2>10 DEF EvictCounter
  <2>11. CASE \/ Enrol \/ Tick \/ (\E db \in DBs : EvictLimits(db)) \/ UNCHANGED vars
              \/ \E j \in Activations :
                   \/ \E plan \in Plans : Activate(j, plan)
                   \/ ReadBack(j) \/ WriteLimits(j)
    BY <2>7, <2>11 DEF Enrol, Tick, EvictLimits, vars, Activate, ReadBack, WriteLimits, calls
  <2> QED
    BY <2>1, <2>2, <2>4, <2>5, <2>8, <2>9, <2>10, <2>11 DEF Next
<1> QED
  BY <1>1, <1>2, QuotaTypes, PTL DEF Spec

-----------------------------------------------------------------------------
(* What each command does to a bucket. *)

\* The cap of a plan is an integer, negative for no limit.
LEMMA CapType == ASSUME NEW plan \in Plans, NEW b PROVE Cap(plan, b) \in Int
BY ConstantsOK DEF Cap

\* A call within the cap is counted.
LEMMA CountedIn ==
  ASSUME NEW b \in Buckets, NEW n \in Int, NEW S \in SUBSET Calls, NEW T \in SUBSET Calls,
         NEW L \in SUBSET Calls, NEW U \in SUBSET Calls, NEW f, BucketOK(b, n, S, T, L, U, f),
         NEW c \in Calls \ S, f[c] \in Plans, n + 1 <= Cap(f[c], b)
  PROVE  BucketOK(b, n + 1, S \cup {c}, T, L, U, f)
<1>1. Cardinality(S \cup {c}) = Cardinality(S) + 1
  BY PlusOne
<1>2. /\ Cardinality(S) \in Nat /\ Cardinality(T \ U) \in Nat /\ Cardinality(U \ T) \in Nat
      /\ Cardinality(L) \in Nat
  BY CallSets
<1>3. n + Cardinality(T \ U) = Cardinality(S) + Cardinality(U \ T) + Cardinality(L)
  BY DEF BucketOK
<1>4. Cap(f[c], b) \in Int
  BY CapType
<1>5. (n + 1) + Cardinality(T \ U) = Cardinality(S \cup {c}) + Cardinality(U \ T) + Cardinality(L)
  BY <1>1, <1>2, <1>3
<1>6. \E d \in S \cup {c} :
        f[d] \in Plans /\ Cardinality(S \cup {c}) <= Cap(f[d], b) + Cardinality(T \ U)
  <2>1. Cardinality(S \cup {c}) <= Cap(f[c], b) + Cardinality(T \ U)
    BY <1>1, <1>2, <1>4, <1>5
  <2> QED
    BY <2>1
<1>7. ASSUME U \ T # {}
      PROVE  \E plan \in Plans : /\ Cap(plan, b) >= 0
                                 /\ Cardinality(S \cup {c}) + Cardinality(L) >= Cap(plan, b)
  <2>1. PICK plan \in Plans : Cap(plan, b) >= 0 /\ Cardinality(S) + Cardinality(L) >= Cap(plan, b)
    BY <1>7 DEF BucketOK
  <2>2. Cardinality(S \cup {c}) + Cardinality(L) >= Cap(plan, b)
    BY <1>1, <1>2, <2>1, CapType
  <2> QED
    BY <2>1, <2>2
<1> QED
  BY <1>5, <1>6, <1>7 DEF BucketOK

\* A call over the cap is on its way out.
LEMMA CountedOut ==
  ASSUME NEW b \in Buckets, NEW n \in Int, NEW S \in SUBSET Calls, NEW T \in SUBSET Calls,
         NEW L \in SUBSET Calls, NEW U \in SUBSET Calls, NEW f, BucketOK(b, n, S, T, L, U, f),
         NEW c \in Calls, c \notin U \cup T, f[c] \in Plans, Cap(f[c], b) >= 0, n + 1 > Cap(f[c], b)
  PROVE  BucketOK(b, n + 1, S, T, L, U \cup {c}, f)
<1>1. (U \cup {c}) \ T = (U \ T) \cup {c} /\ T \ (U \cup {c}) = T \ U
  OBVIOUS
<1>2. Cardinality((U \cup {c}) \ T) = Cardinality(U \ T) + 1
  BY <1>1, PlusOne
<1>3. /\ Cardinality(S) \in Nat /\ Cardinality(T \ U) \in Nat /\ Cardinality(U \ T) \in Nat
      /\ Cardinality(L) \in Nat
  BY CallSets
<1>4. n + Cardinality(T \ U) = Cardinality(S) + Cardinality(U \ T) + Cardinality(L)
  BY DEF BucketOK
<1>5. (n + 1) + Cardinality(T \ (U \cup {c})) =
        Cardinality(S) + Cardinality((U \cup {c}) \ T) + Cardinality(L)
  <2>1. Cardinality(T \ (U \cup {c})) = Cardinality(T \ U)
    BY <1>1
  <2> QED
    BY <1>2, <1>3, <1>4, <2>1
<1>6. \E plan \in Plans : Cap(plan, b) >= 0 /\ Cardinality(S) + Cardinality(L) >= Cap(plan, b)
  <2>1. CASE U \ T = {}
    <3>1. Cardinality(U \ T) = 0
      BY <2>1, FS_EmptySet
    <3>2. Cap(f[c], b) \in Int
      BY CapType
    <3>3. Cardinality(S) + Cardinality(L) >= Cap(f[c], b)
      BY <1>3, <1>4, <3>1, <3>2
    <3> QED
      BY <3>3
  <2>2. CASE U \ T # {}
    BY <2>2 DEF BucketOK
  <2> QED
    BY <2>1, <2>2
<1>7. S # {} => \E d \in S :
        f[d] \in Plans /\ Cardinality(S) <= Cap(f[d], b) + Cardinality(T \ (U \cup {c}))
  BY <1>1 DEF BucketOK
<1> QED
  BY <1>5, <1>6, <1>7 DEF BucketOK

\* A DECR takes the call back, or the reset that overtook it already has.
LEMMA TakenBack ==
  ASSUME NEW b \in Buckets, NEW n \in Int, NEW S \in SUBSET Calls, NEW T \in SUBSET Calls,
         NEW L \in SUBSET Calls, NEW U \in SUBSET Calls, NEW f, BucketOK(b, n, S, T, L, U, f),
         NEW c \in U
  PROVE  BucketOK(b, n - 1, S, T, L, U \ {c}, f)
<1>1. /\ Cardinality(S) \in Nat /\ Cardinality(T \ U) \in Nat /\ Cardinality(U \ T) \in Nat
      /\ Cardinality(L) \in Nat
  BY CallSets
<1>2. n + Cardinality(T \ U) = Cardinality(S) + Cardinality(U \ T) + Cardinality(L)
  BY DEF BucketOK
<1>3. /\ (n - 1) + Cardinality(T \ (U \ {c})) =
            Cardinality(S) + Cardinality((U \ {c}) \ T) + Cardinality(L)
      /\ Cardinality(T \ (U \ {c})) >= Cardinality(T \ U)
      /\ Cardinality(T \ (U \ {c})) \in Nat
  <2>1. CASE c \in T
    <3>1. T \ (U \ {c}) = (T \ U) \cup {c} /\ (U \ {c}) \ T = U \ T
      BY <2>1
    <3>2. Cardinality(T \ (U \ {c})) = Cardinality(T \ U) + 1
      BY <2>1, <3>1, PlusOne
    <3>3. Cardinality((U \ {c}) \ T) = Cardinality(U \ T)
      BY <3>1
    <3> QED
      BY <1>1, <1>2, <3>2, <3>3
  <2>2. CASE c \notin T
    <3>1. T \ (U \ {c}) = T \ U /\ (U \ {c}) \ T = (U \ T) \ {c}
      BY <2>2
    <3>2. Cardinality((U \ {c}) \ T) = Cardinality(U \ T) - 1
      BY <2>2, <3>1, MinusOne
    <3>3. Cardinality(T \ (U \ {c})) = Cardinality(T \ U)
      BY <3>1
    <3> QED
      BY <1>1, <1>2, <3>2, <3>3
  <2> QED
    BY <2>1, <2>2
<1>4. ASSUME S # {}
      PROVE  \E d \in S : f[d] \in Plans /\ Cardinality(S) <= Cap(f[d], b) + Cardinality(T \ (U \ {c}))
  <2>1. PICK d \in S : f[d] \in Plans /\ Cardinality(S) <= Cap(f[d], b) + Cardinality(T \ U)
    BY <1>4 DEF BucketOK
  <2>2. Cap(f[d], b) \in Int
    BY <2>1, CapType
  <2>3. Cardinality(S) <= Cap(f[d], b) + Cardinality(T \ (U \ {c}))
    BY <1>1, <1>3, <2>1, <2>2
  <2> QED
    BY <2>1, <2>3
<1>5. (U \ {c}) \ T # {} => U \ T # {}
  OBVIOUS
<1> QED
  BY <1>3, <1>4, <1>5 DEF BucketOK

\* A DECR that is lost leaks the call.
LEMMA NeverTakenBack ==
  ASSUME NEW b \in Buckets, NEW n \in Int, NEW S \in SUBSET Calls, NEW T \in SUBSET Calls,
         NEW L \in SUBSET Calls, NEW U \in SUBSET Calls, NEW f, BucketOK(b, n, S, T, L, U, f),
         NEW c \in U, c \notin L
  PROVE  BucketOK(b, n, S, T \ {c}, L \cup ({c} \ T), U \ {c}, f)
<1>1. /\ Cardinality(S) \in Nat /\ Cardinality(T \ U) \in Nat /\ Cardinality(U \ T) \in Nat
      /\ Cardinality(L) \in Nat
  BY CallSets
<1>2. n + Cardinality(T \ U) = Cardinality(S) + Cardinality(U \ T) + Cardinality(L)
  BY DEF BucketOK
<1>3. (T \ {c}) \ (U \ {c}) = T \ U
  OBVIOUS
<1>4. CASE c \in T
  <2>1. L \cup ({c} \ T) = L /\ (U \ {c}) \ (T \ {c}) = U \ T
    BY <1>4
  <2> QED
    BY <1>3, <2>1 DEF BucketOK
<1>5. CASE c \notin T
  <2>1. L \cup ({c} \ T) = L \cup {c} /\ (U \ {c}) \ (T \ {c}) = (U \ T) \ {c}
    BY <1>5
  <2>2. Cardinality(L \cup {c}) = Cardinality(L) + 1
    BY PlusOne
  <2>3. Cardinality((U \ T) \ {c}) = Cardinality(U \ T) - 1
    BY <1>5, MinusOne
  <2>4. n + Cardinality(T \ U) = Cardinality(S) + Cardinality((U \ T) \ {c}) + Cardinality(L \cup {c})
    BY <1>1, <1>2, <2>2, <2>3
  <2>5. PICK plan \in Plans : Cap(plan, b) >= 0 /\ Cardinality(S) + Cardinality(L) >= Cap(plan, b)
    BY <1>5 DEF BucketOK
  <2>6. Cardinality(S) + Cardinality(L \cup {c}) >= Cap(plan, b)
    BY <1>1, <2>2, <2>5, CapType
  <2>7. \E p \in Plans : Cap(p, b) >= 0 /\ Cardinality(S) + Cardinality(L \cup {c}) >= Cap(p, b)
    BY <2>5, <2>6
  <2> QED
    BY <1>3, <2>1, <2>4, <2>7 DEF BucketOK
<1> QED
  BY <1>4, <1>5

\* A reset strays the calls on their way out and forgets the others.
LEMMA Restarted ==
  ASSUME NEW b \in Buckets, NEW U \in SUBSET Calls, NEW f
  PROVE  BucketOK(b, 0, {}, U, {}, U, f)
<1>1. U \ U = {} /\ Cardinality({}) = 0
  BY FS_EmptySet
<1> QED
  BY <1>1 DEF BucketOK

\* A call that reads its plan is in no bucket yet.
LEMMA PlansRead ==
  ASSUME NEW b, NEW n, NEW S, NEW T, NEW L, NEW U, NEW f, NEW g, BucketOK(b, n, S, T, L, U, f),
         \A d \in S : g[d] = f[d]
  PROVE  BucketOK(b, n, S, T, L, U, g)
BY DEF BucketOK

-----------------------------------------------------------------------------
(* The invariant of the counters. *)

\* Only a call that moves into or out of the way out changes who is on it.
LEMMA UndoingRests ==
  ASSUME NEW b \in Buckets,
         \A d \in Calls : \/ pc'[d] = pc[d] /\ bucket'[d] = bucket[d]
                          \/ pc[d] \notin Undo /\ pc'[d] \notin Undo
  PROVE  Undoing(b)' = Undoing(b)
BY DEF Undoing, Undo

\* Every bucket balances.
LEMMA QuotaInvHolds == Spec => []QuotaInv
<1>1. ASSUME Init PROVE QuotaInv
  <2> SUFFICES ASSUME NEW b \in Buckets
               PROVE  BucketOK(b, count[GatewayDB][b], counted[b], strays[b], leaked[b], Undoing(b), lim)
    BY DEF QuotaInv
  <2>1. count[GatewayDB][b] = 0 /\ counted[b] = {} /\ strays[b] = {} /\ leaked[b] = {}
    BY <1>1 DEF Init, DBs
  <2>2. Undoing(b) = {}
    BY <1>1 DEF Init, Undoing
  <2> QED
    BY <2>1, <2>2, Restarted
<1>2. ASSUME TypeOK, TypeOK', CallInv, QuotaInv, [Next]_vars PROVE QuotaInv'
  <2> SUFFICES ASSUME NEW b \in Buckets
               PROVE  BucketOK(b, count'[GatewayDB][b], counted'[b], strays'[b], leaked'[b],
                               Undoing(b)', lim')
    BY DEF QuotaInv
  <2>1. BucketOK(b, count[GatewayDB][b], counted[b], strays[b], leaked[b], Undoing(b), lim)
    BY <1>2 DEF QuotaInv
  <2>2. /\ count \in [DBs -> [Buckets -> Int]] /\ GatewayDB \in DBs
        /\ counted \in [Buckets -> SUBSET Calls] /\ strays \in [Buckets -> SUBSET Calls]
        /\ leaked \in [Buckets -> SUBSET Calls]
        /\ pc \in [Calls -> Stops] /\ bucket \in [Calls -> Buckets]
        /\ lim \in [Calls -> Plans \cup {NoPlan}]
    BY <1>2 DEF TypeOK, DBs
  <2>3. /\ count[GatewayDB][b] \in Int /\ counted[b] \in SUBSET Calls /\ strays[b] \in SUBSET Calls
        /\ leaked[b] \in SUBSET Calls /\ Undoing(b) \in SUBSET Calls
    BY <2>2 DEF Undoing
  <2>4. \A c \in Calls : Limited(c) /\ Unbooked(c)
    BY <1>2 DEF CallInv
  \* Nothing of this bucket changes.
  <2>5. ASSUME UNCHANGED <<count, ghosts, lim>>, Undoing(b)' = Undoing(b)
        PROVE  BucketOK(b, count'[GatewayDB][b], counted'[b], strays'[b], leaked'[b], Undoing(b)', lim')
    BY <2>1, <2>5 DEF ghosts
  <2>6. ASSUME NEW c \in Calls, ReadLimits(c)
        PROVE  BucketOK(b, count'[GatewayDB][b], counted'[b], strays'[b], leaked'[b], Undoing(b)', lim')
    <3>1. /\ pc[c] = "idle" /\ pc'[c] \notin Undo /\ UNCHANGED <<count, ghosts>>
          /\ \A d \in Calls \ {c} : pc'[d] = pc[d] /\ bucket'[d] = bucket[d] /\ lim'[d] = lim[d]
      BY <2>2, <2>6 DEF ReadLimits, GoTo, Undo
    <3>2. Undoing(b)' = Undoing(b)
      BY <3>1, UndoingRests DEF Undo
    <3>3. c \notin counted[b]
      BY <2>4, <3>1 DEF Unbooked, Booked
    <3>4. \A d \in counted[b] : lim'[d] = lim[d]
      BY <2>3, <3>1, <3>3
    <3>5. BucketOK(b, count[GatewayDB][b], counted[b], strays[b], leaked[b], Undoing(b), lim')
      BY <2>1, <3>4, PlansRead
    <3> QED
      BY <3>1, <3>2, <3>5 DEF ghosts
  <2>7. ASSUME NEW c \in Calls, Proceed(c), pc[c] \in {"month", "day"} PROVE Undoing(b)' = Undoing(b)
    <3>1. pc'[c] \in {"day", "admitted"} /\ \A d \in Calls \ {c} : pc'[d] = pc[d] /\ bucket'[d] = bucket[d]
      BY <2>2, <2>7 DEF Proceed, GoTo
    <3> QED
      BY <2>7, <3>1, UndoingRests DEF Undo
  <2>8. ASSUME NEW c \in Calls, CountIn(c)
        PROVE  BucketOK(b, count'[GatewayDB][b], counted'[b], strays'[b], leaked'[b], Undoing(b)', lim')
    <3>1. /\ pc[c] \in {"month", "day"} /\ bucket[c] \in Buckets /\ Undoing(b)' = Undoing(b)
          /\ strays' = strays /\ leaked' = leaked /\ lim' = lim
          /\ count[GatewayDB][bucket[c]] + 1 <= Cap(lim[c], bucket[c])
          /\ counted' = [counted EXCEPT ![bucket[c]] = @ \cup {c}]
          /\ count' = [count EXCEPT ![GatewayDB][bucket[c]] = @ + 1]
      BY <2>2, <2>7, <2>8 DEF CountIn, Add
    <3>2. CASE b = bucket[c]
      <4>1. c \notin counted[b] /\ lim[c] \in Plans
        BY <2>4, <3>1, <3>2 DEF Limited, Unbooked, Booked
      <4>2. count'[GatewayDB][b] = count[GatewayDB][b] + 1 /\ counted'[b] = counted[b] \cup {c}
        BY <2>2, <3>1, <3>2
      <4>3. BucketOK(b, count[GatewayDB][b] + 1, counted[b] \cup {c}, strays[b], leaked[b], Undoing(b), lim)
        BY <2>1, <2>3, <3>1, <3>2, <4>1, CountedIn
      <4> QED
        BY <3>1, <4>2, <4>3
    <3>3. CASE b # bucket[c]
      <4>1. count'[GatewayDB][b] = count[GatewayDB][b] /\ counted'[b] = counted[b]
        BY <2>2, <3>1, <3>3
      <4> QED
        BY <2>1, <3>1, <4>1
    <3> QED
      BY <3>2, <3>3
  <2>9. ASSUME NEW c \in Calls, CountOut(c)
        PROVE  BucketOK(b, count'[GatewayDB][b], counted'[b], strays'[b], leaked'[b], Undoing(b)', lim')
    <3>1. /\ pc[c] \in {"month", "day"} /\ pc'[c] \in Undo
          /\ bucket' = bucket /\ bucket[c] \in Buckets /\ lim' = lim
          /\ counted' = counted /\ strays' = strays /\ leaked' = leaked
          /\ count[GatewayDB][bucket[c]] + 1 > Cap(lim[c], bucket[c])
          /\ count' = [count EXCEPT ![GatewayDB][bucket[c]] = @ + 1]
          /\ \A d \in Calls \ {c} : pc'[d] = pc[d]
      BY <2>2, <2>9 DEF CountOut, Add, GoTo, ghosts, Undo
    <3>2. CASE b = bucket[c]
      <4>1. Undoing(b)' = Undoing(b) \cup {c} /\ c \notin Undoing(b)
        BY <3>1, <3>2 DEF Undoing, Undo
      <4>2. c \notin strays[b] /\ lim[c] \in Plans
        BY <2>4, <3>1, <3>2 DEF Limited, Unbooked, Booked
      <4>3. Cap(lim[c], b) >= 0
        BY <2>4, <3>1, <3>2, <4>2, ConstantsOK DEF Limited, Cap, MonthLimited, DayLimited
      <4>4. count'[GatewayDB][b] = count[GatewayDB][b] + 1
        BY <2>2, <3>1, <3>2
      <4>5. BucketOK(b, count[GatewayDB][b] + 1, counted[b], strays[b], leaked[b], Undoing(b) \cup {c}, lim)
        BY <2>1, <2>3, <3>1, <3>2, <4>1, <4>2, <4>3, CountedOut
      <4> QED
        BY <3>1, <4>1, <4>4, <4>5
    <3>3. CASE b # bucket[c]
      <4>1. count'[GatewayDB][b] = count[GatewayDB][b] /\ Undoing(b)' = Undoing(b)
        BY <2>2, <3>1, <3>3 DEF Undoing
      <4> QED
        BY <2>1, <3>1, <4>1
    <3> QED
      BY <3>2, <3>3
  <2>10. ASSUME NEW c \in Calls, pc[c] \in Undo, GoTo(c, "refused"), UNCHANGED <<bucket, lim>>
         PROVE  Undoing(b)' = IF b = bucket[c] THEN Undoing(b) \ {c} ELSE Undoing(b)
    <3>1. pc'[c] = "refused" /\ \A d \in Calls \ {c} : pc'[d] = pc[d]
      BY <2>2, <2>10 DEF GoTo
    <3> QED
      BY <2>10, <3>1 DEF Undoing
  <2>11. ASSUME NEW c \in Calls, TakeBack(c)
         PROVE  BucketOK(b, count'[GatewayDB][b], counted'[b], strays'[b], leaked'[b], Undoing(b)', lim')
    <3>1. /\ pc[c] \in Undo /\ UNCHANGED <<bucket, lim, counted, strays, leaked>> /\ bucket[c] \in Buckets
          /\ count' = [count EXCEPT ![GatewayDB][bucket[c]] = @ + (-1)]
          /\ Undoing(b)' = IF b = bucket[c] THEN Undoing(b) \ {c} ELSE Undoing(b)
      BY <2>2, <2>10, <2>11 DEF TakeBack, Add, Undo, ghosts
    <3>2. CASE b = bucket[c]
      <4>1. c \in Undoing(b)
        BY <3>1, <3>2 DEF Undoing, Undo
      <4>2. BucketOK(b, count[GatewayDB][b] - 1, counted[b], strays[b], leaked[b], Undoing(b) \ {c}, lim)
        BY <2>1, <2>3, <4>1, TakenBack
      <4>3. count'[GatewayDB][b] = count[GatewayDB][b] - 1
        BY <2>2, <3>1, <3>2
      <4> QED
        BY <3>1, <3>2, <4>2, <4>3
    <3>3. CASE b # bucket[c]
      BY <2>1, <2>2, <3>1, <3>3
    <3> QED
      BY <3>2, <3>3
  <2>12. ASSUME NEW c \in Calls, TakeBackFails(c)
         PROVE  BucketOK(b, count'[GatewayDB][b], counted'[b], strays'[b], leaked'[b], Undoing(b)', lim')
    <3>1. /\ pc[c] \in Undo /\ UNCHANGED <<bucket, lim, counted, count>> /\ bucket[c] \in Buckets
          /\ leaked' = [leaked EXCEPT ![bucket[c]] = @ \cup ({c} \ strays[bucket[c]])]
          /\ strays' = [strays EXCEPT ![bucket[c]] = @ \ {c}]
          /\ Undoing(b)' = IF b = bucket[c] THEN Undoing(b) \ {c} ELSE Undoing(b)
      BY <2>2, <2>10, <2>12 DEF TakeBackFails, Undo
    <3>2. CASE b = bucket[c]
      <4>1. c \in Undoing(b)
        BY <3>1, <3>2 DEF Undoing, Undo
      <4>2. c \notin leaked[b]
        BY <2>4, <3>1, <3>2 DEF Unbooked
      <4>3. BucketOK(b, count[GatewayDB][b], counted[b], strays[b] \ {c},
                     leaked[b] \cup ({c} \ strays[b]), Undoing(b) \ {c}, lim)
        BY <2>1, <2>3, <4>1, <4>2, NeverTakenBack
      <4>4. strays'[b] = strays[b] \ {c} /\ leaked'[b] = leaked[b] \cup ({c} \ strays[b])
        BY <2>2, <3>1, <3>2
      <4> QED
        BY <3>1, <3>2, <4>3, <4>4
    <3>3. CASE b # bucket[c]
      BY <2>1, <2>2, <3>1, <3>3
    <3> QED
      BY <3>2, <3>3
  <2>13. ASSUME NEW db \in DBs, NEW e \in Buckets, Restart(db, e), UNCHANGED calls
         PROVE  BucketOK(b, count'[GatewayDB][b], counted'[b], strays'[b], leaked'[b], Undoing(b)', lim')
    <3>1. Undoing(b)' = Undoing(b) /\ lim' = lim
      BY <2>13 DEF Undoing, calls
    <3>2. CASE db = GatewayDB /\ b = e
      <4>1. /\ count'[GatewayDB][b] = 0 /\ counted'[b] = {} /\ strays'[b] = Undoing(b)
            /\ leaked'[b] = {}
        BY <2>2, <2>13, <3>2 DEF Restart
      <4> QED
        BY <2>3, <3>1, <4>1, Restarted
    <3>3. CASE db # GatewayDB
      <4>1. count'[GatewayDB] = count[GatewayDB] /\ UNCHANGED ghosts
        BY <2>2, <2>13, <3>3 DEF Restart
      <4> QED
        BY <2>1, <3>1, <4>1 DEF ghosts
    <3>4. CASE db = GatewayDB /\ b # e
      <4>1. /\ count'[GatewayDB][b] = count[GatewayDB][b] /\ counted'[b] = counted[b]
            /\ strays'[b] = strays[b] /\ leaked'[b] = leaked[b]
        BY <2>2, <2>13, <3>4 DEF Restart
      <4> QED
        BY <2>1, <3>1, <4>1
    <3> QED
      BY <3>2, <3>3, <3>4
  <2>14. ASSUME NEW j \in Activations, ResetDay(j) \/ ResetMonth(j)
         PROVE  BucketOK(b, count'[GatewayDB][b], counted'[b], strays'[b], leaked'[b], Undoing(b)', lim')
    <3>1. stamp[j] \in Time
      BY <1>2 DEF TypeOK
    <3> QED
      BY <2>13, <2>14, <3>1, ConstantsOK DEF ResetDay, ResetMonth, DBs, Buckets
  <2>15. ASSUME NEW db \in DBs, NEW e \in Buckets, EvictCounter(db, e)
         PROVE  BucketOK(b, count'[GatewayDB][b], counted'[b], strays'[b], leaked'[b], Undoing(b)', lim')
    BY <2>13, <2>15 DEF EvictCounter
  <2>16. ASSUME NEW c \in Calls, Unlimited(c)
         PROVE  BucketOK(b, count'[GatewayDB][b], counted'[b], strays'[b], leaked'[b], Undoing(b)', lim')
    <3>1. /\ pc[c] = "idle" /\ pc'[c] = "admitted" /\ UNCHANGED <<bucket, lim, count, ghosts>>
          /\ \A d \in Calls \ {c} : pc'[d] = pc[d]
      BY <2>2, <2>16 DEF Unlimited, GoTo
    <3>2. Undoing(b)' = Undoing(b)
      BY <3>1, UndoingRests DEF Undo
    <3> QED
      BY <2>5, <3>1, <3>2
  <2>17. ASSUME NEW c \in Calls, CountFails(c)
         PROVE  BucketOK(b, count'[GatewayDB][b], counted'[b], strays'[b], leaked'[b], Undoing(b)', lim')
    BY <2>5, <2>7, <2>17 DEF CountFails
  <2>18. ASSUME UNCHANGED <<calls, count, ghosts>>
         PROVE  BucketOK(b, count'[GatewayDB][b], counted'[b], strays'[b], leaked'[b], Undoing(b)', lim')
    BY <2>5, <2>18 DEF calls, Undoing
  <2>19. CASE \/ Enrol \/ Tick \/ (\E db \in DBs : EvictLimits(db)) \/ UNCHANGED vars
              \/ \E j \in Activations :
                   \/ \E plan \in Plans : Activate(j, plan)
                   \/ ReadBack(j) \/ WriteLimits(j)
    BY <2>18, <2>19 DEF Enrol, Tick, EvictLimits, vars, Activate, ReadBack, WriteLimits
  <2> QED
    BY <1>2, <2>6, <2>8, <2>9, <2>11, <2>12, <2>14, <2>15, <2>16, <2>17, <2>19 DEF Next
<1> QED
  BY <1>1, <1>2, QuotaTypes, CallInvHolds, PTL DEF Spec

-----------------------------------------------------------------------------
(* The theorems. *)

\* The count that INCR and DECR leave is exact: whatever the interleaving of
\* calls, resets, evictions and lost commands, it is the calls counted, those on
\* their way out and those never taken back, less the ones a reset overtook.
THEOREM BalanceHolds == Spec => []CountersBalance
<1>1. QuotaInv => CountersBalance
  BY DEF QuotaInv, BucketOK, CountersBalance, Late
<1> QED
  BY <1>1, QuotaInvHolds, PTL

\* Concurrent calls that INCR, compare and take back never share the last
\* place of an allowance.
THEOREM QuotaIsHeld == Spec => []QuotaHeld
<1>1. QuotaInv => QuotaHeld
  BY DEF QuotaInv, BucketOK, QuotaHeld, Late
<1> QED
  BY <1>1, QuotaInvHolds, PTL

\* No call is refused because of calls that were refused too: between resets,
\* the calls counted, and those a lost DECR left behind, use up an allowance.
THEOREM RefusalsAreDue == Spec => []RefusedWhenUsedUp
<1>1. QuotaInv => RefusedWhenUsedUp
  BY DEF QuotaInv, BucketOK, RefusedWhenUsedUp
<1> QED
  BY <1>1, QuotaInvHolds, PTL

-----------------------------------------------------------------------------
(* Billing: types. *)

Work == [stop : BillingStops, user : Users \cup {NoUser}, plan : AllPlans \cup {NoSub},
         event : Events \cup {NoEvent}]
\* A handler at work has a user, and a price is made for a paid plan.
Works1(w) == /\ w \in Work /\ (w.stop = "idle" <=> w = Idle) /\ (w = Idle \/ w.user \in Users)
             /\ w.stop = "price" => w.plan \in PaidPlans
Works     == at \in [Handlers -> Work] /\ \A h \in Handlers : Works1(at[h])

SubsRow == [plan : AllPlans \cup {NoSub}, cancels : BOOLEAN, sale : Sales \cup {NoSale}]
Bill    == [status : {"none", "pending", "paid", "cancelled"}, plan : PaidPlans \cup {NoSub}]
Sale    == [state : {"none", "live", "ended"}, user : Users \cup {NoUser},
            plan : PaidPlans \cup {NoSub}, cancels : BOOLEAN]
Books   == /\ today \in InvoiceDays
           /\ subs \in [Users -> SubsRow] /\ invoice \in [Users -> [InvoiceDays -> Bill]]
           /\ cache \in [Users -> AllPlans \cup {NoSub}] /\ price \subseteq PaidPlans
           /\ requests \in [Users -> [InvoiceDays -> Nat]]
           /\ confirmed \in [Users -> [InvoiceDays -> Nat]] /\ meddled \subseteq Users
Stripes == /\ sale \in [Sales -> Sale] /\ checkout \subseteq Users \X PaidPlans
           /\ mail \subseteq Events /\ {enabled, ordered} \subseteq BOOLEAN /\ sent \in 0 .. MaxEvents

\* A subscription at Stripe that there is has a user and a plan, and events are of those.
Sold == /\ \A s \in Sales :
             /\ sale[s].state # "none" => sale[s].user \in Users /\ sale[s].plan \in PaidPlans
             /\ sale[s].state = "none" => sale[s].user = NoUser
        /\ \A e \in mail : sale[e.sale].state # "none"

BillingInv == Works /\ Books /\ Stripes /\ Sold

LEMMA IdleWorks == Works1(Idle)
BY DEF Works1, Work, Idle, BillingStops

LEMMA WorksOn ==
  ASSUME Works, NEW h \in Handlers, NEW w, Works1(w), at' = [at EXCEPT ![h] = w]
  PROVE  Works' /\ at'[h] = w /\ \A g \in Handlers \ {h} : at'[g] = at[g]
BY DEF Works, Works1

\* A handler starts, goes on, or ends.
LEMMA HandlerStarts ==
  ASSUME Works, NEW h \in Handlers, NEW stop \in BillingStops \ {"idle"}, NEW u \in Users,
         NEW plan \in AllPlans \cup {NoSub}, NEW event \in Events \cup {NoEvent},
         stop = "price" => plan \in PaidPlans, Starts(h, stop, u, plan, event)
  PROVE  /\ Works' /\ \A g \in Handlers \ {h} : at'[g] = at[g]
         /\ at'[h] = [stop |-> stop, user |-> u, plan |-> plan, event |-> event]
<1> DEFINE w == [stop |-> stop, user |-> u, plan |-> plan, event |-> event]
<1>1. w \in Work /\ w.stop = stop /\ w.user = u /\ w.plan = plan /\ Idle.stop = "idle"
  BY DEF Work, Idle
<1>2. at' = [at EXCEPT ![h] = w]
  BY DEF Starts
<1> HIDE DEF w
<1>3. Works1(w)
  BY <1>1 DEF Works1
<1> QED
  BY <1>2, <1>3, WorksOn DEF w

LEMMA HandlerStops ==
  ASSUME Works, NEW h \in Handlers, Ends(h)
  PROVE  Works' /\ at'[h] = Idle /\ \A g \in Handlers \ {h} : at'[g] = at[g]
BY IdleWorks, WorksOn DEF Ends

LEMMA HandlerProceeds ==
  ASSUME Works, NEW h \in Handlers, NEW stop \in BillingStops \ {"idle", "price"},
         NEW plan \in AllPlans \cup {NoSub}, at[h].stop # "idle",
         \/ Goes(h, stop) /\ plan = at[h].plan
         \/ at' = [at EXCEPT ![h].stop = stop, ![h].plan = plan]
  PROVE  /\ Works' /\ \A g \in Handlers \ {h} : at'[g] = at[g]
         /\ at'[h].stop = stop /\ at'[h].plan = plan
         /\ at'[h].user = at[h].user /\ at'[h].event = at[h].event
<1> DEFINE v == [at[h] EXCEPT !.stop = stop]
           w == [v EXCEPT !.plan = plan]
<1>1. at[h] \in Work
  BY DEF Works
<1>2. /\ v \in Work /\ v.stop = stop /\ v.plan = at[h].plan /\ v.user = at[h].user
      /\ v.event = at[h].event
  BY <1>1 DEF Work
<1>3. at' = [at EXCEPT ![h] = w]
  <2>1. CASE Goes(h, stop) /\ plan = at[h].plan
    <3>1. w = v
      BY <1>2, <2>1 DEF Work
    <3>2. at' = [at EXCEPT ![h] = v]
      BY <1>1, <2>1 DEF Goes, Works
    <3> QED
      BY <3>1, <3>2
  <2>2. CASE at' = [at EXCEPT ![h].stop = stop, ![h].plan = plan]
    BY <1>1, <2>2 DEF Works
  <2> QED
    BY <2>1, <2>2
<1> HIDE DEF v
<1>4. w \in Work /\ w.stop = stop /\ w.plan = plan /\ w.user = at[h].user /\ w.event = at[h].event
  BY <1>2 DEF Work
<1> HIDE DEF w
<1>5. Works1(w)
  <2>1. Idle.stop = "idle" /\ at[h].user \in Users
    BY DEF Idle, Works, Works1
  <2> QED
    BY <1>4, <2>1 DEF Works1
<1> QED
  BY <1>3, <1>4, <1>5, WorksOn

LEMMA BillingIsTyped == BillingInv => BillingTypeOK
BY DEF BillingInv, Works, Works1, Work, Books, Stripes, SubsRow, Bill, Sale, BillingTypeOK, Resting

LEMMA EnrolledTypes ==
  ASSUME Books, NEW u
  PROVE  Enrolled(u) \in [Users -> SubsRow]
<1>1. [NoRow EXCEPT !.plan = Free] \in SubsRow
  BY DEF NoRow, AllPlans, SubsRow
<1> QED
  BY <1>1 DEF Enrolled, Books

LEMMA EmitTypes ==
  ASSUME mail \subseteq Events, sent \in 0 .. MaxEvents, NEW s \in Sales, NEW cancels \in BOOLEAN,
         NEW type \in {"completed", "updated", "deleted", "payment_failed"}, Emit(type, s, cancels)
  PROVE  /\ mail' \subseteq Events /\ sent' \in 0 .. MaxEvents
         /\ \A e \in mail' : e \in mail \/ e.sale = s
<1>1. sent + 1 \in 1 .. MaxEvents
  BY BillingConstantsOK DEF Emit
<1> QED
  BY <1>1 DEF Emit, Events

\* What the users and the admins do writes the rows and starts handlers.
LEMMA RequestTypes ==
  ASSUME BillingInv, Requests
  PROVE  BillingInv'
<1> USE DEF BillingInv
<1>1. at' = at => Works'
  BY DEF Works, Works1
<1>2. ASSUME UNCHANGED stripe PROVE Stripes' /\ Sold'
  BY <1>2 DEF Stripes, Sold, stripe
<1>3. ASSUME NEW u \in Users, NEW d \in InvoiceDays, NEW b \in Bill, invoice' = [invoice EXCEPT ![u][d] = b]
      PROVE  invoice' \in [Users -> [InvoiceDays -> Bill]]
  BY <1>3 DEF Books
<1>4. ASSUME NEW u \in Users, NEW d \in InvoiceDays, NEW status \in {"paid", "cancelled"},
             invoice' = [invoice EXCEPT ![u][d].status = status]
      PROVE  invoice' \in [Users -> [InvoiceDays -> Bill]]
  <2> DEFINE b == [invoice[u][d] EXCEPT !.status = status]
  <2>1. invoice[u][d] \in Bill
    BY DEF Books
  <2>2. b \in Bill
    BY <2>1 DEF Bill
  <2>3. invoice' = [invoice EXCEPT ![u][d] = b]
    BY <1>4 DEF Books
  <2> QED
    BY <1>3, <2>2, <2>3
<1>5. ASSUME NEW u \in Users, GetSubscription(u) PROVE BillingInv'
  BY <1>1, <1>2, <1>5, EnrolledTypes DEF GetSubscription, history, Books
<1>6. ASSUME NEW u \in Users, CancelLater(u) PROVE BillingInv'
  <2>1. subs' \in [Users -> SubsRow]
    BY <1>6 DEF CancelLater, Books, SubsRow
  <2> QED
    BY <1>1, <1>2, <1>6, <2>1 DEF CancelLater, history, Books
<1>7. ASSUME NEW u \in Users, NEW plan \in AllPlans, NEW h \in Handlers, RequestFree(h, u, plan)
      PROVE  BillingInv'
  BY <1>2, <1>7, HandlerStarts DEF RequestFree, ByHand, rows, Books, BillingStops
<1>8. ASSUME NEW u \in Users, NEW plan \in AllPlans, NEW h \in Handlers, CreateCheckout(h, u, plan)
      PROVE  BillingInv'
  <2>1. Works'
    BY <1>1, <1>8, HandlerStarts DEF CreateCheckout, BillingStops
  <2>2. Stripes' /\ Sold'
    BY <1>8 DEF CreateCheckout, Stripes, Sold
  <2> QED
    BY <1>8, <2>1, <2>2 DEF CreateCheckout, rows, history, Books
<1>9. ASSUME NEW u \in Users, NEW plan \in PaidPlans, RequestInvoice(u, plan) PROVE BillingInv'
  <2> DEFINE b == [status |-> "pending", plan |-> plan]
  <2>1. b \in Bill /\ invoice' = [invoice EXCEPT ![u][today] = b]
    BY <1>9 DEF RequestInvoice, Bill
  <2> HIDE DEF b
  <2>2. invoice' \in [Users -> [InvoiceDays -> Bill]]
    BY <1>3, <2>1 DEF Books
  <2>3. requests' \in [Users -> [InvoiceDays -> Nat]]
    BY <1>9 DEF RequestInvoice, Requested, Books
  <2> QED
    BY <1>1, <1>2, <1>9, <2>2, <2>3 DEF RequestInvoice, Books
<1>10. ASSUME NEW u \in Users, NEW d \in InvoiceDays, CancelInvoice(u, d) PROVE BillingInv'
  <2>1. invoice' \in [Users -> [InvoiceDays -> Bill]]
    BY <1>4, <1>10 DEF CancelInvoice
  <2> QED
    BY <1>1, <1>2, <1>10, <2>1 DEF CancelInvoice, history, Books
<1>11. ASSUME NEW u \in Users, NEW d \in InvoiceDays, NEW h \in Handlers, ConfirmInvoice(h, u, d)
       PROVE  BillingInv'
  <2>1. invoice' \in [Users -> [InvoiceDays -> Bill]]
    BY <1>4, <1>11 DEF ConfirmInvoice
  <2>2. confirmed' \in [Users -> [InvoiceDays -> Nat]]
    BY <1>11 DEF ConfirmInvoice, Books
  <2>3. invoice[u][d].plan \in AllPlans \cup {NoSub}
    BY DEF Books, Bill, AllPlans
  <2>4. Works'
    BY <1>11, <2>3, HandlerStarts DEF ConfirmInvoice, BillingStops
  <2> QED
    BY <1>2, <1>11, <2>1, <2>2, <2>4 DEF ConfirmInvoice, ByHand, Books
<1> QED
  BY <1>5, <1>6, <1>7, <1>8, <1>9, <1>10, <1>11 DEF Requests, AllPlans

LEMMA HandlingTypes ==
  ASSUME BillingInv, Handling
  PROVE  BillingInv'
<1> USE DEF BillingInv
<1>1. ASSUME mail' \subseteq mail, UNCHANGED <<enabled, sale, checkout, ordered, sent>> PROVE Stripes' /\ Sold'
  BY <1>1 DEF Stripes, Sold
<1>2. ASSUME NEW h \in Handlers, EnsurePrice(h) PROVE BillingInv'
  <2>1. at[h].plan \in PaidPlans /\ at[h].user \in Users
    BY <1>2 DEF EnsurePrice, Works, Works1, Idle
  <2>2. Works'
    BY <1>2, HandlerStops DEF EnsurePrice
  <2>3. Stripes' /\ Sold'
    BY <1>2, <2>1 DEF EnsurePrice, Stripes, Sold
  <2> QED
    BY <1>2, <2>1, <2>2, <2>3 DEF EnsurePrice, history, Books
<1>3. ASSUME NEW h \in Handlers, ActivateRow(h) PROVE BillingInv'
  <2> DEFINE w == at[h]
             r == [plan |-> w.plan, cancels |-> FALSE,
                   sale |-> IF w.event.type \in {"completed", "updated"} THEN w.event.sale
                            ELSE subs[w.user].sale]
  <2>1. w \in Work /\ w.stop = "activate" /\ Goes(h, "read")
    BY <1>3 DEF ActivateRow, Works
  <2>2. w.plan \in AllPlans \cup {NoSub} /\ w.user \in Users /\ w.event.sale \in Sales \cup {NoSale}
    BY <2>1 DEF Works, Works1, Idle, Work, Events, NoEvent
  <2>3. Works'
    BY <2>1, <2>2, HandlerProceeds DEF BillingStops
  <2>4. r \in SubsRow
    BY <2>2 DEF Books, SubsRow
  <2>5. subs' = [subs EXCEPT ![w.user] = r]
    BY <1>3 DEF ActivateRow
  <2> HIDE DEF r, w
  <2>6. subs' \in [Users -> SubsRow]
    BY <2>4, <2>5 DEF Books
  <2> QED
    BY <1>1, <1>3, <2>3, <2>6 DEF ActivateRow, stripe, history, Books
<1>4. ASSUME NEW h \in Handlers, ReadRowBack(h) PROVE BillingInv'
  <2> DEFINE plan == subs'[at[h].user].plan
  <2>1. subs' \in [Users -> SubsRow]
    BY <1>4, EnrolledTypes DEF ReadRowBack
  <2>2. at[h].user \in Users
    BY <1>4 DEF ReadRowBack, Works, Works1, Idle
  <2>3. plan \in AllPlans \cup {NoSub}
    BY <2>1, <2>2 DEF SubsRow
  <2>4. at' = [at EXCEPT ![h].stop = "write", ![h].plan = plan]
    BY <1>4 DEF ReadRowBack
  <2> HIDE DEF plan
  <2>5. ASSUME NEW p \in AllPlans \cup {NoSub}, at' = [at EXCEPT ![h].stop = "write", ![h].plan = p]
        PROVE  Works'
    BY <1>4, <2>5, HandlerProceeds DEF ReadRowBack, BillingStops
  <2>6. Works'
    BY <2>3, <2>4, <2>5
  <2> QED
    BY <1>1, <1>4, <2>1, <2>6 DEF ReadRowBack, stripe, history, Books
<1>5. ASSUME NEW h \in Handlers, WriteQuotaLimits(h) PROVE BillingInv'
  <2>1. at[h] \in Work /\ at[h].user \in Users /\ at[h].stop = "write"
    BY <1>5 DEF WriteQuotaLimits, Works, Works1, Idle
  <2>2. cache' \in [Users -> AllPlans \cup {NoSub}]
    BY <1>5, <2>1 DEF WriteQuotaLimits, Books, Work
  <2>3. Works' /\ mail' \subseteq mail
    <3>1. CASE Goes(h, "flag") /\ UNCHANGED mail
      BY <2>1, <3>1, HandlerProceeds DEF BillingStops, Work
    <3>2. CASE Ends(h) /\ Acked(at[h].event)
      BY <3>2, HandlerStops DEF Acked
    <3> QED
      BY <1>5, <3>1, <3>2 DEF WriteQuotaLimits
  <2> QED
    BY <1>1, <1>5, <2>2, <2>3 DEF WriteQuotaLimits, history, Books
<1>6. ASSUME NEW h \in Handlers, Flag(h) PROVE BillingInv'
  <2>1. Works' /\ mail' \subseteq mail
    BY <1>6, HandlerStops DEF Flag, Acked
  <2>2. at[h].event.cancels \in BOOLEAN
    <3>1. at[h].event \in Events \cup {NoEvent}
      BY DEF Works, Work
    <3>2. NoEvent.cancels \in BOOLEAN /\ \A e \in Events : e.cancels \in BOOLEAN
      BY DEF Events, NoEvent
    <3> QED
      BY <3>1, <3>2
  <2>3. subs' \in [Users -> SubsRow]
    BY <1>6, <2>2 DEF Flag, Books, SubsRow
  <2> QED
    BY <1>1, <1>6, <2>1, <2>3 DEF Flag, history, Books
<1>7. ASSUME NEW h \in Handlers, BreakOff(h) PROVE BillingInv'
  BY <1>1, <1>7, HandlerStops DEF BreakOff, rows, stripe, history, Books
<1>8. ASSUME NEW h \in Handlers, NEW event \in mail, Webhook(h, event) PROVE BillingInv'
  <2> DEFINE s == event.sale
             plan == IF event.type = "deleted" THEN Free ELSE sale[s].plan
  <2>1. event \in Events /\ s \in Sales
    BY DEF Stripes, Events
  <2>2. sale[s].user \in Users /\ plan \in AllPlans \cup {NoSub}
    BY <2>1 DEF Sold, AllPlans
  <2>3. Starts(h, "activate", sale[s].user, plan, event)
    BY <1>8 DEF Webhook
  <2> HIDE DEF plan, s
  <2>4. Works'
    BY <2>1, <2>2, <2>3, HandlerStarts DEF BillingStops
  <2> QED
    BY <1>1, <1>8, <2>4 DEF Webhook, rows, stripe, history, Books
<1> QED
  BY <1>2, <1>3, <1>4, <1>5, <1>6, <1>7, <1>8 DEF Handling

LEMMA StripeTypes ==
  ASSUME BillingInv, AtStripe \/ (\E event \in mail : WebhookPaymentFailed(event))
  PROVE  BillingInv'
<1> USE DEF BillingInv
<1>1. at' = at => Works'
  BY DEF Works, Works1
<1>2. ASSUME UNCHANGED <<today, rows, history>> PROVE Books'
  BY <1>2 DEF Books, rows, history
<1>3. ASSUME NEW u \in Users, NEW plan \in PaidPlans, NEW s \in Sales, Pay(u, plan, s) PROVE BillingInv'
  <2> DEFINE r == [state |-> "live", user |-> u, plan |-> plan, cancels |-> FALSE]
  <2>1. r \in Sale /\ r.state = "live" /\ r.user = u /\ r.plan = plan
    BY DEF Sale
  <2>2. sale' = [sale EXCEPT ![s] = r]
    BY <1>3 DEF Pay
  <2> HIDE DEF r
  <2>3. mail' \subseteq Events /\ sent' \in 0 .. MaxEvents /\ \A e \in mail' : e \in mail \/ e.sale = s
    BY <1>3, EmitTypes DEF Pay, Stripes
  <2>4. Stripes'
    BY <1>3, <2>1, <2>2, <2>3 DEF Pay, Stripes
  <2>5. Sold'
    BY <2>1, <2>2, <2>3 DEF Sold, Stripes, Events
  <2> QED
    BY <1>1, <1>2, <1>3, <2>4, <2>5 DEF Pay
<1>4. ASSUME NEW s \in Sales, NEW r \in Sale, sale' = [sale EXCEPT ![s] = r], r.user = sale[s].user,
             r.plan = sale[s].plan, r.state # "none", sale[s].state = "live",
             NEW type \in {"updated", "deleted", "payment_failed"}, NEW cancels \in BOOLEAN,
             Emit(type, s, cancels), UNCHANGED <<today, rows, at, checkout, enabled, ordered, history>>
      PROVE  BillingInv'
  <2>1. mail' \subseteq Events /\ sent' \in 0 .. MaxEvents /\ \A e \in mail' : e \in mail \/ e.sale = s
    BY <1>4, EmitTypes DEF Stripes
  <2>2. Stripes'
    BY <1>4, <2>1 DEF Stripes
  <2>3. Sold'
    BY <1>4, <2>1 DEF Sold, Stripes, Events
  <2> QED
    BY <1>1, <1>2, <1>4, <2>2, <2>3
<1>5. ASSUME NEW s \in Sales, NEW cancels \in BOOLEAN, Change(s, cancels) PROVE BillingInv'
  <2> DEFINE r == [sale[s] EXCEPT !.cancels = cancels]
  <2>1. sale[s] \in Sale /\ sale[s].state = "live" /\ sale' = [sale EXCEPT ![s] = r]
    BY <1>5 DEF Change, Stripes
  <2>2. r \in Sale /\ r.user = sale[s].user /\ r.plan = sale[s].plan /\ r.state = "live"
    BY <2>1 DEF Sale
  <2> HIDE DEF r
  <2> QED
    BY <1>4, <1>5, <2>1, <2>2 DEF Change
<1>6. ASSUME NEW s \in Sales, Terminate(s) PROVE BillingInv'
  <2> DEFINE r == [sale[s] EXCEPT !.state = "ended"]
  <2>1. sale[s] \in Sale /\ sale[s].state = "live" /\ sale' = [sale EXCEPT ![s] = r]
    BY <1>6 DEF Terminate, Stripes
  <2>2. r \in Sale /\ r.user = sale[s].user /\ r.plan = sale[s].plan /\ r.state = "ended"
        /\ sale[s].cancels \in BOOLEAN
    BY <2>1 DEF Sale
  <2> HIDE DEF r
  <2> QED
    BY <1>4, <1>6, <2>1, <2>2 DEF Terminate
<1>7. ASSUME NEW s \in Sales, ChargeFails(s) PROVE BillingInv'
  <2>1. sale[s] \in Sale /\ sale[s].state = "live" /\ sale' = [sale EXCEPT ![s] = sale[s]]
    BY <1>7 DEF ChargeFails, Stripes
  <2>2. sale[s].cancels \in BOOLEAN
    BY <2>1 DEF Sale
  <2> QED
    BY <1>4, <1>7, <2>1, <2>2 DEF ChargeFails
<1>8. ASSUME NEW event \in mail, WebhookPaymentFailed(event) PROVE BillingInv'
  <2> DEFINE after(u) == IF subs[u].sale = event.sale THEN [subs[u] EXCEPT !.cancels = TRUE] ELSE subs[u]
  <2>1. subs' \in [Users -> SubsRow]
    <3>1. ASSUME NEW u \in Users PROVE after(u) \in SubsRow
      BY DEF Books, SubsRow
    <3>2. subs' = [u \in Users |-> after(u)]
      BY <1>8 DEF WebhookPaymentFailed
    <3> HIDE DEF after
    <3> QED
      BY <3>1, <3>2
  <2>2. Stripes' /\ Sold'
    BY <1>8 DEF WebhookPaymentFailed, Acked, Stripes, Sold
  <2> QED
    BY <1>1, <1>8, <2>1, <2>2 DEF WebhookPaymentFailed, Books, history
<1> QED
  BY <1>3, <1>5, <1>6, <1>7, <1>8 DEF AtStripe

LEMMA BillingInvHolds == BillingSpec => []BillingInv
<1>1. BillingInit => BillingInv
  <2> SUFFICES ASSUME BillingInit PROVE BillingInv
    OBVIOUS
  <2>1. Works
    <3>1. Idle \in Work
      BY IdleWorks DEF Works1
    <3> QED
      BY <3>1, IdleWorks DEF BillingInit, Works
  <2>2. 1 \in InvoiceDays /\ 0 \in 0 .. MaxEvents
    BY BillingConstantsOK DEF InvoiceDays
  <2>3. NoRow \in SubsRow
    BY DEF NoRow, SubsRow
  <2>4. Books
    BY <2>2, <2>3 DEF BillingInit, Books, Bill
  <2>5. Stripes /\ Sold
    BY <2>2 DEF BillingInit, Stripes, Sold, Sale
  <2> QED
    BY <2>1, <2>4, <2>5 DEF BillingInv
<1>2. BillingInv /\ [BillingNext]_billingVars => BillingInv'
  <2> SUFFICES ASSUME BillingInv, [BillingNext]_billingVars PROVE BillingInv'
    OBVIOUS
  <2>1. CASE NextDay
    <3>1. today' \in InvoiceDays
      BY <2>1 DEF NextDay
    <3> QED
      BY <2>1, <3>1 DEF NextDay, BillingInv, Works, Works1, Books, Stripes, Sold, rows,
         stripe, history
  <2>2. CASE UNCHANGED billingVars
    BY <2>2 DEF billingVars, BillingInv, Works, Works1, Books, Stripes, Sold, rows, stripe, history
  <2> QED
    BY <2>1, <2>2, RequestTypes, HandlingTypes, StripeTypes DEF BillingNext
<1> QED
  BY <1>1, <1>2, PTL DEF BillingSpec

\* Rows, handlers and events keep their types: a handler is idle exactly when it has nothing
\* in hand, and a checkout is always for a paid plan.
THEOREM BillingTypes == BillingSpec => []BillingTypeOK
BY BillingInvHolds, BillingIsTyped, PTL

-----------------------------------------------------------------------------
(* Billing: invoices. *)

\* An invoice that is pending is one request ahead of its confirmations.
Ahead(c, status, r) == c + (IF status = "pending" THEN 1 ELSE 0) <= r
AheadInv == \A u \in Users, d \in InvoiceDays :
              Ahead(confirmed[u][d], invoice[u][d].status, requests[u][d])

LEMMA AheadStays ==
  ASSUME BillingInv, AheadInv, UNCHANGED <<invoice, requests, confirmed>>
  PROVE  AheadInv'
BY DEF AheadInv

\* What one invoice is after a step, and the others as they were.
LEMMA AheadSteps ==
  ASSUME BillingInv, AheadInv, NEW u \in Users, NEW d \in InvoiceDays,
         \A v \in Users, e \in InvoiceDays : v # u \/ e # d =>
           /\ confirmed'[v][e] = confirmed[v][e] /\ requests'[v][e] = requests[v][e]
           /\ invoice'[v][e].status = invoice[v][e].status,
         Ahead(confirmed'[u][d], invoice'[u][d].status, requests'[u][d])
  PROVE  AheadInv'
BY DEF AheadInv

LEMMA OneAhead ==
  ASSUME NEW c \in Nat, NEW r \in Nat, NEW status, Ahead(c, status, r)
  PROVE  /\ Ahead(c, "pending", r + 1) /\ Ahead(c, "cancelled", r)
         /\ status = "pending" => Ahead(c + 1, "paid", r)
BY DEF Ahead

\* An invoice is confirmed no more often than it was asked for, for any number of users,
\* admins and days.
THEOREM InvoicesConfirmedOnce == BillingSpec => []ConfirmedOnce
<1>1. BillingInit => AheadInv
  BY DEF BillingInit, AheadInv, Ahead
<1>2. BillingInv /\ AheadInv /\ [BillingNext]_billingVars => AheadInv'
  <2> SUFFICES ASSUME BillingInv, AheadInv, [BillingNext]_billingVars PROVE AheadInv'
    OBVIOUS
  <2>1. /\ \A u \in Users, d \in InvoiceDays : confirmed[u][d] \in Nat /\ requests[u][d] \in Nat
        /\ invoice \in [Users -> [InvoiceDays -> Bill]] /\ today \in InvoiceDays
        /\ requests \in [Users -> [InvoiceDays -> Nat]] /\ confirmed \in [Users -> [InvoiceDays -> Nat]]
    BY DEF BillingInv, Books
  <2>2. ASSUME NEW u \in Users, NEW plan \in PaidPlans, RequestInvoice(u, plan) PROVE AheadInv'
    <3>1. /\ requests'[u][today] = requests[u][today] + 1 /\ confirmed' = confirmed
          /\ invoice'[u][today].status = "pending"
          /\ \A v \in Users, e \in InvoiceDays : v # u \/ e # today =>
               /\ requests'[v][e] = requests[v][e]
               /\ invoice'[v][e].status = invoice[v][e].status
      BY <2>1, <2>2 DEF RequestInvoice, Requested
    <3>2. Ahead(confirmed'[u][today], invoice'[u][today].status, requests'[u][today])
      BY <2>1, <3>1, OneAhead DEF AheadInv
    <3> QED
      BY <2>1, <3>1, <3>2, AheadSteps
  <2>3. ASSUME NEW h \in Handlers, NEW u \in Users, NEW d \in InvoiceDays, ConfirmInvoice(h, u, d)
        PROVE  AheadInv'
    <3>1. /\ confirmed'[u][d] = confirmed[u][d] + 1 /\ requests' = requests
          /\ invoice[u][d].status = "pending" /\ invoice'[u][d].status = "paid"
          /\ \A v \in Users, e \in InvoiceDays : v # u \/ e # d =>
               /\ confirmed'[v][e] = confirmed[v][e]
               /\ invoice'[v][e].status = invoice[v][e].status
      BY <2>1, <2>3 DEF ConfirmInvoice, Bill
    <3>2. Ahead(confirmed'[u][d], invoice'[u][d].status, requests'[u][d])
      BY <2>1, <3>1, OneAhead DEF AheadInv
    <3> QED
      BY <3>1, <3>2, AheadSteps
  <2>4. ASSUME NEW u \in Users, NEW d \in InvoiceDays, CancelInvoice(u, d) PROVE AheadInv'
    <3>1. /\ UNCHANGED <<requests, confirmed>> /\ invoice'[u][d].status = "cancelled"
          /\ \A v \in Users, e \in InvoiceDays : v # u \/ e # d =>
               invoice'[v][e].status = invoice[v][e].status
      BY <2>1, <2>4 DEF CancelInvoice, history, Bill
    <3>2. Ahead(confirmed'[u][d], invoice'[u][d].status, requests'[u][d])
      BY <2>1, <3>1, OneAhead DEF AheadInv
    <3> QED
      BY <3>1, <3>2, AheadSteps
  <2>5. ASSUME NEW u \in Users, \/ GetSubscription(u) \/ CancelLater(u)
                                \/ \E plan \in AllPlans, h \in Handlers :
                                     RequestFree(h, u, plan) \/ CreateCheckout(h, u, plan)
        PROVE  AheadInv'
    BY <2>5, AheadStays DEF GetSubscription, CancelLater, RequestFree, CreateCheckout, rows, history
  <2>6. CASE Handling
    BY <2>6, AheadStays DEF Handling, EnsurePrice, ActivateRow, ReadRowBack, WriteQuotaLimits, Flag,
       BreakOff, Webhook, rows, history
  <2>7. CASE AtStripe
    BY <2>7, AheadStays DEF AtStripe, Pay, Change, Terminate, ChargeFails, rows, history
  <2>8. CASE NextDay \/ (\E event \in mail : WebhookPaymentFailed(event)) \/ UNCHANGED billingVars
    BY <2>8, AheadStays DEF NextDay, WebhookPaymentFailed, billingVars, rows, history
  <2> QED
    BY <2>2, <2>3, <2>4, <2>5, <2>6, <2>7, <2>8 DEF BillingNext, Requests
<1>3. BillingInv /\ AheadInv => ConfirmedOnce
  <2> SUFFICES ASSUME BillingInv, AheadInv, NEW u \in Users, NEW d \in InvoiceDays
               PROVE  confirmed[u][d] <= requests[u][d]
    BY DEF ConfirmedOnce
  <2>1. confirmed[u][d] \in Nat /\ requests[u][d] \in Nat
    BY DEF BillingInv, Books
  <2> QED
    BY <2>1 DEF AheadInv, Ahead
<1> QED
  BY <1>1, <1>2, <1>3, BillingInvHolds, PTL DEF BillingSpec

-----------------------------------------------------------------------------
(* Billing: Stripe's events. *)

\* Events are numbered as they come; the end of a subscription is its last event, and
\* what it began with its first.
Numbered ==
  /\ \A e \in mail : e.n <= sent
  /\ \A e, f \in mail : e.n = f.n => e = f
  /\ \A e, f \in mail : e.sale = f.sale /\ e.type = "completed" => e.n <= f.n
  /\ \A e, f \in mail : e.sale = f.sale /\ e.type = "deleted" => f.n <= e.n
  /\ \A e \in mail : e.type = "deleted" => sale[e.sale].state = "ended"

LEMMA NumberedStays ==
  ASSUME Numbered, mail' \subseteq mail, UNCHANGED <<sent, sale>>
  PROVE  Numbered'
BY DEF Numbered

LEMMA MailTypes ==
  ASSUME BillingInv
  PROVE  /\ sent \in Nat /\ NoEvent \notin mail
         /\ \A e \in mail : e.n \in Nat /\ e.sale \in Sales /\ e.n > 0 /\ sale[e.sale].state # "none"
<1>1. NoEvent.n = 0 /\ \A e \in Events : e.n \in Nat /\ e.n > 0 /\ e.sale \in Sales
  BY BillingConstantsOK DEF NoEvent, Events
<1>2. mail \subseteq Events /\ sent \in Nat
  BY BillingConstantsOK DEF BillingInv, Stripes
<1> QED
  BY <1>1, <1>2 DEF BillingInv, Sold

\* An event that is new.
LEMMA NumberedGrows ==
  ASSUME BillingInv, Numbered, NEW s \in Sales, NEW type, NEW cancels, Emit(type, s, cancels),
         \A t \in Sales \ {s} : sale'[t] = sale[t],
         \/ type = "completed" /\ sale[s].state = "none"
         \/ type \in {"updated", "payment_failed"} /\ sale[s].state = "live"
         \/ type = "deleted" /\ sale[s].state = "live" /\ sale'[s].state = "ended"
  PROVE  Numbered'
<1> DEFINE new == [n |-> sent + 1, type |-> type, sale |-> s, cancels |-> cancels]
<1>1. mail' = mail \cup {new} /\ sent' = sent + 1 /\ new.n = sent + 1 /\ new.type = type /\ new.sale = s
  BY DEF Emit
<1> HIDE DEF new
<1>2. /\ sent \in Nat
      /\ \A e \in mail : e.n \in Nat /\ e.n <= sent /\ e.sale \in Sales /\ sale[e.sale].state # "none"
  BY MailTypes DEF Numbered
<1>3. \A e \in mail : e.n < new.n /\ e.n <= sent'
  BY <1>1, <1>2
<1>4. \A e \in mail : e.type = "deleted" => e.sale # s /\ sale'[e.sale].state = "ended"
  BY <1>2 DEF Numbered
<1>5. type = "completed" => \A e \in mail : e.sale # s
  BY <1>2
<1>6. \A e \in mail' : e.n <= sent'
  BY <1>1, <1>2, <1>3
<1>7. \A e, f \in mail' : e.n = f.n => e = f
  BY <1>1, <1>2, <1>3 DEF Numbered
<1>8. \A e, f \in mail' : e.sale = f.sale /\ e.type = "completed" => e.n <= f.n
  BY <1>1, <1>2, <1>3, <1>5 DEF Numbered
<1>9. \A e, f \in mail' : e.sale = f.sale /\ e.type = "deleted" => f.n <= e.n
  BY <1>1, <1>2, <1>3, <1>4 DEF Numbered
<1>10. \A e \in mail' : e.type = "deleted" => sale'[e.sale].state = "ended"
  BY <1>1, <1>4
<1> QED
  BY <1>6, <1>7, <1>8, <1>9, <1>10 DEF Numbered

LEMMA NumberedHolds == BillingSpec => []Numbered
<1>1. BillingInit => Numbered
  BY DEF BillingInit, Numbered
<1>2. BillingInv /\ Numbered /\ [BillingNext]_billingVars => Numbered'
  <2> SUFFICES ASSUME BillingInv, Numbered, [BillingNext]_billingVars PROVE Numbered'
    OBVIOUS
  <2>1. ASSUME NEW s \in Sales, NEW cancels \in BOOLEAN, \/ Change(s, cancels) \/ Terminate(s) \/ ChargeFails(s)
        PROVE  Numbered'
    <3>1. sale \in [Sales -> Sale]
      BY DEF BillingInv, Stripes
    <3>2. CASE Change(s, cancels) \/ ChargeFails(s)
      BY <3>1, <3>2, NumberedGrows DEF Change, ChargeFails
    <3>3. CASE Terminate(s)
      <4>1. sale'[s].state = "ended"
        BY <3>1, <3>3 DEF Terminate, Sale
      <4> QED
        BY <3>1, <3>3, <4>1, NumberedGrows DEF Terminate
    <3> QED
      BY <2>1, <3>2, <3>3
  <2>2. ASSUME NEW u \in Users, NEW plan \in PaidPlans, NEW s \in Sales, Pay(u, plan, s) PROVE Numbered'
    BY <2>2, NumberedGrows DEF Pay, BillingInv, Stripes
  <2>3. CASE Requests
    BY <2>3, NumberedStays DEF Requests, GetSubscription, CancelLater, RequestFree, CreateCheckout,
       RequestInvoice, CancelInvoice, ConfirmInvoice, stripe
  <2>4. CASE Handling
    BY <2>4, NumberedStays DEF Handling, EnsurePrice, ActivateRow, ReadRowBack,
       WriteQuotaLimits, Flag, BreakOff, Webhook, Acked, stripe
  <2>5. CASE NextDay \/ (\E event \in mail : WebhookPaymentFailed(event)) \/ UNCHANGED billingVars
    BY <2>5, NumberedStays DEF NextDay, WebhookPaymentFailed, Acked, billingVars, stripe
  <2> QED
    BY <2>1, <2>2, <2>3, <2>4, <2>5 DEF BillingNext, AtStripe
<1> QED
  BY <1>1, <1>2, BillingInvHolds, PTL DEF BillingSpec

\* What a row is to have once event e is handled, where s is the one subscription of a user
\* whose row nobody else writes.
Due(s, type) == \E e \in mail : e.sale = s /\ e.type = type
Alone(s)     == Only(s) /\ sale[s].user \notin meddled
Wanted(e)    == IF e.type = "deleted" THEN Free ELSE sale[e.sale].plan

\* A handler without an event works for a user whose row was meddled with ...
Unasked(h) ==
  at[h].event = NoEvent =>
    at[h].stop \in {"idle", "price"} \/ (at[h].user \in meddled /\ at[h].stop # "flag")
\* ... and one with an event has the oldest there is; no other handler has one, and the row
\* has the plan the event is about as soon as it has been written.
Asked(h) ==
  LET e == at[h].event IN
  e # NoEvent =>
    /\ e \in mail /\ e.type # "payment_failed" /\ \A f \in mail : e.n <= f.n
    /\ \A g \in Handlers \ {h} : at[g].event = NoEvent
    /\ at[h].user = sale[e.sale].user
    /\ at[h].stop \in {"activate", "read", "write", "flag"}
    /\ at[h].stop = "activate" => at[h].plan = Wanted(e)
    /\ at[h].stop = "flag" => e.type = "updated"
    /\ Alone(e.sale) /\ at[h].stop # "activate" => subs[at[h].user].plan = Wanted(e)

\* The last of the updates that are still to come says what Stripe has.
LastUpdate(e) ==
  e.type = "updated" /\ \A f \in mail : f.sale = e.sale /\ f.type = "updated" => f.n <= e.n
News(s) ==
  sale[s].state = "live" =>
    /\ \A e \in mail : e.sale = s /\ LastUpdate(e) => e.cancels = sale[s].cancels
    /\ Due(s, "completed") /\ sale[s].cancels => Due(s, "updated")

\* What is not to come any more is in the row.
RowOK(s) ==
  LET u == sale[s].user IN
  Alone(s) =>
    /\ sale[s].state = "live" /\ ~Due(s, "completed") =>
         /\ subs[u].plan = sale[s].plan
         /\ ~Due(s, "updated") /\ sale[s].cancels => subs[u].cancels
    /\ sale[s].state = "ended" /\ ~Due(s, "deleted") =>
         subs[u].plan = Free /\ \A e \in mail : e.sale # s

OrderInv == ordered => /\ \A h \in Handlers : Unasked(h) /\ Asked(h)
                       /\ \A s \in Sales : News(s) /\ RowOK(s)

\* A row whose plan is known keeps it, and its mark.
Keeps(u) == subs[u].plan # NoSub =>
              subs'[u].plan = subs[u].plan /\ (subs[u].cancels => subs'[u].cancels)

LEMMA WantedPlans ==
  ASSUME BillingInv
  PROVE  /\ \A e \in mail : Wanted(e) # NoSub
         /\ \A s \in Sales : sale[s].state # "none" =>
              sale[s].plan # NoSub /\ sale[s].plan # Free /\ sale[s].user \in Users
         /\ Free # NoSub
BY MailTypes, BillingConstantsOK DEF BillingInv, Sold, Wanted, AllPlans

\* Steps that Stripe has no part in.
LEMMA StripeRests ==
  ASSUME BillingInv, OrderInv, UNCHANGED <<mail, sale, ordered>>, meddled \subseteq meddled',
         \A u \in Users \ meddled' : Keeps(u),
         \A h \in Handlers : at'[h] = at[h] \/ (at'[h].event = NoEvent /\ Unasked(h)')
  PROVE  OrderInv'
<1> SUFFICES ASSUME ordered PROVE OrderInv'
  BY DEF OrderInv
<1>1. \A s \in Sales : Alone(s)' => Alone(s) /\ sale[s].user \in Users \ meddled' /\ sale[s].state # "none"
  BY WantedPlans DEF Alone, Only
<1>2. ASSUME NEW s \in Sales PROVE News(s)' /\ RowOK(s)'
  <2>1. News(s) /\ RowOK(s)
    BY DEF OrderInv
  <2>2. News(s)'
    BY <2>1 DEF News, LastUpdate, Due
  <2>3. RowOK(s)'
    BY <1>1, <2>1, WantedPlans DEF RowOK, Due, Keeps
  <2> QED
    BY <2>2, <2>3
<1>3. ASSUME NEW h \in Handlers PROVE Unasked(h)' /\ Asked(h)'
  <2>1. Unasked(h) /\ Asked(h)
    BY DEF OrderInv
  <2>2. CASE at'[h] = at[h]
    <3>1. Unasked(h)'
      BY <2>1, <2>2 DEF Unasked
    <3>2. Asked(h)'
      <4> SUFFICES ASSUME at[h].event # NoEvent PROVE Asked(h)'
        BY <2>2 DEF Asked
      <4> PICK e \in mail : e = at[h].event
        BY <2>1 DEF Asked
      <4>1. e.sale \in Sales /\ sale[e.sale].user = at[h].user
        BY <2>1, MailTypes DEF Asked
      <4>2. Alone(e.sale)' => Alone(e.sale) /\ at[h].user \in Users \ meddled'
        BY <1>1, <4>1
      <4>3. Wanted(e) # NoSub /\ Wanted(e)' = Wanted(e)
        BY <2>2, <4>1, WantedPlans DEF Wanted
      <4>4. \A g \in Handlers \ {h} : at'[g].event = NoEvent
        BY <2>1 DEF Asked
      <4> QED
        BY <2>1, <2>2, <4>2, <4>3, <4>4 DEF Asked, Keeps, Wanted
    <3> QED
      BY <3>1, <3>2
  <2>3. CASE at'[h].event = NoEvent /\ Unasked(h)'
    BY <2>3 DEF Asked
  <2> QED
    BY <2>2, <2>3
<1> QED
  BY <1>2, <1>3 DEF OrderInv

\* Whoever has an event is the only one; the others have none.
LEMMA OneAsked ==
  ASSUME BillingInv, OrderInv, ordered, NEW h \in Handlers, at[h].event # NoEvent,
         UNCHANGED ordered, \A g \in Handlers \ {h} : at'[g] = at[g], meddled' = meddled,
         Unasked(h)', Asked(h)', \A s \in Sales : News(s)' /\ RowOK(s)'
  PROVE  OrderInv'
<1>1. ASSUME NEW g \in Handlers \ {h} PROVE Unasked(g)' /\ Asked(g)'
  <2>1. at[g].event = NoEvent /\ at'[g] = at[g] /\ Unasked(g)
    BY DEF OrderInv, Asked
  <2> QED
    BY <2>1 DEF Asked, Unasked
<1> QED
  BY <1>1 DEF OrderInv

LEMMA SalesRest ==
  ASSUME OrderInv, ordered, UNCHANGED <<mail, sale, subs, meddled>>
  PROVE  \A s \in Sales : News(s)' /\ RowOK(s)'
BY DEF OrderInv, News, LastUpdate, RowOK, Due, Alone, Only

\* A delivery.
LEMMA WebhookFollows ==
  ASSUME BillingInv, OrderInv, NEW h \in Handlers, NEW event \in mail, Webhook(h, event)
  PROVE  OrderInv'
<1> SUFFICES ASSUME ordered PROVE OrderInv'
  BY DEF Webhook, stripe, OrderInv
<1> DEFINE plan == IF event.type = "deleted" THEN Free ELSE sale[event.sale].plan
<1>1. /\ UNCHANGED <<mail, sale, subs, meddled, ordered>> /\ event.type # "payment_failed"
      /\ Starts(h, "activate", sale[event.sale].user, plan, event)
  BY DEF Webhook, rows, stripe, history
<1>2. (\A f \in mail : event.n <= f.n) /\ \A g \in Handlers : at[g].event = NoEvent
  BY DEF Webhook, Comes
<1>3. event \in Events /\ event.sale \in Sales /\ sale[event.sale].user \in Users
      /\ plan \in AllPlans \cup {NoSub} /\ plan = Wanted(event) /\ event # NoEvent
  BY MailTypes DEF BillingInv, Stripes, Sold, AllPlans, Wanted
<1> HIDE DEF plan
<1>4. /\ at'[h] = [stop |-> "activate", user |-> sale[event.sale].user, plan |-> plan, event |-> event]
      /\ \A g \in Handlers \ {h} : at'[g] = at[g]
  BY <1>1, <1>3, HandlerStarts DEF BillingInv, BillingStops
<1>5. Asked(h)' /\ Unasked(h)'
  <2>1. Wanted(event)' = Wanted(event)
    BY <1>1 DEF Wanted
  <2> QED
    BY <1>1, <1>2, <1>3, <1>4, <2>1 DEF Asked, Unasked
<1>6. ASSUME NEW g \in Handlers \ {h} PROVE Unasked(g)' /\ Asked(g)'
  BY <1>1, <1>2, <1>4 DEF Asked, Unasked, OrderInv
<1> QED
  BY <1>5, <1>6, <1>1, SalesRest DEF OrderInv

\* The row is written.
LEMMA ActivateFollows ==
  ASSUME BillingInv, Numbered, OrderInv, NEW h \in Handlers, ActivateRow(h)
  PROVE  OrderInv'
<1> SUFFICES ASSUME ordered PROVE OrderInv'
  BY DEF ActivateRow, stripe, OrderInv
<1> DEFINE w == at[h]
           r == [plan |-> w.plan, cancels |-> FALSE,
                 sale |-> IF w.event.type \in {"completed", "updated"} THEN w.event.sale
                          ELSE subs[w.user].sale]
<1>1. /\ UNCHANGED <<mail, sale, meddled, ordered>> /\ w.stop = "activate" /\ Goes(h, "read")
      /\ subs' = [subs EXCEPT ![w.user] = r]
  BY DEF ActivateRow, stripe, history
<1>2. /\ \A g \in Handlers \ {h} : at'[g] = at[g]
      /\ at'[h].stop = "read" /\ at'[h].user = at[h].user /\ at'[h].event = at[h].event
      /\ at[h].user \in Users
  BY <1>1, HandlerProceeds DEF BillingInv, Works, Works1, Work, BillingStops, Idle
<1>3. subs'[w.user].plan = w.plan /\ \A u \in Users \ {w.user} : subs'[u] = subs[u]
  BY <1>1, <1>2 DEF BillingInv, Books
<1> HIDE DEF r
<1>4. CASE w.event = NoEvent
  <2>1. w.user \in meddled
    BY <1>1, <1>4 DEF OrderInv, Unasked
  <2>2. Unasked(h)'
    BY <1>1, <1>2, <2>1 DEF Unasked
  <2> QED
    BY <1>1, <1>2, <1>3, <1>4, <2>1, <2>2, StripeRests DEF Keeps
<1>5. CASE w.event # NoEvent
  <2>1. Asked(h)
    BY DEF OrderInv
  <2> PICK e \in mail : e = at[h].event
    BY <1>5, <2>1 DEF Asked
  <2>2. e.sale \in Sales /\ sale[e.sale].user = w.user /\ w.plan = Wanted(e) /\ e.type # "payment_failed"
        /\ sale[e.sale].state # "none"
    BY <1>1, <1>5, <2>1, MailTypes DEF Asked
  <2>3. Wanted(e)' = Wanted(e)
    BY <1>1 DEF Wanted
  <2>4. Asked(h)' /\ Unasked(h)'
    BY <1>1, <1>2, <1>3, <1>5, <2>1, <2>2, <2>3 DEF Asked, Unasked, Wanted
  <2>5. ASSUME NEW s \in Sales PROVE News(s)' /\ RowOK(s)'
    <3>1. News(s)'
      BY <1>1 DEF OrderInv, News, LastUpdate, Due
    <3>2. Alone(s)' = Alone(s) /\ \A type : Due(s, type)' = Due(s, type)
      BY <1>1 DEF Alone, Only, Due
    <3>3. CASE Alone(s) /\ sale[s].user # w.user
      <4>1. subs'[sale[s].user] = subs[sale[s].user]
        BY <1>1, <1>3, <3>3, WantedPlans DEF Alone, Only
      <4> QED
        BY <1>1, <3>1, <3>2, <4>1 DEF OrderInv, RowOK
    <3>4. CASE Alone(s) /\ sale[s].user = w.user
      <4>1. e.sale = s /\ Due(s, e.type)
        BY <2>2, <3>4 DEF Alone, Only, Due
      <4>2. e.type \in {"completed", "updated", "deleted"}
        BY <2>2 DEF BillingInv, Stripes, Events
      <4>3. e.type = "deleted" => sale[s].state = "ended"
        BY <4>1 DEF Numbered
      <4>4. sale[s].state = "live" => subs'[w.user].plan = sale[s].plan
        BY <1>3, <2>2, <4>1, <4>3 DEF Wanted
      <4>5. sale[s].state = "ended" => subs'[w.user].plan = Free \/ e.type # "deleted"
        BY <1>3, <2>2, <4>1, <4>3 DEF Wanted
      <4>6. RowOK(s)
        BY DEF OrderInv
      <4> QED
        BY <1>1, <3>1, <3>2, <3>4, <4>1, <4>2, <4>3, <4>4, <4>5, <4>6 DEF RowOK
    <3> QED
      BY <3>1, <3>2, <3>3, <3>4 DEF RowOK
  <2> QED
    BY <1>1, <1>2, <1>5, <2>4, <2>5, OneAsked
<1> QED
  BY <1>4, <1>5

\* A handler that has written the row goes on.
LEMMA AskedGoesOn ==
  ASSUME BillingInv, OrderInv, NEW h \in Handlers, UNCHANGED <<mail, sale, ordered, meddled>>,
         \A u \in Users : Keeps(u), \A g \in Handlers \ {h} : at'[g] = at[g],
         at[h].stop \in {"read", "write"}, at'[h].user = at[h].user, at'[h].event = at[h].event,
         \/ at'[h].stop \in {"read", "write"}
         \/ at'[h].stop = "flag" /\ at[h].event.type = "updated"
  PROVE  OrderInv'
<1> SUFFICES ASSUME ordered PROVE OrderInv'
  BY DEF OrderInv
<1>1. CASE at[h].event = NoEvent
  <2>1. at[h].user \in meddled /\ at'[h].stop # "flag"
    BY <1>1 DEF OrderInv, Unasked, NoEvent
  <2>2. Unasked(h)'
    BY <2>1 DEF Unasked
  <2> QED
    BY <1>1, <2>2, StripeRests
<1>2. CASE at[h].event # NoEvent
  <2>1. Asked(h)
    BY DEF OrderInv
  <2> PICK e \in mail : e = at[h].event
    BY <1>2, <2>1 DEF Asked
  <2>2. at[h].user \in Users /\ Wanted(e) # NoSub /\ Wanted(e)' = Wanted(e)
    BY <2>1, WantedPlans DEF BillingInv, Works, Works1, Idle, Wanted
  <2>3. Asked(h)' /\ Unasked(h)'
    BY <1>2, <2>1, <2>2 DEF Asked, Unasked, Keeps, Alone, Only
  <2>4. ASSUME NEW s \in Sales PROVE News(s)' /\ RowOK(s)'
    BY WantedPlans DEF OrderInv, News, LastUpdate, RowOK, Due, Alone, Only, Keeps
  <2> QED
    BY <1>2, <2>3, <2>4, OneAsked
<1> QED
  BY <1>1, <1>2

\* The oldest event is answered for good.
LEMMA OldestGone ==
  ASSUME Numbered, NEW e \in mail, \A f \in mail : e.n <= f.n, \A f \in mail : f.n \in Nat,
         mail' = mail \ {e}, sale' = sale, \A s \in Sales : News(s)
  PROVE  \A s \in Sales : News(s)'
<1> SUFFICES ASSUME NEW s \in Sales, sale[s].state = "live" PROVE News(s)'
  BY DEF News
<1>1. ASSUME NEW f \in mail', f.sale = s, LastUpdate(f)' PROVE f.cancels = sale[s].cancels
  <2>1. f \in mail /\ e.n <= f.n
    OBVIOUS
  <2>2. LastUpdate(f)
    BY <1>1, <2>1 DEF LastUpdate
  <2> QED
    BY <1>1, <2>1, <2>2 DEF News
<1>2. ASSUME Due(s, "completed")', sale[s].cancels PROVE Due(s, "updated")'
  <2>1. PICK c \in mail' : c.sale = s /\ c.type = "completed"
    BY <1>2 DEF Due
  <2>2. Due(s, "completed")
    BY <2>1 DEF Due
  <2>3. PICK f \in mail : f.sale = s /\ f.type = "updated"
    BY <1>2, <2>2 DEF News, Due
  <2>4. c.n <= f.n /\ c \in mail /\ c # e
    BY <2>1, <2>3 DEF Numbered
  <2>5. f # e
    BY <2>1, <2>3, <2>4 DEF Numbered
  <2> QED
    BY <2>3, <2>5 DEF Due
<1> QED
  BY <1>1, <1>2 DEF News

\* A handler ends with its event, which is dropped or will come again.
LEMMA AskedEnds ==
  ASSUME BillingInv, Numbered, OrderInv, NEW h \in Handlers, at[h].event # NoEvent,
         UNCHANGED <<sale, ordered, meddled>>, Acked(at[h].event), Ends(h),
         \A u \in Users \ {at[h].user} : subs'[u] = subs[u],
         subs'[at[h].user].plan = subs[at[h].user].plan,
         \/ subs' = subs /\ at[h].event.type # "updated" /\ at[h].stop = "write"
         \/ /\ subs'[at[h].user].cancels = at[h].event.cancels
            /\ at[h].stop = "flag"
  PROVE  OrderInv'
<1> SUFFICES ASSUME ordered PROVE OrderInv'
  BY DEF OrderInv
<1>1. Asked(h)
  BY DEF OrderInv
<1> PICK e \in mail : e = at[h].event
  BY <1>1 DEF Asked
<1> DEFINE u == at[h].user
<1>2. /\ e.sale \in Sales /\ sale[e.sale].state # "none" /\ sale[e.sale].user = u /\ u \in Users
      /\ \A f \in mail : e.n <= f.n /\ f.n \in Nat
      /\ Alone(e.sale) => subs[u].plan = Wanted(e)
      /\ e.type \in {"completed", "updated", "deleted"}
  <2>1. e.type # "payment_failed" /\ e \in Events
    BY <1>1 DEF Asked, BillingInv, Stripes
  <2>2. e.type \in {"completed", "updated", "deleted"}
    BY <2>1 DEF Events
  <2> QED
    BY <1>1, <2>2, MailTypes, WantedPlans DEF Asked
<1>3. /\ at'[h].event = NoEvent /\ at'[h].stop = "idle"
      /\ \A g \in Handlers \ {h} : at'[g] = at[g] /\ at[g].event = NoEvent
  BY <1>1, HandlerStops DEF BillingInv, Idle, Asked
<1>4. \A g \in Handlers : Unasked(g)' /\ Asked(g)'
  BY <1>3 DEF OrderInv, Unasked, Asked
<1>5. \A s \in Sales : Alone(s)' = Alone(s)
  BY DEF Alone, Only
<1>6. ASSUME NEW s \in Sales, Alone(s), s # e.sale PROVE subs'[sale[s].user] = subs[sale[s].user]
  BY <1>2, <1>6, WantedPlans DEF Alone, Only
<1>7. CASE mail' = mail
  <2>1. \A s \in Sales : News(s)'
    BY <1>7 DEF OrderInv, News, LastUpdate, Due
  <2>2. Due(e.sale, e.type)'
    BY <1>7 DEF Due
  <2>3. RowOK(e.sale)'
    BY <1>1, <1>2, <1>5, <1>7, <2>2 DEF OrderInv, RowOK, Due, Asked
  <2>4. ASSUME NEW s \in Sales, s # e.sale PROVE RowOK(s)'
    BY <1>5, <1>6, <1>7, <2>4 DEF OrderInv, RowOK, Due
  <2> QED
    BY <1>4, <2>1, <2>3, <2>4 DEF OrderInv
<1>8. CASE mail' = mail \ {e}
  <2>1. \A s \in Sales : News(s)'
    BY <1>2, <1>8, OldestGone DEF OrderInv
  <2>2. ASSUME NEW s \in Sales, s # e.sale PROVE RowOK(s)'
    <3>1. \A type : Due(s, type)' = Due(s, type)
      BY <1>8, <2>2 DEF Due
    <3> QED
      BY <1>5, <1>6, <1>8, <2>2, <3>1 DEF OrderInv, RowOK
  <2>3. RowOK(e.sale)'
    <3> DEFINE s == e.sale
    <3> SUFFICES ASSUME Alone(s) PROVE RowOK(s)'
      BY <1>2, <1>5 DEF RowOK
    <3>1. subs'[u].plan = Wanted(e)
      BY <1>2
    <3>2. ASSUME sale[s].state = "live", ~Due(s, "completed")', ~Due(s, "updated")', sale[s].cancels
          PROVE  subs'[u].cancels
      <4>1. e.type # "deleted"
        BY <1>2, <3>2 DEF Numbered
      <4>2. e.type # "completed"
        <5>1. SUFFICES ASSUME e.type = "completed" PROVE FALSE
          OBVIOUS
        <5>2. Due(s, "completed")
          BY <5>1 DEF Due
        <5>3. PICK f \in mail : f.sale = s /\ f.type = "updated"
          BY <1>2, <3>2, <5>2 DEF OrderInv, News, Due
        <5> QED
          BY <1>8, <3>2, <5>1, <5>3 DEF Due
      <4>3. e.type = "updated" /\ at[h].stop = "flag" /\ subs'[u].cancels = e.cancels
        BY <1>2, <4>1, <4>2
      <4>4. \A f \in mail : f.sale = s /\ f.type = "updated" => f = e
        BY <1>8, <3>2 DEF Due
      <4>5. LastUpdate(e)
        BY <1>2, <4>3, <4>4 DEF LastUpdate
      <4> QED
        BY <1>2, <3>2, <4>3, <4>5 DEF OrderInv, News
    <3>3. ASSUME sale[s].state = "live" PROVE subs'[u].plan = sale[s].plan
      BY <3>1, <3>3 DEF Wanted, Numbered
    <3>4. ASSUME sale[s].state = "ended", ~Due(s, "deleted")'
          PROVE  subs'[u].plan = Free /\ \A f \in mail' : f.sale # s
      <4>1. CASE e.type = "deleted"
        <5>1. \A f \in mail : f.sale = s => f = e
          BY <1>2, <4>1 DEF Numbered
        <5> QED
          BY <1>8, <3>1, <4>1, <5>1 DEF Wanted
      <4>2. CASE e.type # "deleted"
        <5>1. ~Due(s, "deleted")
          BY <1>8, <3>4, <4>2 DEF Due
        <5> QED
          BY <1>2, <3>4, <5>1 DEF OrderInv, RowOK
      <4> QED
        BY <4>1, <4>2
    <3> HIDE DEF u
    <3> QED
      BY <1>2, <3>2, <3>3, <3>4 DEF RowOK
  <2> QED
    BY <1>4, <2>1, <2>2, <2>3 DEF OrderInv
<1> QED
  BY <1>7, <1>8 DEF Acked

\* Everything the handlers do.
LEMMA HandlingFollows ==
  ASSUME BillingInv, Numbered, OrderInv, Handling
  PROVE  OrderInv'
<1>1. ASSUME NEW h \in Handlers, EnsurePrice(h) \/ BreakOff(h) PROVE OrderInv'
  <2>1. UNCHANGED <<mail, sale, ordered, subs, meddled>> /\ Ends(h)
    BY <1>1 DEF EnsurePrice, BreakOff, rows, stripe, history
  <2>2. at'[h].event = NoEvent /\ at'[h].stop = "idle" /\ \A g \in Handlers \ {h} : at'[g] = at[g]
    BY <2>1, HandlerStops DEF BillingInv, Idle
  <2> QED
    BY <2>1, <2>2, StripeRests DEF Keeps, Unasked
<1>2. ASSUME NEW h \in Handlers, ReadRowBack(h) PROVE OrderInv'
  <2>1. /\ UNCHANGED <<mail, sale, ordered, meddled>> /\ at[h].stop = "read" /\ subs' = Enrolled(at[h].user)
        /\ at' = [at EXCEPT ![h].stop = "write", ![h].plan = subs'[at[h].user].plan]
    BY <1>2 DEF ReadRowBack, stripe, history
  <2>2. /\ at'[h].stop = "write" /\ at'[h].user = at[h].user /\ at'[h].event = at[h].event
        /\ \A g \in Handlers \ {h} : at'[g] = at[g]
    BY <2>1 DEF BillingInv, Works, Work
  <2>3. \A u \in Users : Keeps(u)
    BY <2>1 DEF Keeps, Enrolled, BillingInv, Books
  <2> QED
    BY <2>1, <2>2, <2>3, AskedGoesOn
<1>3. ASSUME NEW h \in Handlers, WriteQuotaLimits(h) PROVE OrderInv'
  <2>1. UNCHANGED <<sale, ordered, meddled, subs>> /\ at[h].stop = "write"
    BY <1>3 DEF WriteQuotaLimits, history
  <2>2. CASE at[h].event.type = "updated"
    <3>1. Goes(h, "flag") /\ UNCHANGED mail
      BY <1>3, <2>2 DEF WriteQuotaLimits
    <3>2. /\ at'[h].stop = "flag" /\ at'[h].user = at[h].user /\ at'[h].event = at[h].event
          /\ \A g \in Handlers \ {h} : at'[g] = at[g]
      BY <3>1 DEF Goes, BillingInv, Works, Work
    <3> QED
      BY <2>1, <2>2, <3>1, <3>2, AskedGoesOn DEF Keeps
  <2>3. CASE at[h].event.type # "updated" /\ at[h].event # NoEvent
    BY <1>3, <2>1, <2>3, AskedEnds DEF WriteQuotaLimits
  <2>4. CASE at[h].event = NoEvent
    <3>1. Ends(h) /\ mail' = mail
      <4>1. NoEvent.type # "updated"
        BY DEF NoEvent
      <4> QED
        BY <1>3, <2>4, <4>1, MailTypes DEF WriteQuotaLimits, Acked
    <3>2. at'[h].event = NoEvent /\ at'[h].stop = "idle" /\ \A g \in Handlers \ {h} : at'[g] = at[g]
      BY <3>1, HandlerStops DEF BillingInv, Idle
    <3> QED
      BY <2>1, <3>1, <3>2, StripeRests DEF Keeps, Unasked
  <2> QED
    BY <2>2, <2>3, <2>4
<1>4. ASSUME NEW h \in Handlers, Flag(h) PROVE OrderInv'
  <2>1. /\ UNCHANGED <<sale, ordered, meddled>> /\ at[h].stop = "flag" /\ Ends(h) /\ Acked(at[h].event)
        /\ subs' = [subs EXCEPT ![at[h].user].cancels = at[h].event.cancels]
    BY <1>4 DEF Flag, history
  <2>2. at[h].user \in Users
    BY <2>1 DEF BillingInv, Works, Works1, Idle
  <2>3. /\ subs'[at[h].user].cancels = at[h].event.cancels
        /\ subs'[at[h].user].plan = subs[at[h].user].plan
        /\ \A u \in Users \ {at[h].user} : subs'[u] = subs[u]
    BY <2>1, <2>2 DEF BillingInv, Books, SubsRow
  <2>4. CASE ordered
    <3>1. at[h].event # NoEvent
      BY <2>1, <2>4 DEF OrderInv, Unasked
    <3> QED
      BY <2>1, <2>3, <3>1, AskedEnds
  <2> QED
    BY <2>1, <2>4 DEF OrderInv
<1> QED
  BY <1>1, <1>2, <1>3, <1>4, WebhookFollows, ActivateFollows DEF Handling

\* A charge that fails marks rows, and changes no plan.
LEMMA FailedChargeFollows ==
  ASSUME BillingInv, OrderInv, NEW event \in mail, WebhookPaymentFailed(event)
  PROVE  OrderInv'
<1> SUFFICES ASSUME ordered PROVE OrderInv'
  BY DEF WebhookPaymentFailed, OrderInv
<1>1. /\ UNCHANGED <<at, sale, meddled, ordered>> /\ event.type = "payment_failed"
      /\ mail' \in {mail, mail \ {event}}
      /\ subs' = [u \in Users |->
           IF subs[u].sale = event.sale THEN [subs[u] EXCEPT !.cancels = TRUE] ELSE subs[u]]
  BY DEF WebhookPaymentFailed, history, Acked
<1>2. \A g \in Handlers : at[g].event = NoEvent
  BY DEF WebhookPaymentFailed, Comes
<1>3. \A u \in Users : Keeps(u) /\ subs'[u].plan = subs[u].plan
  BY <1>1 DEF Keeps, BillingInv, Books, SubsRow
<1>4. \A s \in Sales, type \in {"completed", "updated", "deleted"} : Due(s, type)' = Due(s, type)
  BY <1>1 DEF Due
<1>5. ASSUME NEW s \in Sales PROVE News(s)'
  <2>1. \A e \in mail' : LastUpdate(e)' => LastUpdate(e) /\ e \in mail
    BY <1>1 DEF LastUpdate
  <2> QED
    BY <1>1, <1>4, <2>1 DEF OrderInv, News
<1>6. ASSUME NEW s \in Sales PROVE RowOK(s)'
  <2>1. RowOK(s) /\ (Alone(s)' <=> Alone(s))
    BY <1>1 DEF OrderInv, Alone, Only
  <2>2. Alone(s) => sale[s].user \in Users /\ (sale[s].state = "live" => sale[s].plan # NoSub)
    BY WantedPlans DEF Alone, Only
  <2> QED
    BY <1>1, <1>3, <1>4, <2>1, <2>2 DEF RowOK, Keeps
<1>7. \A h \in Handlers : Unasked(h)' /\ Asked(h)'
  BY <1>1, <1>2 DEF OrderInv, Unasked, Asked
<1> QED
  BY <1>5, <1>6, <1>7 DEF OrderInv

\* Stripe emits an event about s.
LEMMA EmitFollows ==
  ASSUME BillingInv, BillingInv', Numbered, OrderInv, NEW s \in Sales, NEW type, NEW cancels,
         Emit(type, s, cancels), UNCHANGED <<at, subs, meddled, ordered>>,
         \A t \in Sales \ {s} : sale'[t] = sale[t],
         \/ sale[s].state = "none"
         \/ sale[s].state = "live" /\ sale'[s].user = sale[s].user /\ sale'[s].plan = sale[s].plan,
         ordered => News(s)' /\ RowOK(s)'
  PROVE  OrderInv'
<1> SUFFICES ASSUME ordered PROVE OrderInv'
  BY DEF OrderInv
<1> DEFINE new == [n |-> sent + 1, type |-> type, sale |-> s, cancels |-> cancels]
<1>1. mail' = mail \cup {new} /\ new.n = sent + 1 /\ new.type = type /\ new.sale = s
  BY DEF Emit
<1> HIDE DEF new
<1>2. /\ sent \in Nat
      /\ \A e \in mail : e.n \in Nat /\ e.n <= sent /\ e.sale \in Sales /\ sale[e.sale].state # "none"
  BY MailTypes DEF Numbered
<1>3. \A e \in mail : /\ sale'[e.sale].user = sale[e.sale].user /\ sale'[e.sale].plan = sale[e.sale].plan
                      /\ Wanted(e)' = Wanted(e) /\ e.n <= new.n
  BY <1>1, <1>2 DEF Wanted
<1>4. ASSUME NEW t \in Sales, sale[t].state # "none", Alone(t)' PROVE Alone(t)
  <2>1. sale'[t].user = sale[t].user /\ sale[t].user \in Users
    BY <1>4, WantedPlans
  <2>2. sale[s].state = "none" => sale[s].user \notin Users
    BY BillingConstantsOK DEF BillingInv, Sold
  <2>3. \A r \in Sales \ {t} : sale'[r].user # sale'[t].user
    BY <1>4 DEF Alone, Only
  <2>4. ASSUME NEW r \in Sales \ {t} PROVE sale[r].user # sale[t].user
    <3>1. CASE r = s /\ sale[s].state = "none"
      BY <2>1, <2>2, <3>1
    <3>2. CASE sale'[r].user = sale[r].user
      BY <2>1, <2>3, <3>2
    <3> QED
      BY <3>1, <3>2
  <2> QED
    BY <1>4, <2>1, <2>4 DEF Alone, Only
<1>5. ASSUME NEW h \in Handlers PROVE Unasked(h)' /\ Asked(h)'
  <2>1. Unasked(h) /\ Asked(h)
    BY DEF OrderInv
  <2>2. Unasked(h)'
    BY <2>1 DEF Unasked
  <2>3. Asked(h)'
    <3> SUFFICES ASSUME at[h].event # NoEvent PROVE Asked(h)'
      BY DEF Asked
    <3> PICK e \in mail : e = at[h].event
      BY <2>1 DEF Asked
    <3>1. Alone(e.sale)' => Alone(e.sale)
      BY <1>2, <1>4
    <3>2. \A f \in mail' : e.n <= f.n
      BY <1>1, <1>3, <2>1 DEF Asked
    <3> QED
      BY <1>1, <1>3, <2>1, <3>1, <3>2 DEF Asked
  <2> QED
    BY <2>2, <2>3
<1>6. ASSUME NEW t \in Sales, t # s PROVE News(t)' /\ RowOK(t)'
  <2>1. \A e \in mail' : e.sale = t => e \in mail
    BY <1>1, <1>6
  <2>2. \A k : Due(t, k)' = Due(t, k)
    BY <1>1, <1>6, <2>1 DEF Due
  <2>3. \A e \in mail : e.sale = t /\ LastUpdate(e)' => LastUpdate(e)
    BY <1>1 DEF LastUpdate
  <2>4. News(t)'
    BY <1>6, <2>1, <2>2, <2>3 DEF OrderInv, News
  <2>5. RowOK(t)'
    <3>1. sale'[t] = sale[t] /\ subs' = subs
      BY <1>6
    <3>2. CASE sale[t].state # "none"
      <4>1. RowOK(t) /\ (Alone(t)' => Alone(t))
        BY <1>4, <3>2 DEF OrderInv
      <4> QED
        BY <2>1, <2>2, <3>1, <4>1 DEF RowOK
    <3>3. CASE sale[t].state = "none"
      BY <3>1, <3>3 DEF RowOK
    <3> QED
      BY <3>2, <3>3
  <2> QED
    BY <2>4, <2>5
<1> QED
  BY <1>5, <1>6 DEF OrderInv


LEMMA StripeEmits ==
  ASSUME BillingInv, BillingInv', Numbered, OrderInv, AtStripe
  PROVE  OrderInv'
<1>0. sale \in [Sales -> Sale]
  BY DEF BillingInv, Stripes
<1>1. ASSUME NEW u \in Users, NEW plan \in PaidPlans, NEW s \in Sales, Pay(u, plan, s) PROVE OrderInv'
  <2>1. /\ sale[s].state = "none" /\ Emit("completed", s, FALSE) /\ UNCHANGED <<at, subs, meddled, ordered>>
        /\ \A t \in Sales \ {s} : sale'[t] = sale[t]
        /\ sale'[s].state = "live" /\ sale'[s].cancels = FALSE
    BY <1>0, <1>1 DEF Pay, rows, history
  <2> DEFINE new == [n |-> sent + 1, type |-> "completed", sale |-> s, cancels |-> FALSE]
  <2>2. mail' = mail \cup {new} /\ new.type = "completed" /\ new.sale = s
    BY <2>1 DEF Emit
  <2> HIDE DEF new
  <2>3. Due(s, "completed")' /\ \A e \in mail' : e.sale = s => e.type = "completed"
    BY <2>1, <2>2, MailTypes DEF Due
  <2>4. News(s)' /\ RowOK(s)'
    BY <2>1, <2>3 DEF News, LastUpdate, RowOK
  <2> QED
    BY <2>1, <2>4, EmitFollows
<1>2. ASSUME NEW s \in Sales, NEW cancels \in BOOLEAN, NEW type \in {"updated", "payment_failed"},
             Emit(type, s, cancels), UNCHANGED <<at, subs, meddled, ordered>>, sale[s].state = "live",
             \A t \in Sales \ {s} : sale'[t] = sale[t],
             sale'[s].state = "live", sale'[s].user = sale[s].user, sale'[s].plan = sale[s].plan,
             sale'[s].cancels = cancels,
             type = "payment_failed" => cancels = sale[s].cancels
      PROVE  OrderInv'
  <2> DEFINE new == [n |-> sent + 1, type |-> type, sale |-> s, cancels |-> cancels]
  <2>1. /\ mail' = mail \cup {new} /\ new.n = sent + 1 /\ new.type = type /\ new.sale = s
        /\ new.cancels = cancels
    BY <1>2 DEF Emit
  <2> HIDE DEF new
  <2>2. \A e \in mail : e.n \in Nat /\ sent \in Nat /\ e.n <= sent
    BY MailTypes DEF Numbered
  <2>3. sent \in Nat
    BY MailTypes
  <2>4. \A k \in {"completed", "deleted"} : Due(s, k)' = Due(s, k)
    BY <2>1, <1>2 DEF Due
  <2>5. Due(s, "updated")' <=> Due(s, "updated") \/ type = "updated"
    BY <2>1, <1>2 DEF Due
  <2>6. ASSUME ordered PROVE News(s)'
    <3>1. News(s)
      BY <2>6 DEF OrderInv
    <3>2. CASE type = "updated"
      <4>1. \A e \in mail' : e.sale = s /\ LastUpdate(e)' => e = new
        BY <2>1, <2>2, <2>3, <3>2 DEF LastUpdate
      <4> QED
        BY <1>2, <2>1, <2>5, <3>2, <4>1 DEF News
    <3>3. CASE type = "payment_failed"
      <4>1. \A e \in mail' : LastUpdate(e)' => e \in mail /\ LastUpdate(e)
        BY <2>1, <3>3 DEF LastUpdate
      <4> QED
        BY <1>2, <2>4, <2>5, <3>1, <3>3, <4>1 DEF News
    <3> QED
      BY <1>2, <3>2, <3>3
  <2>7. ASSUME ordered PROVE RowOK(s)'
    <3>1. RowOK(s) /\ (Alone(s)' => Alone(s)) /\ subs' = subs
      BY <1>2, <2>7 DEF OrderInv, Alone, Only
    <3> QED
      BY <1>2, <2>4, <2>5, <3>1 DEF RowOK
  <2> QED
    BY <1>2, <2>6, <2>7, EmitFollows
<1>3. ASSUME NEW s \in Sales, NEW cancels \in BOOLEAN, Change(s, cancels) PROVE OrderInv'
  <2>1. /\ sale[s].state = "live" /\ Emit("updated", s, cancels) /\ UNCHANGED <<at, subs, meddled, ordered>>
        /\ \A t \in Sales \ {s} : sale'[t] = sale[t]
        /\ sale'[s].state = "live" /\ sale'[s].user = sale[s].user /\ sale'[s].plan = sale[s].plan
        /\ sale'[s].cancels = cancels
    BY <1>0, <1>3 DEF Change, rows, history, Sale
  <2> QED
    BY <2>1, <1>2
<1>4. ASSUME NEW s \in Sales, ChargeFails(s) PROVE OrderInv'
  <2>1. /\ sale[s].state = "live" /\ Emit("payment_failed", s, sale[s].cancels)
        /\ UNCHANGED <<at, subs, meddled, ordered, sale>> /\ sale[s].cancels \in BOOLEAN
    BY <1>0, <1>4 DEF ChargeFails, rows, history, Sale
  <2> DEFINE c == sale[s].cancels
  <2>2. c \in BOOLEAN /\ Emit("payment_failed", s, c) /\ sale'[s].cancels = c
    BY <2>1
  <2> QED
    BY <2>1, <2>2, <1>2
<1>5. ASSUME NEW s \in Sales, Terminate(s) PROVE OrderInv'
  <2>1. /\ sale[s].state = "live" /\ Emit("deleted", s, sale[s].cancels)
        /\ UNCHANGED <<at, subs, meddled, ordered>>
        /\ \A t \in Sales \ {s} : sale'[t] = sale[t]
        /\ sale'[s].state = "ended" /\ sale'[s].user = sale[s].user /\ sale'[s].plan = sale[s].plan
    BY <1>0, <1>5 DEF Terminate, rows, history, Sale
  <2> DEFINE new == [n |-> sent + 1, type |-> "deleted", sale |-> s, cancels |-> sale[s].cancels]
  <2>2. Due(s, "deleted")'
    <3>1. mail' = mail \cup {new} /\ new.type = "deleted" /\ new.sale = s
      BY <2>1 DEF Emit
    <3> HIDE DEF new
    <3> QED
      BY <3>1 DEF Due
  <2>3. News(s)' /\ RowOK(s)'
    BY <2>1, <2>2 DEF News, RowOK
  <2> QED
    BY <2>1, <2>3, EmitFollows
<1> QED
  BY <1>1, <1>3, <1>4, <1>5 DEF AtStripe

LEMMA RequestsFollow ==
  ASSUME BillingInv, OrderInv, Requests
  PROVE  OrderInv'
<1>1. ASSUME NEW u \in Users, GetSubscription(u) \/ CancelLater(u) PROVE OrderInv'
  <2>1. UNCHANGED <<mail, sale, ordered, meddled, at>>
    BY <1>1 DEF GetSubscription, CancelLater, stripe, history
  <2>2. \A v \in Users : Keeps(v)
    <3>1. subs \in [Users -> SubsRow]
      BY DEF BillingInv, Books
    <3>2. CASE GetSubscription(u)
      BY <3>1, <3>2 DEF GetSubscription, Enrolled, Keeps
    <3>3. CASE CancelLater(u)
      <4>1. \A v \in Users : subs'[v].plan = subs[v].plan /\ (subs[v].cancels => subs'[v].cancels)
        BY <3>1, <3>3 DEF CancelLater, SubsRow
      <4> QED
        BY <4>1 DEF Keeps
    <3> QED
      BY <1>1, <3>2, <3>3
  <2> QED
    BY <2>1, <2>2, StripeRests
<1>2. ASSUME NEW h \in Handlers, NEW u \in Users, NEW plan, NEW stop \in {"activate", "price"},
             plan \in AllPlans \cup {NoSub}, Starts(h, stop, u, plan, NoEvent),
             UNCHANGED <<mail, sale, ordered, subs>>, meddled \subseteq meddled',
             stop = "activate" => u \in meddled'
      PROVE  OrderInv'
  <2>1. /\ at'[h] = [stop |-> stop, user |-> u, plan |-> plan, event |-> NoEvent]
        /\ \A g \in Handlers \ {h} : at'[g] = at[g]
    BY <1>2 DEF Starts, BillingInv, Works
  <2>2. at'[h].event = NoEvent /\ Unasked(h)'
    BY <1>2, <2>1 DEF Unasked
  <2> QED
    BY <1>2, <2>1, <2>2, StripeRests DEF Keeps
<1>3. ASSUME NEW u \in Users, NEW plan \in AllPlans, NEW h \in Handlers, RequestFree(h, u, plan)
      PROVE  OrderInv'
  BY <1>2, <1>3 DEF RequestFree, ByHand, rows, stripe
<1>4. ASSUME NEW u \in Users, NEW plan \in AllPlans, NEW h \in Handlers, CreateCheckout(h, u, plan)
      PROVE  OrderInv'
  <2>1. UNCHANGED <<mail, sale, ordered, subs, meddled>>
    BY <1>4 DEF CreateCheckout, rows, history
  <2>2. CASE UNCHANGED at
    BY <2>1, <2>2, StripeRests DEF Keeps
  <2>3. CASE Starts(h, "price", u, plan, NoEvent)
    BY <2>1, <2>3, <1>2
  <2> QED
    BY <1>4, <2>2, <2>3 DEF CreateCheckout
<1>5. ASSUME NEW u \in Users, NEW d \in InvoiceDays, NEW h \in Handlers, ConfirmInvoice(h, u, d)
      PROVE  OrderInv'
  <2> DEFINE plan == invoice[u][d].plan
  <2>1. plan \in AllPlans \cup {NoSub}
    BY DEF BillingInv, Books, Bill, AllPlans
  <2>2. Starts(h, "activate", u, plan, NoEvent) /\ UNCHANGED <<mail, sale, ordered, subs>> /\ ByHand(u)
    BY <1>5 DEF ConfirmInvoice, stripe
  <2> HIDE DEF plan
  <2> QED
    BY <2>1, <2>2, <1>2 DEF ByHand
<1>6. ASSUME NEW u \in Users, NEW plan \in PaidPlans, RequestInvoice(u, plan) PROVE OrderInv'
  BY <1>6, StripeRests DEF RequestInvoice, stripe, Keeps
<1>7. ASSUME NEW u \in Users, NEW d \in InvoiceDays, CancelInvoice(u, d) PROVE OrderInv'
  BY <1>7, StripeRests DEF CancelInvoice, stripe, history, Keeps
<1> QED
  BY <1>1, <1>3, <1>4, <1>5, <1>6, <1>7 DEF Requests

LEMMA OrderInvHolds == BillingSpec => [](BillingInv /\ Numbered /\ OrderInv)
<1>1. BillingInit => OrderInv
  <2> SUFFICES ASSUME BillingInit PROVE OrderInv
    OBVIOUS
  <2>1. mail = {} /\ \A h \in Handlers : at[h].event = NoEvent /\ at[h].stop = "idle"
    BY DEF BillingInit, Idle
  <2>2. \A s \in Sales : sale[s].state = "none"
    BY DEF BillingInit
  <2> QED
    BY <2>1, <2>2 DEF OrderInv, Unasked, Asked, News, RowOK
<1>2. BillingInv /\ BillingInv' /\ Numbered /\ OrderInv /\ [BillingNext]_billingVars => OrderInv'
  <2> SUFFICES ASSUME BillingInv, BillingInv', Numbered, OrderInv, [BillingNext]_billingVars PROVE OrderInv'
    OBVIOUS
  <2>1. CASE NextDay \/ UNCHANGED billingVars
    BY <2>1, StripeRests DEF NextDay, billingVars, rows, stripe, history, Keeps
  <2>2. CASE \E event \in mail : WebhookPaymentFailed(event)
    BY <2>2, FailedChargeFollows
  <2> QED
    BY <2>1, <2>2, RequestsFollow, HandlingFollows, StripeEmits DEF BillingNext
<1> QED
  BY <1>1, <1>2, BillingInvHolds, NumberedHolds, PTL DEF BillingSpec

\* Stripe's events, repeated but in order, leave a user's row as Stripe has it once all are
\* answered, whatever breaks off (webhook(), activatePaid(), the flag of an update): for every
\* number of handlers, users, subscriptions and events.
THEOREM RowsFollowStripe == BillingSpec => []StripeFollows
<1>1. BillingInv /\ OrderInv => StripeFollows
  <2> SUFFICES ASSUME BillingInv, OrderInv, NEW s \in Sales, ordered, Only(s), mail = {},
                      sale[s].user \notin meddled
               PROVE  /\ subs[sale[s].user].plan = IF sale[s].state = "live" THEN sale[s].plan ELSE Free
                      /\ sale[s].state = "live" /\ sale[s].cancels => subs[sale[s].user].cancels
    BY DEF StripeFollows
  <2>1. sale[s].state \in {"live", "ended"}
    BY DEF BillingInv, Stripes, Sale, Only
  <2>2. RowOK(s) /\ Alone(s) /\ \A k : ~Due(s, k)
    BY DEF OrderInv, Alone, Due
  <2> QED
    BY <2>1, <2>2 DEF RowOK
<1> QED
  BY <1>1, OrderInvHolds, PTL
==============================================================================
