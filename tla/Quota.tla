-------------------------------- MODULE Quota --------------------------------
(***************************************************************************)
(* The daily and monthly request allowance of one user.  The gateway       *)
(* (checkQuota, internal/api/server.go) counts a call with INCR, compares  *)
(* and, over the limit, takes the call back with DECR; the control plane   *)
(* (billing.service.ts) writes the plan's limits to Valkey and resets the  *)
(* counters whenever a plan is activated.  Calls of all the user's keys    *)
(* run at once, and so do activations.                                     *)
(***************************************************************************)
EXTENDS Integers, FiniteSets

CONSTANTS
  Calls,                  \* client calls, each passes checkQuota once
  Activations,            \* plan changes that run activate()
  Plans, FreePlan, NoPlan,
  Limits,                 \* plan -> its daily (rpd) and monthly (rmo) limit
  Days, Months, DayOf, MonthOf,    \* the calendar: the buckets of each second
  GatewayDB, ControlDB,   \* the Valkey database in each service's VALKEY_URL
  LimitsTTL,              \* the limits key lives a day
  CommandsCanFail,        \* whether a Valkey command of the gateway can fail
  MaxTime                 \* bound of the clock

Time    == 0 .. MaxTime
Buckets == Days \cup Months
DBs     == {GatewayDB, ControlDB}

ASSUME ConstantsOK ==
  /\ IsFiniteSet(Calls) /\ FreePlan \in Plans /\ NoPlan \notin Plans
  /\ Limits \in [Plans -> [rpd : Int, rmo : Int]]
  /\ Days \cap Months = {}
  /\ DayOf \in [Time -> Days] /\ MonthOf \in [Time -> Months]
  /\ LimitsTTL \in Nat \ {0} /\ CommandsCanFail \in BOOLEAN /\ MaxTime \in Nat

VARIABLES
  now,      \* the clock
  sub,      \* the plan of the user's subscriptions row, NoPlan before enrolment
  limits,   \* quota:limits:<uid>, in each database, with the time it expires
  count,    \* quota:<uid>:<day> and quota:m:<uid>:<month>, in each database
  pc,       \* where each call stands in checkQuota
  lim,      \* local: the plan whose limits the call read
  bucket,   \* local: the day or month it is being counted in
  job,      \* where each activation stands
  seen,     \* local: the plan the activation read back
  stamp,    \* local: the time at which it named the counters to reset
  counted,  \* history: the calls counted in a bucket since its last reset
  strays,   \* history: the calls about to be taken back at that reset
  leaked    \* history: the calls that were never taken back since then

calls  == <<pc, lim, bucket>>
jobs   == <<job, seen, stamp>>
ghosts == <<counted, strays, leaked>>
vars   == <<now, sub, limits, count, calls, jobs, ghosts>>

Stops    == {"idle", "month", "undoMonth", "day", "undoDay", "admitted", "refused"}
JobStops == {"idle", "read", "resetDay", "resetMonth", "writeLimits", "done"}
Cached   == [plan : Plans \cup {NoPlan}, until : Nat]

\* What GET quota:limits:<uid> returns; NoPlan when the key is not there.
Read(db) == IF now < limits[db].until THEN limits[db].plan ELSE NoPlan

\* A month is limited by a positive number, a day by one that is not negative.
MonthLimited(plan) == Limits[plan].rmo > 0
DayLimited(plan)   == Limits[plan].rpd >= 0

Cap(plan, b) == IF b \in Months THEN Limits[plan].rmo ELSE Limits[plan].rpd

\* The calls over the limit of a bucket that have not been taken back yet.
Undoing(b) == {c \in Calls : pc[c] \in {"undoMonth", "undoDay"} /\ bucket[c] = b}

-----------------------------------------------------------------------------

Init ==
  /\ now = 0
  /\ sub = NoPlan
  /\ limits = [db \in DBs |-> [plan |-> NoPlan, until |-> 0]]
  /\ count = [db \in DBs |-> [b \in Buckets |-> 0]]
  /\ pc = [c \in Calls |-> "idle"]
  /\ lim = [c \in Calls |-> NoPlan]
  /\ bucket = [c \in Calls |-> DayOf[0]]
  /\ job = [j \in Activations |-> "idle"]
  /\ seen = [j \in Activations |-> NoPlan]
  /\ stamp = [j \in Activations |-> 0]
  /\ counted = [b \in Buckets |-> {}]
  /\ strays = [b \in Buckets |-> {}]
  /\ leaked = [b \in Buckets |-> {}]

(* The gateway: one call's checkQuota. *)

GoTo(c, stop) == pc' = [pc EXCEPT ![c] = stop]

\* No limits, or a GET that fails, lets the call through.
Unlimited(c) ==
  /\ pc[c] = "idle"
  /\ Read(GatewayDB) = NoPlan \/ CommandsCanFail
  /\ GoTo(c, "admitted")
  /\ UNCHANGED <<now, sub, limits, count, lim, bucket, jobs, ghosts>>

ReadLimits(c) ==
  LET plan == Read(GatewayDB) IN
  /\ pc[c] = "idle"
  /\ plan # NoPlan
  /\ lim' = [lim EXCEPT ![c] = plan]
  /\ \/ MonthLimited(plan) /\ GoTo(c, "month") /\ bucket' = [bucket EXCEPT ![c] = MonthOf[now]]
     \/ /\ ~MonthLimited(plan) /\ DayLimited(plan)
        /\ GoTo(c, "day") /\ bucket' = [bucket EXCEPT ![c] = DayOf[now]]
     \/ ~MonthLimited(plan) /\ ~DayLimited(plan) /\ GoTo(c, "admitted") /\ UNCHANGED bucket
  /\ UNCHANGED <<now, sub, limits, count, jobs, ghosts>>

\* After the month comes the day, which is named only now.
Proceed(c) ==
  IF pc[c] = "month" /\ DayLimited(lim[c])
  THEN GoTo(c, "day") /\ bucket' = [bucket EXCEPT ![c] = DayOf[now]]
  ELSE GoTo(c, "admitted") /\ UNCHANGED bucket

Add(n, b) == count' = [count EXCEPT ![GatewayDB][b] = @ + n]

\* (slip: the last call of the allowance is let through twice)
CountInLoosely(c) ==
  LET b == bucket[c] IN
  /\ pc[c] \in {"month", "day"}
  /\ count[GatewayDB][b] <= Cap(lim[c], b)
  /\ Add(1, b)
  /\ counted' = [counted EXCEPT ![b] = @ \cup {c}]
  /\ Proceed(c)
  /\ UNCHANGED <<now, sub, limits, lim, jobs, strays, leaked>>

\* INCR, and the count is within the limit.
CountIn(c) ==
  LET b == bucket[c] IN
  /\ pc[c] \in {"month", "day"}
  /\ count[GatewayDB][b] + 1 <= Cap(lim[c], b)
  /\ Add(1, b)
  /\ counted' = [counted EXCEPT ![b] = @ \cup {c}]
  /\ Proceed(c)
  /\ UNCHANGED <<now, sub, limits, lim, jobs, strays, leaked>>

\* (slip: the limit itself is refused)
CountOutEarly(c) ==
  LET b == bucket[c] IN
  /\ pc[c] \in {"month", "day"}
  /\ count[GatewayDB][b] + 1 >= Cap(lim[c], b)
  /\ Add(1, b)
  /\ GoTo(c, IF pc[c] = "month" THEN "undoMonth" ELSE "undoDay")
  /\ UNCHANGED <<now, sub, limits, lim, bucket, jobs, ghosts>>

\* INCR, and the count is over the limit: it will be taken back.
CountOut(c) ==
  LET b == bucket[c] IN
  /\ pc[c] \in {"month", "day"}
  /\ count[GatewayDB][b] + 1 > Cap(lim[c], b)
  /\ Add(1, b)
  /\ GoTo(c, IF pc[c] = "month" THEN "undoMonth" ELSE "undoDay")
  /\ UNCHANGED <<now, sub, limits, lim, bucket, jobs, ghosts>>

\* The error of INCR is dropped and its result is 0, which no limit refuses.
CountFails(c) ==
  /\ CommandsCanFail
  /\ pc[c] \in {"month", "day"}
  /\ Proceed(c)
  /\ UNCHANGED <<now, sub, limits, count, lim, jobs, ghosts>>

\* (slip: the refused call stays in the counter)
KeepRefused(c) ==
  /\ pc[c] \in {"undoMonth", "undoDay"}
  /\ GoTo(c, "refused")
  /\ UNCHANGED <<now, sub, limits, count, lim, bucket, jobs, ghosts>>

TakeBack(c) ==  \* DECR
  /\ pc[c] \in {"undoMonth", "undoDay"}
  /\ Add(-1, bucket[c])
  /\ GoTo(c, "refused")
  /\ UNCHANGED <<now, sub, limits, lim, bucket, jobs, ghosts>>

\* The error of DECR is dropped as well: the client hung up, and the request's
\* context with it.
TakeBackFails(c) ==
  /\ CommandsCanFail
  /\ pc[c] \in {"undoMonth", "undoDay"}
  /\ leaked' = [leaked EXCEPT ![bucket[c]] = @ \cup ({c} \ strays[bucket[c]])]
  /\ strays' = [strays EXCEPT ![bucket[c]] = @ \ {c}]
  /\ GoTo(c, "refused")
  /\ UNCHANGED <<now, sub, limits, count, lim, bucket, jobs, counted>>

(* The control plane. *)

\* The counter of a bucket starts again from zero, with calls in flight.
Restart(db, b) ==
  /\ count' = [count EXCEPT ![db][b] = 0]
  /\ IF db = GatewayDB
     THEN /\ counted' = [counted EXCEPT ![b] = {}]
          /\ strays' = [strays EXCEPT ![b] = Undoing(b)]
          /\ leaked' = [leaked EXCEPT ![b] = {}]
     ELSE UNCHANGED ghosts

\* getSubscription enrols the user on the free plan and caches nothing.
Enrol ==
  /\ sub = NoPlan
  /\ sub' = FreePlan
  /\ UNCHANGED <<now, limits, count, calls, jobs, ghosts>>

Activate(j, plan) ==  \* activate, activatePaid: the subscriptions row
  /\ job[j] = "idle"
  /\ sub' = plan
  /\ job' = [job EXCEPT ![j] = "read"]
  /\ UNCHANGED <<now, limits, count, calls, seen, stamp, ghosts>>

ReadBack(j) ==  \* refreshQuotaCache: getSubscription, then the key names
  /\ job[j] = "read"
  /\ seen' = [seen EXCEPT ![j] = sub]
  /\ stamp' = [stamp EXCEPT ![j] = now]
  /\ job' = [job EXCEPT ![j] = "resetDay"]
  /\ UNCHANGED <<now, sub, limits, count, calls, ghosts>>

ResetDay(j) ==
  /\ job[j] = "resetDay"
  /\ Restart(ControlDB, DayOf[stamp[j]])
  /\ job' = [job EXCEPT ![j] = "resetMonth"]
  /\ UNCHANGED <<now, sub, limits, calls, seen, stamp>>

ResetMonth(j) ==
  /\ job[j] = "resetMonth"
  /\ Restart(ControlDB, MonthOf[stamp[j]])
  /\ job' = [job EXCEPT ![j] = "writeLimits"]
  /\ UNCHANGED <<now, sub, limits, calls, seen, stamp>>

WriteLimits(j) ==
  /\ job[j] = "writeLimits"
  /\ limits' = [limits EXCEPT ![ControlDB] = [plan |-> seen[j], until |-> now + LimitsTTL]]
  /\ job' = [job EXCEPT ![j] = "done"]
  /\ UNCHANGED <<now, sub, count, calls, seen, stamp, ghosts>>

(* The environment. *)

Tick ==
  /\ now < MaxTime
  /\ now' = now + 1
  /\ UNCHANGED <<sub, limits, count, calls, jobs, ghosts>>

\* Valkey runs with allkeys-lru: under memory pressure any key may go.
EvictCounter(db, b) ==
  /\ count[db][b] # 0
  /\ Restart(db, b)
  /\ UNCHANGED <<now, sub, limits, calls, jobs>>

EvictLimits(db) ==
  /\ limits[db].plan # NoPlan
  /\ limits' = [limits EXCEPT ![db] = [plan |-> NoPlan, until |-> 0]]
  /\ UNCHANGED <<now, sub, count, calls, jobs, ghosts>>

Next ==
  \/ \E c \in Calls :
       \/ Unlimited(c) \/ ReadLimits(c) \/ CountIn(c) \/ CountOut(c) \/ CountFails(c)
       \/ TakeBack(c) \/ TakeBackFails(c)
  \/ Enrol
  \/ \E j \in Activations :
       \/ \E plan \in Plans : Activate(j, plan)
       \/ ReadBack(j) \/ ResetDay(j) \/ ResetMonth(j) \/ WriteLimits(j)
  \/ Tick
  \/ \E db \in DBs : EvictLimits(db) \/ \E b \in Buckets : EvictCounter(db, b)

Spec == Init /\ [][Next]_vars

-----------------------------------------------------------------------------
(* What must hold. *)

\* Every variable keeps to the values its counterpart can take; a counter may
\* go below zero, when a call is taken back after a reset.
TypeOK ==
  /\ now \in Time
  /\ sub \in Plans \cup {NoPlan}
  /\ limits \in [DBs -> Cached]
  /\ count \in [DBs -> [Buckets -> Int]]
  /\ pc \in [Calls -> Stops]
  /\ lim \in [Calls -> Plans \cup {NoPlan}]
  /\ bucket \in [Calls -> Buckets]
  /\ job \in [Activations -> JobStops]
  /\ seen \in [Activations -> Plans \cup {NoPlan}]
  /\ stamp \in [Activations -> Time]
  /\ counted \in [Buckets -> SUBSET Calls]
  /\ strays \in [Buckets -> SUBSET Calls]
  /\ leaked \in [Buckets -> SUBSET Calls]

\* The calls counted before the last reset of a bucket and taken back after it.
Late(b) == strays[b] \ Undoing(b)

\* The exact balance of a counter: the calls counted, the calls on their way
\* out and the ones that were never taken back, less the late ones.  A call
\* the daily limit refuses is still counted in its month.
CountersBalance ==
  \A b \in Buckets :
    count[GatewayDB][b] + Cardinality(Late(b)) =
      Cardinality(counted[b]) + Cardinality(Undoing(b) \ strays[b]) + Cardinality(leaked[b])

\* Concurrent calls never share the last place of an allowance: since a reset
\* no more calls were counted than one of them was allowed, plus one for every
\* late call.
QuotaHeld ==
  \A b \in Buckets : counted[b] # {} =>
    \E c \in counted[b] :
      Cardinality(counted[b]) <= Cap(lim[c], b) + Cardinality(Late(b))

\* INCR shows a call the ones that are on their way out too; still a call is
\* refused only when the calls counted, and those never taken back, use up the
\* allowance of some plan.
RefusedWhenUsedUp ==
  \A b \in Buckets : Undoing(b) \ strays[b] # {} =>
    \E plan \in Plans :
      /\ Cap(plan, b) >= 0
      /\ Cardinality(counted[b]) + Cardinality(leaked[b]) >= Cap(plan, b)
==============================================================================
