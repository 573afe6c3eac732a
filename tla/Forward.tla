------------------------------- MODULE Forward -------------------------------
(***************************************************************************)
(* The gateway's candidate loop: Server.forward of internal/api/server.go  *)
(* with the Store operations it calls (internal/store/routing.go).  Many   *)
(* client requests run it at once, in one gateway process or in several    *)
(* replicas; all they share is in Valkey (cooldowns, strikes, last use,    *)
(* rolling windows) and in PostgreSQL (request_history), and each step     *)
(* below is one stretch of the handler between two uses of that state.     *)
(***************************************************************************)
EXTENDS Naturals, FiniteSets

CONSTANTS
  Requests,         \* client requests, each runs forward() once
  Accounts,         \* upstream accounts in the in-memory account cache
  Models, NoModel,  \* model names; NoModel is the empty model of a request
  NoAccount,        \* the loop variable acc before the first selection
  Mapped,           \* model -> accounts listed for it in gw:models:map
  Wildcards,        \* accounts with the wildcard flag: they serve any model
  Filters,          \* account sets that a request's protocol and task can leave
  Windows, Span,    \* the rolling windows and their lengths
  Retention,        \* entries of a window older than this are trimmed (7 days)
  Limit,            \* account -> window -> requests allowed, 0 for no limit
  ThresholdNum, ThresholdDen,    \* USAGE_THRESHOLD as a fraction (9/10)
  CooldownSeconds,               \* COOLDOWN_SECONDS
  TransportRest, ModelRest, MediaRest,   \* the fixed cooldowns: 10, 5 and 30
  RetryAfters,                   \* Retry-After values, 0 for none or unusable
  ThrottleShift, ThrottleCap,    \* backoff after 429: shift <= 10, <= 86400 s
  CreditShift, CreditCap,        \* backoff after 402: shift <= 6, <= 3600 s
  StrikeTTL,                     \* strikes expire a day after the last one
  StrikesCanBeLost,              \* whether the INCR of a strike can fail
  MaxTime                        \* bound of the clock

Time == 0 .. MaxTime

ASSUME ConstantsOK ==
  /\ IsFiniteSet(Requests) /\ IsFiniteSet(Accounts)
  /\ NoModel \notin Models /\ NoAccount \notin Accounts
  /\ Mapped \in [Models -> SUBSET Accounts]
  /\ Wildcards \subseteq Accounts /\ Filters \subseteq SUBSET Accounts
  /\ Span \in [Windows -> Nat]
  /\ Limit \in [Accounts -> [Windows -> Nat]]
  /\ ThresholdNum \in Nat \ {0} /\ ThresholdDen \in Nat \ {0}
  /\ CooldownSeconds \in Nat \ {0}
  /\ TransportRest \in Nat \ {0} /\ ModelRest \in Nat \ {0}
  /\ MediaRest \in Nat \ {0} /\ RetryAfters \subseteq Nat
  /\ ThrottleShift \in 0 .. 10 /\ ThrottleCap \in Nat \ {0}
  /\ CreditShift \in 0 .. 10 /\ CreditCap \in Nat \ {0}
  /\ StrikeTTL \in Nat /\ Retention \in Nat \ {0} /\ MaxTime \in Nat
  /\ \A w \in Windows : Span[w] <= Retention
  /\ StrikesCanBeLost \in BOOLEAN

VARIABLES
  now,        \* the clock, in seconds
  cooldown,   \* gw:cooldown:<account>: the second the account is free again
  strikes,    \* gw:strikes:<account> with the time its TTL ends
  lastUsed,   \* gw:lastused:<account>
  reserved,   \* gw:win:<account>:*: a sorted set whose member IS the second
  history,    \* rows of request_history
  pc,         \* where each request stands in forward()
  req,        \* the request's model, account filter and media flag
  cands,      \* local: candidates not selected yet
  i,          \* local: the loop counter
  acc,        \* local: the account selected last
  at,         \* local: the `now` Reserve captured on entry
  strike,     \* local: what AddStrike returned
  lastAuth,   \* local: whether a 401/403 response is kept
  reply,      \* what the client was sent
  offered,    \* history: the candidates the loop began with
  granted,    \* history: the reservations Reserve granted
  failed,     \* history: the dispatches that ended in a cooldown
  crowd       \* history: most requests seen between Reserve's two trips

shared == <<cooldown, strikes, lastUsed, reserved, history>>
locals == <<req, cands, i, acc, at, strike, lastAuth, reply>>
ghosts == <<offered, granted, failed, crowd>>
vars   == <<now, shared, pc, locals, ghosts>>

Stops    == {"idle", "head", "media", "count", "record", "upstream",
             "throttled", "credit", "streaming", "done"}
RowKinds == {"usage", "final", "media", "credit"}
Row      == [by : Requests, account : Accounts, kind : RowKinds, at : Time]
Event    == [by : Requests, account : Accounts, at : Time]
Replies  == {"none", "unknown_model", "no_account", "auth", "answer",
             "cut_answer", "aborted"}

-----------------------------------------------------------------------------
(* Store: what the handler reads. *)

Smaller(m, n) == IF m <= n THEN m ELSE n
Larger(m, n)  == IF m <= n THEN n ELSE m

IsCoolingDown(a) == now < cooldown[a]

Strikes(a) == IF now < strikes[a].until THEN strikes[a].n ELSE 0

\* ZCOUNT of one window as Reserve sees it at second t.
Reserved(a, w, t) == {s \in reserved[a] : s + Span[w] >= t}

\* COUNT(*) FILTER of one window over the durable rows.
Durable(a, w) == {row \in history : row.account = a /\ row.at + Span[w] > now}

\* (slip: the durable rows are left out)
WindowCountFast(a, w) == Cardinality(Reserved(a, w, now))

WindowCount(a, w) ==
  Larger(Cardinality(Reserved(a, w, now)), Cardinality(Durable(a, w)))

AtThreshold(count, limit) ==
  limit > 0 /\ count * ThresholdDen >= limit * ThresholdNum

HasCapacity(a) == \A w \in Windows : ~AtThreshold(WindowCount(a, w), Limit[a][w])

Serves(a, m) == m = NoModel \/ a \in Wildcards \/ a \in Mapped[m]

ModelExists(m) == m # NoModel /\ Mapped[m] # {}

EligibleAccounts(m, filter) ==
  {a \in filter : ~IsCoolingDown(a) /\ Serves(a, m) /\ HasCapacity(a)}

\* The score of SelectAccount is the smallest free share over the limited
\* windows, infinite without a limit; shares are compared by cross products.
LimitedWindows(a) == {w \in Windows : Limit[a][w] > 0}
HigherScore(a, b) ==
  \E v \in LimitedWindows(b) : \A w \in LimitedWindows(a) :
    WindowCount(a, w) * Limit[b][v] < WindowCount(b, v) * Limit[a][w]
Before(a, b) ==
  \/ HigherScore(a, b)
  \/ ~HigherScore(b, a) /\ lastUsed[a] < lastUsed[b]

\* A tie goes to the first name in the code, and to any of them here.
SelectAccount(set) == {a \in set : \A b \in set : ~Before(b, a)}

\* 1 << n for the shifts the loop makes, which are at most 10.
PowersOfTwo == <<1, 2, 4, 8, 16, 32, 64, 128, 256, 512, 1024>>

Backoff(n, shift, cap) ==
  Smaller(CooldownSeconds * PowersOfTwo[Smaller(n - 1, shift) + 1], cap)

-----------------------------------------------------------------------------
(* Store and loop: what the handler writes. *)

SetCooldown(a, seconds) == cooldown' = [cooldown EXCEPT ![a] = now + seconds]

AddStrike(r, a) ==
  /\ strikes' = [strikes EXCEPT ![a] =
                   [n |-> Strikes(a) + 1, until |-> now + StrikeTTL]]
  /\ strike' = [strike EXCEPT ![r] = Strikes(a) + 1]

Succeed(a) ==  \* ClearStrikes, MarkUsed
  /\ strikes' = [strikes EXCEPT ![a] = [n |-> 0, until |-> 0]]
  /\ lastUsed' = [lastUsed EXCEPT ![a] = now]

RecordUsage(r, kind) ==
  history' = history \cup {[by |-> r, account |-> acc[r], kind |-> kind, at |-> now]}

GoTo(r, stop) == pc' = [pc EXCEPT ![r] = stop]

TryNext(r) == GoTo(r, "head") /\ i' = [i EXCEPT ![r] = @ + 1]

Reply(r, what) == reply' = [reply EXCEPT ![r] = what]

Failed(r) == failed' = failed \cup {[by |-> r, account |-> acc[r], at |-> now]}

-----------------------------------------------------------------------------

Init ==
  /\ now = 0
  /\ cooldown = [a \in Accounts |-> 0]
  /\ strikes = [a \in Accounts |-> [n |-> 0, until |-> 0]]
  /\ lastUsed = [a \in Accounts |-> 0]
  /\ reserved = [a \in Accounts |-> {}]
  /\ history = {}
  /\ pc = [r \in Requests |-> "idle"]
  /\ req = [r \in Requests |-> [model |-> NoModel, filter |-> {}, media |-> FALSE]]
  /\ cands = [r \in Requests |-> {}]
  /\ i = [r \in Requests |-> 0]
  /\ acc = [r \in Requests |-> NoAccount]
  /\ at = [r \in Requests |-> 0]
  /\ strike = [r \in Requests |-> 0]
  /\ lastAuth = [r \in Requests |-> FALSE]
  /\ reply = [r \in Requests |-> "none"]
  /\ offered = [r \in Requests |-> {}]
  /\ granted = {}
  /\ failed = {}
  /\ crowd = [a \in Accounts |-> 0]

\* forward() begins: the candidates are read once, and never again.
Arrive(r) ==
  /\ pc[r] = "idle"
  /\ \E m \in Models \cup {NoModel}, filter \in Filters, media \in BOOLEAN :
       LET eligible == EligibleAccounts(m, filter) IN
       /\ req' = [req EXCEPT ![r] = [model |-> m, filter |-> filter, media |-> media]]
       /\ cands' = [cands EXCEPT ![r] = eligible]
       /\ offered' = [offered EXCEPT ![r] = eligible]
       /\ \/ eligible # {} /\ GoTo(r, "head") /\ UNCHANGED reply
          \/ /\ eligible = {} /\ m # NoModel /\ ~ModelExists(m)
             /\ GoTo(r, "done") /\ Reply(r, "unknown_model")
          \/ /\ eligible = {} /\ (m = NoModel \/ ModelExists(m))
             /\ GoTo(r, "done") /\ Reply(r, "no_account")
  /\ UNCHANGED <<now, shared, i, acc, at, strike, lastAuth, granted, failed, crowd>>

\* (slip: the chosen account stays on the list)
SelectKeeping(r) ==
  /\ pc[r] = "head"
  /\ i[r] < Cardinality(cands[r])
  /\ \E a \in SelectAccount(cands[r]) : acc' = [acc EXCEPT ![r] = a]
  /\ GoTo(r, IF req[r].media THEN "media" ELSE "count")
  /\ UNCHANGED <<now, shared, req, cands, i, at, strike, lastAuth, reply, ghosts>>

\* The loop condition holds: choose an account and take it off the list.
Select(r) ==
  /\ pc[r] = "head"
  /\ i[r] < Cardinality(cands[r])
  /\ \E a \in SelectAccount(cands[r]) :
       /\ acc' = [acc EXCEPT ![r] = a]
       /\ cands' = [cands EXCEPT ![r] = @ \ {a}]
  /\ GoTo(r, IF req[r].media THEN "media" ELSE "count")
  /\ UNCHANGED <<now, shared, req, i, at, strike, lastAuth, reply, ghosts>>

\* (slip: given up only when no candidate is left, though the counter ran out)
GiveUpEmpty(r) ==
  /\ pc[r] = "head"
  /\ cands[r] = {}
  /\ GoTo(r, "done")
  /\ Reply(r, IF lastAuth[r] THEN "auth" ELSE "no_account")
  /\ UNCHANGED <<now, shared, req, cands, i, acc, at, strike, lastAuth, ghosts>>

\* The loop condition fails: the last auth error if any, else a 429.
GiveUp(r) ==
  /\ pc[r] = "head"
  /\ ~(i[r] < Cardinality(cands[r]))
  /\ GoTo(r, "done")
  /\ Reply(r, IF lastAuth[r] THEN "auth" ELSE "no_account")
  /\ UNCHANGED <<now, shared, req, cands, i, acc, at, strike, lastAuth, ghosts>>

(* The media adapter serves a media request without a reservation. *)

MediaAnswered(r) ==
  /\ pc[r] = "media"
  /\ Succeed(acc[r])
  /\ RecordUsage(r, "media")
  /\ GoTo(r, "done")
  /\ Reply(r, "answer")
  /\ UNCHANGED <<now, cooldown, reserved, req, cands, i, acc, at, strike, lastAuth, ghosts>>

MediaFailed(r) ==
  /\ pc[r] = "media"
  /\ SetCooldown(acc[r], MediaRest)
  /\ Failed(r)
  /\ TryNext(r)
  /\ UNCHANGED <<now, strikes, lastUsed, reserved, history, req, cands, acc, at, strike,
                 lastAuth, reply, offered, granted, crowd>>

NoMediaAdapter(r) ==
  /\ pc[r] = "media"
  /\ GoTo(r, "count")
  /\ UNCHANGED <<now, shared, locals, ghosts>>

(* Reserve: count every window, check, then record. *)

\* The requests that passed the check on an account and have yet to record.
Recording(a) == {r \in Requests : pc[r] = "record" /\ acc[r] = a}

\* (slip: any window below its threshold is enough)
ReserveCountAny(r) ==
  LET a == acc[r] IN
  /\ pc[r] = "count"
  /\ \E w \in Windows : ~AtThreshold(Cardinality(Reserved(a, w, now)), Limit[a][w])
  /\ at' = [at EXCEPT ![r] = now]
  /\ GoTo(r, "record")
  /\ crowd' = [crowd EXCEPT ![a] = Larger(@, Cardinality(Recording(a) \cup {r}))]
  /\ UNCHANGED <<now, shared, req, cands, i, acc, strike, lastAuth, reply, offered,
                 granted, failed>>

ReserveCount(r) ==
  LET a == acc[r] IN
  /\ pc[r] = "count"
  /\ \A w \in Windows : ~AtThreshold(Cardinality(Reserved(a, w, now)), Limit[a][w])
  /\ at' = [at EXCEPT ![r] = now]
  /\ GoTo(r, "record")
  /\ crowd' = [crowd EXCEPT ![a] = Larger(@, Cardinality(Recording(a) \cup {r}))]
  /\ UNCHANGED <<now, shared, req, cands, i, acc, strike, lastAuth, reply, offered,
                 granted, failed>>

ReserveRefused(r) ==
  LET a == acc[r] IN
  /\ pc[r] = "count"
  /\ \E w \in Windows : AtThreshold(Cardinality(Reserved(a, w, now)), Limit[a][w])
  /\ TryNext(r)
  /\ UNCHANGED <<now, shared, req, cands, acc, at, strike, lastAuth, reply, ghosts>>

ReserveRecord(r) ==
  /\ pc[r] = "record"
  /\ reserved' = [reserved EXCEPT ![acc[r]] =
                    {s \in @ \cup {at[r]} : s + Retention > at[r]}]
  /\ granted' = granted \cup {[by |-> r, account |-> acc[r], at |-> at[r]]}
  /\ GoTo(r, "upstream")
  /\ UNCHANGED <<now, cooldown, strikes, lastUsed, history, locals, offered, failed, crowd>>

(* The upstream's answer, by the case of the switch it falls in. *)

BadTarget(r) ==  \* http.NewRequest rejects the account's URL
  /\ pc[r] = "upstream"
  /\ TryNext(r)
  /\ UNCHANGED <<now, shared, req, cands, acc, at, strike, lastAuth, reply, ghosts>>

\* (slip: a transport error leaves the account in rotation)
TransportErrorUncooled(r) ==
  /\ pc[r] = "upstream"
  /\ Failed(r)
  /\ TryNext(r)
  /\ UNCHANGED <<now, shared, req, cands, acc, at, strike, lastAuth, reply, offered,
                 granted, crowd>>

TransportError(r) ==
  /\ pc[r] = "upstream"
  /\ SetCooldown(acc[r], TransportRest)
  /\ Failed(r)
  /\ TryNext(r)
  /\ UNCHANGED <<now, strikes, lastUsed, reserved, history, req, cands, acc, at, strike,
                 lastAuth, reply, offered, granted, crowd>>

Throttled(r) ==  \* 429: AddStrike, then the cooldown of the next action
  /\ pc[r] = "upstream"
  /\ AddStrike(r, acc[r])
  /\ GoTo(r, "throttled")
  /\ UNCHANGED <<now, cooldown, lastUsed, reserved, history, req, cands, i, acc, at,
                 lastAuth, reply, ghosts>>

CoolThrottled(r) ==
  /\ pc[r] = "throttled"
  /\ \E seconds \in RetryAfters :
       SetCooldown(acc[r], IF seconds > 0 THEN seconds
                           ELSE Backoff(strike[r], ThrottleShift, ThrottleCap))
  /\ Failed(r)
  /\ TryNext(r)
  /\ UNCHANGED <<now, strikes, lastUsed, reserved, history, req, cands, acc, at, strike,
                 lastAuth, reply, offered, granted, crowd>>

Refused(r) ==  \* 401, 403
  /\ pc[r] = "upstream"
  /\ lastAuth' = [lastAuth EXCEPT ![r] = TRUE]
  /\ SetCooldown(acc[r], CooldownSeconds)
  /\ Failed(r)
  /\ TryNext(r)
  /\ UNCHANGED <<now, strikes, lastUsed, reserved, history, req, cands, acc, at, strike,
                 reply, offered, granted, crowd>>

OutOfCredit(r) ==  \* 402
  /\ pc[r] = "upstream"
  /\ AddStrike(r, acc[r])
  /\ GoTo(r, "credit")
  /\ UNCHANGED <<now, cooldown, lastUsed, reserved, history, req, cands, i, acc, at,
                 lastAuth, reply, ghosts>>

CoolCredit(r) ==
  /\ pc[r] = "credit"
  /\ SetCooldown(acc[r], Backoff(strike[r], CreditShift, CreditCap))
  /\ RecordUsage(r, "credit")
  /\ Failed(r)
  /\ TryNext(r)
  /\ UNCHANGED <<now, strikes, lastUsed, reserved, req, cands, acc, at, strike,
                 lastAuth, reply, offered, granted, crowd>>

\* AddStrike drops the error of its INCR and returns 0: the backoff then shifts
\* by 0 - 1, a run-time panic, and net/http drops the client's connection.  A
\* 429 reaches the shift only without a usable Retry-After.
StrikeLost(r) ==
  /\ StrikesCanBeLost
  /\ pc[r] = "upstream"
  /\ GoTo(r, "done")
  /\ Reply(r, "aborted")
  /\ UNCHANGED <<now, shared, req, cands, i, acc, at, strike, lastAuth, ghosts>>

ModelGone(r) ==  \* 404, or a 400 that names the model
  /\ pc[r] = "upstream"
  /\ req[r].model # NoModel
  /\ SetCooldown(acc[r], ModelRest)
  /\ Failed(r)
  /\ TryNext(r)
  /\ UNCHANGED <<now, strikes, lastUsed, reserved, history, req, cands, acc, at, strike,
                 lastAuth, reply, offered, granted, crowd>>

\* Every other status is the client's answer.  A body that is not an event
\* stream is read up to 1 MiB first: `whole` says whether it fits, `parsed`
\* whether it is JSON, which is when recordUsageFrom writes a row of its own.
Answered(r, streaming, whole, parsed) ==
  /\ pc[r] = "upstream"
  /\ IF ~streaming /\ whole /\ parsed THEN RecordUsage(r, "usage") ELSE UNCHANGED history
  /\ Succeed(acc[r])
  /\ Reply(r, IF streaming \/ whole THEN "answer" ELSE "cut_answer")
  /\ GoTo(r, "streaming")
  /\ UNCHANGED <<now, cooldown, reserved, req, cands, i, acc, at, strike, lastAuth, ghosts>>

Streamed(r) ==  \* streamUpstream returned
  /\ pc[r] = "streaming"
  /\ RecordUsage(r, "final")
  /\ GoTo(r, "done")
  /\ UNCHANGED <<now, cooldown, strikes, lastUsed, reserved, locals, ghosts>>

(* The environment. *)

Tick ==
  /\ now < MaxTime
  /\ now' = now + 1
  /\ UNCHANGED <<shared, pc, locals, ghosts>>

\* Valkey runs with maxmemory-policy allkeys-lru: it may drop any window key.
EvictWindow(a) ==
  /\ reserved[a] # {}
  /\ reserved' = [reserved EXCEPT ![a] = {}]
  /\ UNCHANGED <<now, cooldown, strikes, lastUsed, history, pc, locals, ghosts>>

Step(r) ==
  \/ Select(r) \/ GiveUp(r)
  \/ MediaAnswered(r) \/ MediaFailed(r) \/ NoMediaAdapter(r)
  \/ ReserveCount(r) \/ ReserveRefused(r) \/ ReserveRecord(r)
  \/ BadTarget(r) \/ TransportError(r) \/ Throttled(r) \/ CoolThrottled(r)
  \/ Refused(r) \/ OutOfCredit(r) \/ CoolCredit(r) \/ StrikeLost(r) \/ ModelGone(r)
  \/ \E streaming, whole, parsed \in BOOLEAN : Answered(r, streaming, whole, parsed)
  \/ Streamed(r)

Next ==
  \/ \E r \in Requests : Arrive(r) \/ Step(r)
  \/ Tick
  \/ \E a \in Accounts : EvictWindow(a)

Spec == Init /\ [][Next]_vars

\* A handler that has begun runs on: it never waits for another request, and
\* the upstream client's timeout ends every wait for a provider.
Fairness == \A r \in Requests : WF_vars(Step(r))
FairSpec == Spec /\ Fairness

-----------------------------------------------------------------------------
(* What must hold. *)

\* Every variable keeps to the values its Go counterpart can take.
TypeOK ==
  /\ now \in Time
  /\ cooldown \in [Accounts -> Nat]
  /\ strikes \in [Accounts -> [n : Nat, until : Nat]]
  /\ lastUsed \in [Accounts -> Time]
  /\ reserved \in [Accounts -> SUBSET Time]
  /\ history \subseteq Row
  /\ pc \in [Requests -> Stops]
  /\ req \in [Requests -> [model : Models \cup {NoModel}, filter : SUBSET Accounts,
                          media : BOOLEAN]]
  /\ cands \in [Requests -> SUBSET Accounts]
  /\ i \in [Requests -> Nat]
  /\ acc \in [Requests -> Accounts \cup {NoAccount}]
  /\ at \in [Requests -> Time]
  /\ strike \in [Requests -> Nat]
  /\ lastAuth \in [Requests -> BOOLEAN]
  /\ reply \in [Requests -> Replies]
  /\ offered \in [Requests -> SUBSET Accounts]
  /\ granted \subseteq Event
  /\ failed \subseteq Event
  /\ crowd \in [Accounts -> Nat]

\* Reserve counts and records in two round trips, so requests that count
\* together all pass the check.  Overshoot has no other cause: a window holds
\* fewer reservations than the threshold, plus as many as were ever between
\* the two trips at once.  Requests that reserve one after another never
\* exceed the threshold.
OvershootBounded ==
  \A a \in Accounts, w \in Windows : \A cap \in 1 .. Limit[a][w] * ThresholdNum :
    AtThreshold(cap, Limit[a][w]) =>
      Cardinality(Reserved(a, w, now)) + Cardinality(Recording(a)) < cap + crowd[a]

\* SetCooldown overwrites, so a short cooldown can replace a long one; but an
\* account that failed a dispatch is never back in rotation sooner than the
\* shortest cooldown the loop gives, whatever other requests do to it.
Rests == (RetryAfters \ {0}) \cup
  {TransportRest, ModelRest, MediaRest, CooldownSeconds, ThrottleCap, CreditCap}
RestsAfterFailure ==
  \A e \in failed : \E rest \in Rests : cooldown[e.account] >= e.at + rest

\* The loop compares a growing counter with a shrinking list: a request that
\* was offered accounts and got none of their answers has tried exactly the
\* larger half of them.
HalfTried ==
  \A r \in Requests :
    pc[r] = "done" /\ offered[r] # {} /\ reply[r] \in {"no_account", "auth"} =>
      LET tried == Cardinality(offered[r] \ cands[r]) IN
      tried = (Cardinality(offered[r]) + 1) \div 2

\* WindowCounts merges Valkey with the durable rows so that no allowance is
\* forgotten: an account whose finished answers fill a window is not offered
\* to a new request, even when Valkey has lost the window.
FinishedIn(a, w) ==
  {r \in Requests : \E row \in history :
     row.by = r /\ row.account = a /\ row.kind \in {"final", "media"}
     /\ row.at + Span[w] > now}
AllowanceSurvives ==
  [][\A r \in Requests : pc[r] = "idle" /\ pc'[r] = "head" =>
       \A a \in offered'[r], w \in Windows :
         ~AtThreshold(Cardinality(FinishedIn(a, w)), Limit[a][w])]_vars

\* A request that entered the loop is answered in the end.
EveryRequestEnds == \A r \in Requests : pc[r] = "head" ~> reply[r] # "none"

\* The loop implements the promise of module Failover.
Promise == INSTANCE Failover WITH left <- cands, refused <- lastAuth
KeepsPromise == Promise!Spec
=============================================================================
