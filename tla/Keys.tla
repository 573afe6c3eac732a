-------------------------------- MODULE Keys --------------------------------
(***************************************************************************)
(* The gateway keys of one user: those made on the keys page, capped by    *)
(* the plan (auth/client-keys.controller.ts), the short-lived one that the *)
(* web front end's server borrows (bff/bff-internal.controller.ts), and    *)
(* what becomes of them when an admin changes or deletes the user          *)
(* (admin/admin.service.ts).  A handler runs several statements.           *)
(***************************************************************************)
EXTENDS Integers, FiniteSets

CONSTANTS
  Handlers,
  Keys, NoKey,     \* ids of client_api_keys rows
  Caps,            \* values of plans.max_keys
  MaxSwitches      \* bound of the keys switched on again

ASSUME ConstantsOK ==
  /\ IsFiniteSet(Handlers) /\ IsFiniteSet(Keys) /\ NoKey \notin Keys
  /\ Caps \subseteq Nat \ {0} /\ 1 \in Caps
  /\ MaxSwitches \in Nat

VARIABLES
  user,       \* "operator", "admin", "inactive" or, once deleted, "gone"
  cap,        \* max_keys of the user's active subscription, 1 without one
  row,        \* client_api_keys
  cached,     \* the key in chat:dispatch-key:<id>
  at,         \* handler -> what it is doing
  highest,    \* history: the highest cap so far
  crowd,      \* history: the most creations ever between count and insert at once
  switched,   \* history: how often a key was switched on again
  late        \* history: keys that came on after a deletion began to revoke

history == <<highest, crowd, switched, late>>
vars    == <<user, cap, row, cached, at, history>>

Asking == {"ask", "ask again", "ask last"}
Stops  == {"idle", "count", "insert", "check", "forget", "mint", "store", "delete"} \cup Asking
Idle   == [stop |-> "idle", cap |-> 0, key |-> NoKey]
NoRow  == [kind |-> "none", owner |-> "none", active |-> FALSE, age |-> "fresh"]
Rows   == [kind : {"none", "client", "dispatch"}, owner : {"none", "user", "nobody", "orphan"},
           active : BOOLEAN, age : {"fresh", "old", "expired"}]

At(h, stop)   == at[h].stop = stop
Goes(h, stop) == at' = [at EXCEPT ![h].stop = stop]
Ends(h)       == at' = [at EXCEPT ![h] = Idle]
SignedIn      == user \in {"operator", "admin"}

Active(kind)  == {k \in Keys : row[k].active /\ row[k].kind = kind}
Mine          == {k \in Keys : row[k].active /\ row[k].owner = "user"}
Creating      == {h \in Handlers : At(h, "insert")}
Deleting      == \E h \in Handlers : At(h, "delete")
Live(k)       == row[k].active /\ row[k].age # "expired"

Later(k) == late' = IF Deleting THEN late \cup {k} ELSE late

Init ==
  /\ user = "operator" /\ cap = 1
  /\ row = [k \in Keys |-> NoRow]
  /\ cached = NoKey
  /\ at = [h \in Handlers |-> Idle]
  /\ highest = 1 /\ crowd = 0 /\ switched = 0 /\ late = {}

-----------------------------------------------------------------------------
(* The keys page. *)

\* An admin has no cap, and the admin's keys have no owner.
ReadCap(h) ==
  /\ At(h, "idle") /\ SignedIn
  /\ at' = [at EXCEPT ![h].cap = IF user = "admin" THEN 0 ELSE cap,
                      ![h].stop = IF user = "admin" THEN "insert" ELSE "count"]
  /\ crowd' = IF user = "admin" /\ Cardinality(Creating) >= crowd
              THEN Cardinality(Creating) + 1 ELSE crowd
  /\ UNCHANGED <<user, cap, row, cached, highest, switched, late>>

\* (slip: the plan's last key is given twice)
CountKeysLoosely(h) ==
  /\ At(h, "count")
  /\ IF Cardinality(Mine) <= at[h].cap
     THEN /\ Goes(h, "insert")
          /\ crowd' = IF Cardinality(Creating) >= crowd THEN Cardinality(Creating) + 1 ELSE crowd
     ELSE Ends(h) /\ UNCHANGED crowd
  /\ UNCHANGED <<user, cap, row, cached, highest, switched, late>>

\* All active keys of the user count, expired and borrowed ones as well: the date
\* of a key is the gateway's concern.
CountKeys(h) ==
  /\ At(h, "count")
  /\ IF Cardinality(Mine) < at[h].cap
     THEN /\ Goes(h, "insert")
          /\ crowd' = IF Cardinality(Creating) >= crowd THEN Cardinality(Creating) + 1 ELSE crowd
     ELSE Ends(h) /\ UNCHANGED crowd
  /\ UNCHANGED <<user, cap, row, cached, highest, switched, late>>

\* A bad name or date is refused last; a deleted owner breaks the foreign key.
InsertKey(h, k) ==
  /\ At(h, "insert")
  /\ \/ /\ row[k] = NoRow /\ (user = "gone" => at[h].cap = 0)
        /\ row' = [row EXCEPT ![k] = [kind |-> "client", active |-> TRUE, age |-> "fresh",
                                      owner |-> IF at[h].cap = 0 THEN "nobody" ELSE "user"]]
        /\ Later(k)
     \/ UNCHANGED <<row, late>>
  /\ Ends(h)
  /\ UNCHANGED <<user, cap, cached, highest, crowd, switched>>

\* PATCH, by the owner or any admin: nothing is counted.
SwitchKey(k) ==
  /\ row[k] # NoRow
  /\ row[k].active \/ switched < MaxSwitches
  /\ row' = [row EXCEPT ![k].active = ~@]
  /\ switched' = IF row[k].active THEN switched ELSE switched + 1
  /\ late' = IF ~row[k].active /\ (Deleting \/ user = "gone") THEN late \cup {k} ELSE late
  /\ UNCHANGED <<user, cap, cached, at, highest, crowd>>

DeleteKey(k) ==  \* DELETE, and the gateway's purge of rows that expired
  /\ row[k] # NoRow
  /\ row' = [row EXCEPT ![k] = NoRow]
  /\ late' = late \ {k}
  /\ UNCHANGED <<user, cap, cached, at, highest, crowd, switched>>

-----------------------------------------------------------------------------
(* The dispatch key. *)

\* Valkey's failure reads like an empty cache.
ReadCached(h) ==
  /\ At(h, "idle") /\ SignedIn
  /\ \/ at' = [at EXCEPT ![h].key = cached, ![h].stop = IF cached = NoKey THEN "mint" ELSE "check"]
     \/ Goes(h, "mint")
  /\ UNCHANGED <<user, cap, row, cached, history>>

\* Who borrows may be api/chat/complete, which asks the gateway with it.
Lends(h) == Ends(h) \/ Goes(h, "ask")

CheckRow(h) ==
  /\ At(h, "check")
  /\ IF Live(at[h].key) THEN Lends(h) ELSE Goes(h, "forget")
  /\ UNCHANGED <<user, cap, row, cached, history>>

ForgetCached(h) ==  \* whichever key is cached by now
  /\ At(h, "forget")
  /\ cached' = NoKey
  /\ Goes(h, "mint")
  /\ UNCHANGED <<user, cap, row, history>>

MintDispatchKey(h, k) ==
  /\ At(h, "mint")
  /\ IF user = "gone" THEN Ends(h) /\ UNCHANGED <<row, late>>
     ELSE /\ row[k] = NoRow /\ \A g \in Handlers : at[g].key # k
          /\ row' = [row EXCEPT ![k] = [kind |-> "dispatch", owner |-> "user", active |-> TRUE, age |-> "fresh"]]
          /\ at' = [at EXCEPT ![h].key = k, ![h].stop = "store"]
          /\ Later(k)
  /\ UNCHANGED <<user, cap, cached, highest, crowd, switched>>

StoreDispatchKey(h) ==
  /\ At(h, "store")
  /\ cached' \in {at[h].key, cached}
  /\ Lends(h)
  /\ UNCHANGED <<user, cap, row, highest, crowd, switched, late>>

\* The answer, a stream or an error is passed on; the gateway takes a live key only.
Passes(h) ==
  /\ at[h].stop \in Asking
  /\ Ends(h)
  /\ UNCHANGED <<user, cap, row, cached, history>>

\* Asked too often: after the wait the gateway told, twice more.
AsksAgain(h) ==
  /\ at[h].stop \in {"ask", "ask again"} /\ Live(at[h].key)
  /\ Goes(h, IF At(h, "ask") THEN "ask again" ELSE "ask last")
  /\ UNCHANGED <<user, cap, row, cached, history>>

\* After 55 minutes the cache drops the key, five minutes later the row expires.
DispatchKeyAges(k) ==
  /\ row[k].kind = "dispatch" /\ row[k].age # "expired"
  /\ \A h \in Handlers : at[h].key # k
  /\ row' = [row EXCEPT ![k].age = IF @ = "fresh" THEN "old" ELSE "expired"]
  /\ cached' = IF cached = k THEN NoKey ELSE cached
  /\ UNCHANGED <<user, cap, at, history>>

-----------------------------------------------------------------------------
(* Admins. *)

ChangePlan(c) ==
  /\ user # "gone" /\ c # cap
  /\ cap' = c
  /\ highest' = IF c > highest THEN c ELSE highest
  /\ UNCHANGED <<user, row, cached, at, crowd, switched, late>>

ModifyUser(state) ==
  /\ user # "gone" /\ state # user
  /\ user' = state
  /\ UNCHANGED <<cap, row, cached, at, history>>

\* (slip: the user goes first, the keys are revoked by an owner they no longer have)
DeleteFirst(h) ==
  /\ At(h, "idle") /\ user # "gone" /\ ~Deleting
  /\ user' = "gone"
  /\ row' = [k \in Keys |-> IF row[k].owner = "user" THEN [row[k] EXCEPT !.owner = "orphan"] ELSE row[k]]
  /\ UNCHANGED <<cap, cached, at, history>>

RevokeAll(h) ==  \* removeUser's first statement
  /\ At(h, "idle") /\ user # "gone" /\ ~Deleting
  /\ row' = [k \in Keys |-> IF row[k].owner = "user" THEN [row[k] EXCEPT !.active = FALSE] ELSE row[k]]
  /\ late' = {}
  /\ Goes(h, "delete")
  /\ UNCHANGED <<user, cap, cached, highest, crowd, switched>>

\* The foreign key keeps the rows and takes their owner away.
DeleteUser(h) ==
  /\ At(h, "delete")
  /\ user' = "gone"
  /\ row' = [k \in Keys |-> IF row[k].owner = "user" THEN [row[k] EXCEPT !.owner = "orphan"] ELSE row[k]]
  /\ Ends(h)
  /\ UNCHANGED <<cap, cached, history>>

BreakOff(h) ==  \* a statement raises, or the process dies
  /\ ~At(h, "idle")
  /\ Ends(h)
  /\ UNCHANGED <<user, cap, row, cached, highest, crowd, switched, late>>

-----------------------------------------------------------------------------

Create(h)   == ReadCap(h) \/ CountKeys(h) \/ \E k \in Keys : InsertKey(h, k)
Dispatch(h) == \/ ReadCached(h) \/ CheckRow(h) \/ ForgetCached(h) \/ StoreDispatchKey(h)
               \/ Passes(h) \/ AsksAgain(h)
               \/ \E k \in Keys : MintDispatchKey(h, k)

Next ==
  \/ \E h \in Handlers : Create(h) \/ Dispatch(h) \/ RevokeAll(h) \/ DeleteUser(h) \/ BreakOff(h)
  \/ \E k \in Keys : SwitchKey(k) \/ DeleteKey(k) \/ DispatchKeyAges(k)
  \/ \E c \in Caps : ChangePlan(c)
  \/ \E state \in {"operator", "admin", "inactive"} : ModifyUser(state)

Spec == Init /\ [][Next]_vars

-----------------------------------------------------------------------------
(* What must hold. *)

TypeOK ==
  /\ user \in {"operator", "admin", "inactive", "gone"} /\ cap \in Caps
  /\ row \in [Keys -> Rows] /\ cached \in Keys \cup {NoKey}
  /\ at \in [Handlers -> [stop : Stops, cap : Caps \cup {0}, key : Keys \cup {NoKey}]]
  /\ \A h \in Handlers : at[h].stop \in {"check", "store"} \cup Asking => at[h].key # NoKey
  /\ highest \in Caps /\ crowd \in 0 .. Cardinality(Handlers) /\ switched \in 0 .. MaxSwitches
  /\ late \subseteq Keys

\* The count before an insert keeps the user's own keys within the highest cap of
\* any plan the user had, but for those that other requests insert meanwhile and
\* those switched on again, which nothing counts.
KeyCapHeld ==
  Cardinality({k \in Active("client") : row[k].owner = "user"})
    + Cardinality({h \in Creating : at[h].cap > 0})
    <= highest + (IF crowd > 0 THEN crowd - 1 ELSE 0) + switched

\* A deleted user leaves no key that works, but one inserted or switched on while
\* the deletion was under way, or switched on afterwards.
OrphansAreOff ==
  \A k \in Keys : row[k].owner = "orphan" /\ row[k].active => k \in late

=============================================================================
