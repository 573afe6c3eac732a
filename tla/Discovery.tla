------------------------------ MODULE Discovery ------------------------------
(***************************************************************************)
(* How the gateway learns which account serves which model: RefreshModels  *)
(* of internal/store/models.go.  Every replica runs it at boot and every   *)
(* MODEL_REFRESH_INTERVAL, and the worker's loop and each admin change     *)
(* trigger it too, so several passes may be on their way at once.  They    *)
(* share the tables accounts and discovered_models and, in Valkey, the     *)
(* routing catalog and a lock with a lifetime of 30 seconds.               *)
(***************************************************************************)
EXTENDS Naturals, FiniteSets

CONSTANTS
  Passes,          \* callers of RefreshModels, each runs it again and again
  Replicas, At,    \* the gateway processes, and the one each pass runs in
  Triggered,       \* passes begun by /internal/refresh-models: cut after 2 min
  NoPass,          \* the lock's owner when the key gw:lock:refresh is not set
  Accounts, NoAccount, Models,
  Serves,          \* account -> the models its provider lists
  Deprecated,      \* models that match an enabled row of model_deprecations
  MaxTroubles      \* bound of the kinds of trouble in one behaviour

ASSUME ConstantsOK ==
  /\ At \in [Passes -> Replicas]
  /\ Triggered \subseteq Passes /\ NoPass \notin Passes /\ NoAccount \notin Accounts
  /\ Serves \in [Accounts -> SUBSET Models] /\ Deprecated \subseteq Models
  /\ MaxTroubles \in Nat

VARIABLES
  accounts,   \* table accounts
  rows,       \* table discovered_models: <<account, model>>
  enabled,    \* the rows with enabled = true
  lock,       \* the pass that set gw:lock:refresh
  routes,     \* gw:models:map: model -> accounts, {} for no field
  known,      \* gw:models:all
  cache,      \* each replica's account cache
  pc,         \* where each pass stands
  todo,       \* local: accounts of the snapshot still to be asked
  acc,        \* local: the account that is being asked
  found,      \* local: the models its provider returned
  mapping,    \* local: the enabled rows the pass read back
  left,       \* local: the models it has yet to write
  settled,    \* history: the last rewrite of the catalog reached its end
  troubles    \* history: what has gone wrong so far

tables  == <<accounts, rows, enabled>>
catalog == <<routes, known>>
locals  == <<todo, acc, found, mapping, left>>
vars    == <<tables, lock, catalog, cache, pc, locals, settled, troubles>>

Stops == {"idle", "lock", "next", "erase", "insert", "filter",
          "delRoutes", "delKnown", "putRoutes", "putKnown", "unlock"}

\* A pass overran the lock, was cut by its timeout, died with its replica;
\* a provider or the database did not answer; an admin undid the policy.
Troubles == {"overrun", "cut", "crash", "outage", "dbError", "undone"}

Pairs == Accounts \X Models

\* Between SET NX and DEL of the lock.
Inside(p) == pc[p] \notin {"idle", "lock"}
Rewriting(p) == pc[p] \in {"delKnown", "putRoutes", "putKnown"}

GoTo(p, stop) == pc' = [pc EXCEPT ![p] = stop]
Trouble(what) ==
  /\ troubles' = troubles \cup {what}
  /\ Cardinality(troubles') <= MaxTroubles

\* The locals of these passes are gone.
Forget(gone) ==
  /\ todo' = [p \in Passes |-> IF p \in gone THEN {} ELSE todo[p]]
  /\ acc' = [p \in Passes |-> IF p \in gone THEN NoAccount ELSE acc[p]]
  /\ found' = [p \in Passes |-> IF p \in gone THEN {} ELSE found[p]]
  /\ mapping' = [p \in Passes |-> IF p \in gone THEN {} ELSE mapping[p]]
  /\ left' = [p \in Passes |-> IF p \in gone THEN {} ELSE left[p]]

Init ==
  /\ accounts = {} /\ rows = {} /\ enabled = {}
  /\ lock = NoPass
  /\ routes = [m \in Models |-> {}] /\ known = {}
  /\ cache = [g \in Replicas |-> {}]
  /\ pc = [p \in Passes |-> "idle"]
  /\ todo = [p \in Passes |-> {}]
  /\ acc = [p \in Passes |-> NoAccount]
  /\ found = [p \in Passes |-> {}]
  /\ mapping = [p \in Passes |-> {}]
  /\ left = [p \in Passes |-> {}]
  /\ settled = TRUE
  /\ troubles = {}

-----------------------------------------------------------------------------
(* One pass. *)

\* LoadAccounts comes before the lock.  When the query fails the old cache
\* stays; when the connection breaks between rows, the rows read so far replace
\* it all the same.
Load(p) ==
  /\ pc[p] = "idle"
  /\ \/ cache' = [cache EXCEPT ![At[p]] = accounts] /\ UNCHANGED troubles
     \/ /\ \E part \in {cache[At[p]]} \cup SUBSET accounts :
              cache' = [cache EXCEPT ![At[p]] = part]
        /\ Trouble("dbError")
  /\ GoTo(p, "lock")
  /\ UNCHANGED <<tables, lock, catalog, locals, settled>>

\* (slip: the lock is set without NX)
AcquireAlways(p) ==
  /\ pc[p] = "lock"
  /\ lock' = p
  /\ todo' = [todo EXCEPT ![p] = cache[At[p]]]
  /\ GoTo(p, "next")
  /\ UNCHANGED <<tables, catalog, cache, acc, found, mapping, left, settled, troubles>>

Acquire(p) ==  \* SET NX EX 30
  /\ pc[p] = "lock"
  /\ lock = NoPass
  /\ lock' = p
  /\ todo' = [todo EXCEPT ![p] = cache[At[p]]]
  /\ GoTo(p, "next")
  /\ UNCHANGED <<tables, catalog, cache, acc, found, mapping, left, settled, troubles>>

Skip(p) ==  \* another pass holds the lock
  /\ pc[p] = "lock"
  /\ lock # NoPass
  /\ GoTo(p, "idle")
  /\ UNCHANGED <<tables, lock, catalog, cache, locals, settled, troubles>>

\* fetchModels never returns an error: a provider that does not answer has no
\* models.
Fetch(p) ==
  /\ pc[p] = "next"
  /\ \E a \in todo[p] :
       /\ acc' = [acc EXCEPT ![p] = a]
       /\ todo' = [todo EXCEPT ![p] = @ \ {a}]
       /\ \/ found' = [found EXCEPT ![p] = Serves[a]] /\ UNCHANGED troubles
          \/ found' = [found EXCEPT ![p] = {}] /\ Trouble("outage")
  /\ GoTo(p, "erase")
  /\ UNCHANGED <<tables, lock, catalog, cache, mapping, left, settled>>

Erase(p) ==  \* DELETE FROM discovered_models WHERE account_name = $1
  /\ pc[p] = "erase"
  /\ \/ /\ rows' = {row \in rows : row[1] # acc[p]}
        /\ enabled' = {row \in enabled : row[1] # acc[p]}
        /\ UNCHANGED troubles
     \/ Trouble("dbError") /\ UNCHANGED <<rows, enabled>>
  /\ GoTo(p, "insert")
  /\ UNCHANGED <<accounts, lock, catalog, cache, locals, settled>>

\* An INSERT for each model, whose errors are ignored.  One for an account that
\* is gone violates the foreign key, and a row that is there keeps its flag.
Insert(p) ==
  /\ pc[p] = "insert"
  /\ \E done \in SUBSET found[p] :
       LET new == {row \in {acc[p]} \X done : row[1] \in accounts} \ rows IN
       /\ rows' = rows \cup new
       /\ enabled' = enabled \cup new
       /\ IF done = found[p] THEN UNCHANGED troubles ELSE Trouble("dbError")
  /\ GoTo(p, "filter")
  /\ UNCHANGED <<accounts, lock, catalog, cache, locals, settled>>

\* (slip: the policy is not applied again)
FilterNothing(p) ==
  /\ pc[p] = "filter"
  /\ GoTo(p, "next")
  /\ UNCHANGED <<tables, lock, catalog, cache, locals, settled, troubles>>

\* (slip: the policy is applied to every model)
FilterAll(p) ==
  /\ pc[p] = "filter"
  /\ enabled' = {row \in enabled : row[1] # acc[p]}
  /\ GoTo(p, "next")
  /\ UNCHANGED <<accounts, rows, lock, catalog, cache, locals, settled, troubles>>

Filter(p) ==  \* the deprecation policy disables its models again
  /\ pc[p] = "filter"
  /\ \/ /\ enabled' = {row \in enabled : row[1] = acc[p] => row[2] \notin Deprecated}
        /\ UNCHANGED troubles
     \/ Trouble("dbError") /\ UNCHANGED enabled
  /\ GoTo(p, "next")
  /\ UNCHANGED <<accounts, rows, lock, catalog, cache, locals, settled>>

\* The enabled rows of all accounts are read back; after an error there are
\* those read before it.
ReadBack(p) ==
  /\ pc[p] = "next"
  /\ todo[p] = {}
  /\ \/ mapping' = [mapping EXCEPT ![p] = enabled] /\ UNCHANGED troubles
     \/ /\ \E part \in SUBSET enabled : mapping' = [mapping EXCEPT ![p] = part]
        /\ Trouble("dbError")
  /\ GoTo(p, "delRoutes")
  /\ UNCHANGED <<tables, lock, catalog, cache, todo, acc, found, left, settled>>

DelRoutes(p) ==
  /\ pc[p] = "delRoutes"
  /\ routes' = [m \in Models |-> {}]
  /\ settled' = FALSE
  /\ GoTo(p, "delKnown")
  /\ UNCHANGED <<tables, lock, known, cache, locals, troubles>>

Named(p) == {row[2] : row \in mapping[p]}

\* (slip: the old set of names is kept)
KeepKnown(p) ==
  /\ pc[p] = "delKnown"
  /\ left' = [left EXCEPT ![p] = Named(p)]
  /\ GoTo(p, "putRoutes")
  /\ UNCHANGED <<tables, lock, catalog, cache, todo, acc, found, mapping, settled, troubles>>

DelKnown(p) ==
  /\ pc[p] = "delKnown"
  /\ known' = {}
  /\ left' = [left EXCEPT ![p] = Named(p)]
  /\ GoTo(p, "putRoutes")
  /\ UNCHANGED <<tables, lock, routes, cache, todo, acc, found, mapping, settled, troubles>>

PutRoute(p) ==  \* HSET of one model, in the order of a Go map
  /\ pc[p] = "putRoutes"
  /\ \E m \in left[p] :
       /\ routes' = [routes EXCEPT ![m] = {a \in Accounts : <<a, m>> \in mapping[p]}]
       /\ left' = [left EXCEPT ![p] = @ \ {m}]
  /\ UNCHANGED <<tables, lock, known, cache, pc, todo, acc, found, mapping, settled, troubles>>

RoutesPut(p) ==
  /\ pc[p] = "putRoutes"
  /\ left[p] = {}
  /\ left' = [left EXCEPT ![p] = Named(p)]
  /\ GoTo(p, "putKnown")
  /\ UNCHANGED <<tables, lock, catalog, cache, todo, acc, found, mapping, settled, troubles>>

PutKnown(p) ==  \* SADD of one model
  /\ pc[p] = "putKnown"
  /\ \E m \in left[p] :
       /\ known' = known \cup {m}
       /\ left' = [left EXCEPT ![p] = @ \ {m}]
  /\ UNCHANGED <<tables, lock, routes, cache, pc, todo, acc, found, mapping, settled, troubles>>

KnownPut(p) ==
  /\ pc[p] = "putKnown"
  /\ left[p] = {}
  /\ settled' = TRUE
  /\ GoTo(p, "unlock")
  /\ UNCHANGED <<tables, lock, catalog, cache, locals, troubles>>

\* The deferred DEL, whoever's lock it is by now.
Unlock(p) ==
  /\ pc[p] = "unlock"
  /\ lock' = NoPass
  /\ GoTo(p, "idle")
  /\ Forget({p})
  /\ UNCHANGED <<tables, catalog, cache, settled, troubles>>

\* The two minutes of a triggered pass are over: everything it still does
\* fails, but the DEL of the lock runs on a context of its own.
Cut(p) ==
  /\ p \in Triggered
  /\ Inside(p) /\ pc[p] # "unlock"
  /\ Trouble("cut")
  /\ GoTo(p, "unlock")
  /\ Forget({p})
  /\ UNCHANGED <<tables, lock, catalog, cache, settled>>

-----------------------------------------------------------------------------
(* Around the passes. *)

\* The lock's 30 seconds are over, whether its pass is still at work or died.
Expire ==
  /\ lock # NoPass
  /\ lock' = NoPass
  /\ IF Inside(lock) THEN Trouble("overrun") ELSE UNCHANGED troubles
  /\ UNCHANGED <<tables, catalog, cache, pc, locals, settled>>

\* A replica dies with its passes and its cache, and starts again.
Crash(g) ==
  /\ pc' = [p \in Passes |-> IF At[p] = g THEN "idle" ELSE pc[p]]
  /\ cache' = [cache EXCEPT ![g] = {}]
  /\ Forget({p \in Passes : At[p] = g})
  /\ Trouble("crash")
  /\ UNCHANGED <<tables, lock, catalog, settled>>

\* The admin's changes; each also triggers a pass.
AddAccount(a) ==
  /\ a \notin accounts
  /\ accounts' = accounts \cup {a}
  /\ UNCHANGED <<rows, enabled, lock, catalog, cache, pc, locals, settled, troubles>>

RemoveAccount(a) ==  \* the account's rows go with it
  /\ a \in accounts
  /\ accounts' = accounts \ {a}
  /\ rows' = {row \in rows : row[1] # a}
  /\ enabled' = {row \in enabled : row[1] # a}
  /\ UNCHANGED <<lock, catalog, cache, pc, locals, settled, troubles>>

SetProviderModel(row) ==
  /\ row \in rows
  /\ \/ row \in enabled /\ enabled' = enabled \ {row} /\ UNCHANGED troubles
     \/ /\ row \notin enabled
        /\ enabled' = enabled \cup {row}
        /\ IF row[2] \in Deprecated THEN Trouble("undone") ELSE UNCHANGED troubles
  /\ UNCHANGED <<accounts, rows, lock, catalog, cache, pc, locals, settled>>

Step(p) ==
  \/ Load(p) \/ Acquire(p) \/ Skip(p) \/ Fetch(p) \/ Erase(p) \/ Insert(p) \/ Filter(p)
  \/ ReadBack(p) \/ DelRoutes(p) \/ DelKnown(p) \/ PutRoute(p) \/ RoutesPut(p)
  \/ PutKnown(p) \/ KnownPut(p) \/ Unlock(p)

Next ==
  \/ \E p \in Passes : Step(p) \/ Cut(p)
  \/ Expire
  \/ \E g \in Replicas : Crash(g)
  \/ \E a \in Accounts : AddAccount(a) \/ RemoveAccount(a)
  \/ \E row \in Pairs : SetProviderModel(row)

Spec == Init /\ [][Next]_vars

\* The tickers and the worker's loop run for ever, and so a pass that ended
\* begins again; a lock that is not released runs out.
Fairness == WF_vars(Expire) /\ \A p \in Passes : WF_vars(Step(p))
FairSpec == Spec /\ Fairness

-----------------------------------------------------------------------------
(* What must hold. *)

\* Types, and two things the tables guarantee: a row belongs to an account
\* that exists, and only a row can be enabled.
TypeOK ==
  /\ accounts \subseteq Accounts
  /\ rows \subseteq accounts \X Models
  /\ enabled \subseteq rows
  /\ lock \in Passes \cup {NoPass}
  /\ routes \in [Models -> SUBSET Accounts]
  /\ known \subseteq Models
  /\ cache \in [Replicas -> SUBSET Accounts]
  /\ pc \in [Passes -> Stops]
  /\ todo \in [Passes -> SUBSET Accounts]
  /\ acc \in [Passes -> Accounts \cup {NoAccount}]
  /\ found \in [Passes -> SUBSET Models]
  /\ mapping \in [Passes -> SUBSET Pairs]
  /\ left \in [Passes -> SUBSET Models]
  /\ settled \in BOOLEAN
  /\ troubles \subseteq Troubles

\* The lock keeps passes apart, through skips, cuts and crashes, for as long
\* as no pass outlives it.
OneDiscovers ==
  "overrun" \notin troubles =>
    \A p, q \in Passes : Inside(p) /\ Inside(q) => p = q

\* A deprecated model is inserted enabled and disabled again two statements
\* later.  No pass publishes it in between, as long as none outlives the lock
\* or ends between the two, the UPDATE succeeds, and no admin switches the
\* model on.
PolicyHolds ==
  troubles \cap {"overrun", "cut", "crash", "dbError", "undone"} = {} =>
    \A m \in Deprecated : routes[m] = {}

\* The hash and the set of the catalog are rewritten by many commands.  When
\* no rewrite is under way or was broken off they name the same models, so a
\* model is unknown exactly when no account is listed for it.
CatalogAgrees ==
  settled /\ "overrun" \notin troubles => known = {m \in Models : routes[m] # {}}

\* Once admins and replicas rest, a model that an account serves is routed to
\* it, and again after every rewrite: a lock left by a dead replica, a switch
\* an admin flipped and the passes that skipped do not keep it out.
Disturbance ==
  \/ \E g \in Replicas : Crash(g)
  \/ \E row \in Pairs : SetProviderModel(row)

RoutedAgain ==
  [](troubles \subseteq {"crash", "undone"}) /\ <>[][~Disturbance]_vars =>
    \A a \in Accounts : \A m \in Serves[a] \ Deprecated :
      <>[](a \in accounts) => []<>(a \in routes[m])
==============================================================================
