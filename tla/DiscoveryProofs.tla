--------------------------- MODULE DiscoveryProofs ---------------------------
(***************************************************************************)
(* Theorems about model discovery, for any number of passes, replicas,     *)
(* accounts and models: its types, that the lock keeps passes apart, that  *)
(* no deprecated model is published, and that the two keys of the catalog  *)
(* agree.                                                                  *)
(***************************************************************************)
EXTENDS Discovery, TLAPS

\* Tables, catalog and passes keep their types: the foreign key holds through
\* every removal of an account, whatever pass is writing its rows.
THEOREM DiscoveryTypes == Spec => []TypeOK
<1> USE ConstantsOK DEF TypeOK, Stops, Troubles, Pairs, GoTo, Trouble, tables, catalog, locals
<1>1. Init => TypeOK
  BY DEF Init
<1>2. TypeOK /\ [Next]_vars => TypeOK'
  <2> SUFFICES ASSUME TypeOK, [Next]_vars PROVE TypeOK'
    OBVIOUS
  <2>1. ASSUME NEW p \in Passes, Load(p) PROVE TypeOK'
    <3>1. PICK part \in SUBSET Accounts : cache' = [cache EXCEPT ![At[p]] = part]
      BY <2>1 DEF Load
    <3> QED
      BY <2>1, <3>1 DEF Load
  <2>2. ASSUME NEW p \in Passes, Acquire(p) PROVE TypeOK'
    BY <2>2 DEF Acquire
  <2>3. ASSUME NEW p \in Passes, Skip(p) PROVE TypeOK'
    BY <2>3 DEF Skip
  <2>4. ASSUME NEW p \in Passes, Fetch(p) PROVE TypeOK'
    <3>1. PICK a \in Accounts :
            /\ acc' = [acc EXCEPT ![p] = a]
            /\ todo' = [todo EXCEPT ![p] = @ \ {a}]
            /\ \/ found' = [found EXCEPT ![p] = Serves[a]] /\ UNCHANGED troubles
               \/ found' = [found EXCEPT ![p] = {}] /\ Trouble("outage")
      BY <2>4 DEF Fetch
    <3>2. PICK models \in SUBSET Models : found' = [found EXCEPT ![p] = models]
      BY <3>1
    <3>3. troubles' \subseteq Troubles
      BY <3>1
    <3> QED
      BY <2>4, <3>1, <3>2, <3>3 DEF Fetch
  <2>5. ASSUME NEW p \in Passes, Erase(p) PROVE TypeOK'
    BY <2>5 DEF Erase
  <2>6. ASSUME NEW p \in Passes, Insert(p) PROVE TypeOK'
    <3>1. PICK new \in SUBSET (accounts \X Models) :
            rows' = rows \cup new /\ enabled' = enabled \cup new
      BY <2>6 DEF Insert
    <3> QED
      BY <2>6, <3>1 DEF Insert
  <2>7. ASSUME NEW p \in Passes, Filter(p) PROVE TypeOK'
    BY <2>7 DEF Filter
  <2>8. ASSUME NEW p \in Passes, ReadBack(p) PROVE TypeOK'
    <3>1. PICK part \in SUBSET Pairs : mapping' = [mapping EXCEPT ![p] = part]
      <4>1. enabled \in SUBSET Pairs
        OBVIOUS
      <4> QED
        BY <2>8, <4>1 DEF ReadBack
    <3> QED
      BY <2>8, <3>1 DEF ReadBack
  <2>9. ASSUME NEW p \in Passes, DelRoutes(p) PROVE TypeOK'
    BY <2>9 DEF DelRoutes
  <2>10. ASSUME NEW p \in Passes PROVE Named(p) \in SUBSET Models
    BY DEF Named
  <2>11. ASSUME NEW p \in Passes, DelKnown(p) PROVE TypeOK'
    BY <2>10, <2>11 DEF DelKnown
  <2>12. ASSUME NEW p \in Passes, PutRoute(p) PROVE TypeOK'
    <3>1. PICK m \in Models :
            /\ routes' = [routes EXCEPT ![m] = {a \in Accounts : <<a, m>> \in mapping[p]}]
            /\ left' = [left EXCEPT ![p] = @ \ {m}]
      BY <2>12 DEF PutRoute
    <3> QED
      BY <2>12, <3>1 DEF PutRoute
  <2>13. ASSUME NEW p \in Passes, RoutesPut(p) PROVE TypeOK'
    BY <2>10, <2>13 DEF RoutesPut
  <2>14. ASSUME NEW p \in Passes, PutKnown(p) PROVE TypeOK'
    BY <2>14 DEF PutKnown
  <2>15. ASSUME NEW p \in Passes, KnownPut(p) PROVE TypeOK'
    BY <2>15 DEF KnownPut
  <2>16. ASSUME NEW gone \in SUBSET Passes, Forget(gone)
         PROVE  /\ todo' \in [Passes -> SUBSET Accounts]
                /\ acc' \in [Passes -> Accounts \cup {NoAccount}]
                /\ found' \in [Passes -> SUBSET Models]
                /\ mapping' \in [Passes -> SUBSET Pairs]
                /\ left' \in [Passes -> SUBSET Models]
    BY <2>16 DEF Forget
  <2>17. ASSUME NEW p \in Passes, Unlock(p) PROVE TypeOK'
    BY <2>16, <2>17 DEF Unlock
  <2>18. ASSUME NEW p \in Passes, Cut(p) PROVE TypeOK'
    BY <2>16, <2>18 DEF Cut
  <2>19. CASE Expire
    BY <2>19 DEF Expire
  <2>20. ASSUME NEW g \in Replicas, Crash(g) PROVE TypeOK'
    BY <2>16, <2>20 DEF Crash
  <2>21. ASSUME NEW a \in Accounts, AddAccount(a) \/ RemoveAccount(a) PROVE TypeOK'
    BY <2>21 DEF AddAccount, RemoveAccount
  <2>22. ASSUME NEW row \in Pairs, SetProviderModel(row) PROVE TypeOK'
    <3>1. CASE row \in enabled
      BY <2>22, <3>1 DEF SetProviderModel
    <3>2. CASE row \notin enabled
      <4>1. enabled' = enabled \cup {row} /\ row \in rows
        BY <2>22, <3>2 DEF SetProviderModel
      <4>2. troubles' \in {troubles, troubles \cup {"undone"}}
        BY <2>22, <3>2 DEF SetProviderModel
      <4> QED
        BY <2>22, <4>1, <4>2 DEF SetProviderModel
    <3> QED
      BY <3>1, <3>2
  <2>23. CASE UNCHANGED vars
    BY <2>23 DEF vars
  <2> HIDE DEF TypeOK, Pairs
  <2> QED
    BY <2>1, <2>2, <2>3, <2>4, <2>5, <2>6, <2>7, <2>8, <2>9, <2>11, <2>12, <2>13, <2>14,
       <2>15, <2>17, <2>18, <2>19, <2>20, <2>21, <2>22, <2>23 DEF Next, Step
<1> HIDE DEF TypeOK
<1> QED
  BY <1>1, <1>2, PTL DEF Spec

-----------------------------------------------------------------------------
(* The lock. *)

\* What went wrong stays on record.
LEMMA TroublesStay ==
  ASSUME [Next]_vars
  PROVE  troubles \subseteq troubles'
<1> USE DEF Trouble, locals
<1>1. ASSUME NEW p \in Passes,
             \/ Load(p) \/ Acquire(p) \/ Skip(p) \/ Fetch(p) \/ Erase(p) \/ Insert(p)
             \/ Filter(p) \/ ReadBack(p)
      PROVE  troubles \subseteq troubles'
  BY <1>1 DEF Load, Acquire, Skip, Fetch, Erase, Insert, Filter, ReadBack
<1>2. ASSUME NEW p \in Passes,
             \/ DelRoutes(p) \/ DelKnown(p) \/ PutRoute(p) \/ RoutesPut(p) \/ PutKnown(p)
             \/ KnownPut(p) \/ Unlock(p) \/ Cut(p)
      PROVE  troubles \subseteq troubles'
  BY <1>2 DEF DelRoutes, DelKnown, PutRoute, RoutesPut, PutKnown, KnownPut, Unlock, Cut
<1>3. CASE \/ Expire
           \/ \E g \in Replicas : Crash(g)
           \/ \E a \in Accounts : AddAccount(a) \/ RemoveAccount(a)
           \/ \E row \in Pairs : SetProviderModel(row)
           \/ UNCHANGED vars
  BY <1>3 DEF Expire, Crash, AddAccount, RemoveAccount, SetProviderModel, vars
<1> QED
  BY <1>1, <1>2, <1>3 DEF Next, Step

\* A pass between SET NX and DEL is the one that set the lock.
LockInv == "overrun" \notin troubles => \A p \in Passes : Inside(p) => lock = p

\* Until a pass outlives the lock, the passes at work own it.
LEMMA LockHolds == Spec => []LockInv
<1> USE ConstantsOK DEF TypeOK, Stops, Troubles, GoTo, Trouble, Inside, LockInv,
                       tables, catalog, locals
<1>1. Init => LockInv
  BY DEF Init
<1>2. TypeOK /\ LockInv /\ [Next]_vars => LockInv'
  <2> SUFFICES ASSUME TypeOK, LockInv, [Next]_vars PROVE LockInv'
    OBVIOUS
  <2>1. ASSUME NEW p \in Passes, Load(p) \/ Skip(p) PROVE LockInv'
    BY <2>1 DEF Load, Skip
  <2>2. ASSUME NEW p \in Passes, Acquire(p) PROVE LockInv'
    BY <2>2 DEF Acquire
  <2>3. ASSUME NEW p \in Passes,
               \/ Fetch(p) \/ Erase(p) \/ Insert(p) \/ Filter(p) \/ ReadBack(p)
        PROVE  LockInv'
    BY <2>3 DEF Fetch, Erase, Insert, Filter, ReadBack
  <2>4. ASSUME NEW p \in Passes,
               \/ DelRoutes(p) \/ DelKnown(p) \/ PutRoute(p) \/ RoutesPut(p)
               \/ PutKnown(p) \/ KnownPut(p)
        PROVE  LockInv'
    BY <2>4 DEF DelRoutes, DelKnown, PutRoute, RoutesPut, PutKnown, KnownPut
  <2>5. ASSUME NEW p \in Passes, Unlock(p) PROVE LockInv'
    BY <2>5 DEF Unlock
  <2>6. ASSUME NEW p \in Passes, Cut(p) PROVE LockInv'
    BY <2>6 DEF Cut
  <2>7. CASE Expire
    <3>1. CASE Inside(lock)
      BY <2>7, <3>1 DEF Expire
    <3>2. CASE ~Inside(lock)
      BY <2>7, <3>2 DEF Expire
    <3> QED
      BY <3>1, <3>2
  <2>8. ASSUME NEW g \in Replicas, Crash(g) PROVE LockInv'
    BY <2>8 DEF Crash
  <2>9. CASE \/ \E a \in Accounts : AddAccount(a) \/ RemoveAccount(a)
             \/ \E row \in Pairs : SetProviderModel(row)
             \/ UNCHANGED vars
    BY <2>9 DEF AddAccount, RemoveAccount, SetProviderModel, vars
  <2> QED
    BY <2>1, <2>2, <2>3, <2>4, <2>5, <2>6, <2>7, <2>8, <2>9 DEF Next, Step
<1> QED
  BY <1>1, <1>2, DiscoveryTypes, PTL DEF Spec

-----------------------------------------------------------------------------
(* The deprecation policy. *)

Clean == troubles \cap {"overrun", "cut", "crash", "dbError", "undone"} = {}

\* A deprecated row is enabled only between the INSERT and the UPDATE of a pass,
\* and no pass has read one back.
PolicyInv ==
  Clean =>
    /\ \A row \in enabled : row[2] \in Deprecated =>
         \E p \in Passes : pc[p] = "filter" /\ acc[p] = row[1]
    /\ \A p \in Passes : \A row \in mapping[p] : row[2] \notin Deprecated
    /\ \A m \in Deprecated : routes[m] = {}

\* No pass reads while another has its models inserted and not yet filtered.
LEMMA PolicyInvHolds == Spec => []PolicyInv
<1> USE ConstantsOK DEF TypeOK, Stops, Troubles, Pairs, GoTo, Trouble, Clean, tables, catalog, locals
<1>1. Init => PolicyInv
  BY DEF Init, PolicyInv
<1>2. TypeOK /\ LockInv /\ PolicyInv /\ [Next]_vars => PolicyInv'
  <2> SUFFICES ASSUME TypeOK, LockInv, PolicyInv, [Next]_vars, Clean' PROVE PolicyInv'
    BY DEF PolicyInv
  <2>1. Clean
    BY TroublesStay
  <2>2. \A p, q \in Passes : Inside(p) /\ Inside(q) => p = q
    BY <2>1 DEF LockInv
  <2> USE <2>1 DEF PolicyInv
  <2>3. ASSUME NEW p \in Passes, Load(p) \/ Acquire(p) \/ Skip(p) PROVE PolicyInv'
    BY <2>3 DEF Load, Acquire, Skip
  <2>4. ASSUME NEW p \in Passes, Fetch(p) PROVE PolicyInv'
    BY <2>4 DEF Fetch
  <2>5. ASSUME NEW p \in Passes, Erase(p) PROVE PolicyInv'
    BY <2>5 DEF Erase
  <2>6. ASSUME NEW p \in Passes, Insert(p) PROVE PolicyInv'
    <3>1. enabled' \subseteq enabled \cup {acc[p]} \X Models
      BY <2>6 DEF Insert
    <3> QED
      BY <2>6, <3>1 DEF Insert
  <2>7. ASSUME NEW p \in Passes, Filter(p) PROVE PolicyInv'
    BY <2>7 DEF Filter
  <2>8. ASSUME NEW p \in Passes, ReadBack(p) PROVE PolicyInv'
    <3>1. \A q \in Passes : pc[q] # "filter"
      BY <2>2, <2>8 DEF ReadBack, Inside
    <3>2. mapping' = [mapping EXCEPT ![p] = enabled]
      BY <2>8 DEF ReadBack
    <3> QED
      BY <2>8, <3>1, <3>2 DEF ReadBack
  <2>9. ASSUME NEW p \in Passes, DelRoutes(p) \/ DelKnown(p) PROVE PolicyInv'
    BY <2>9 DEF DelRoutes, DelKnown
  <2>10. ASSUME NEW p \in Passes, PutRoute(p) PROVE PolicyInv'
    <3>1. PICK m \in Models : routes' = [routes EXCEPT ![m] = {a \in Accounts : <<a, m>> \in mapping[p]}]
      BY <2>10 DEF PutRoute
    <3>2. m \in Deprecated => {a \in Accounts : <<a, m>> \in mapping[p]} = {}
      BY <3>1
    <3> QED
      BY <2>10, <3>1, <3>2 DEF PutRoute
  <2>11. ASSUME NEW p \in Passes, RoutesPut(p) \/ PutKnown(p) \/ KnownPut(p) PROVE PolicyInv'
    BY <2>11 DEF RoutesPut, PutKnown, KnownPut
  <2>12. ASSUME NEW p \in Passes, Unlock(p) PROVE PolicyInv'
    BY <2>12 DEF Unlock, Forget
  <2>13. ASSUME NEW a \in Accounts, AddAccount(a) \/ RemoveAccount(a) PROVE PolicyInv'
    BY <2>13 DEF AddAccount, RemoveAccount
  <2>14. ASSUME NEW row \in Pairs, SetProviderModel(row) PROVE PolicyInv'
    BY <2>14, SMTT(30) DEF SetProviderModel
  <2>15. CASE Expire
    BY <2>15 DEF Expire
  <2>16. CASE UNCHANGED vars
    BY <2>16 DEF vars
  <2>17. ~ (\E p \in Passes : Cut(p)) /\ ~ (\E g \in Replicas : Crash(g))
    BY DEF Cut, Crash
  <2> QED
    BY <2>3, <2>4, <2>5, <2>6, <2>7, <2>8, <2>9, <2>10, <2>11, <2>12, <2>13, <2>14, <2>15,
       <2>16, <2>17 DEF Next, Step
<1> QED
  BY <1>1, <1>2, DiscoveryTypes, LockHolds, PTL DEF Spec

-----------------------------------------------------------------------------
(* The catalog. *)

Listed(p, m) == {a \in Accounts : <<a, m>> \in mapping[p]}

\* What the two keys hold at each stop of the pass that rewrites them.
CatalogInv ==
  "overrun" \notin troubles =>
    /\ \A p \in Passes :
         /\ Rewriting(p) => ~settled
         /\ pc[p] = "delKnown" => \A m \in Models : routes[m] = {}
         /\ pc[p] = "putRoutes" =>
              known = {} /\ \A m \in Models :
                routes[m] = IF m \in left[p] THEN {} ELSE Listed(p, m)
         /\ pc[p] = "putKnown" =>
              /\ known = Named(p) \ left[p]
              /\ \A m \in Models : routes[m] = Listed(p, m)
         /\ pc[p] \in {"putRoutes", "putKnown"} => left[p] \subseteq Named(p)
    /\ settled => known = {m \in Models : routes[m] # {}}

\* A model has a route exactly when it is named.
LEMMA NamedIsListed ==
  ASSUME TypeOK, NEW p \in Passes
  PROVE  Named(p) = {m \in Models : Listed(p, m) # {}}
<1>1. ASSUME NEW m \in Named(p) PROVE m \in Models /\ Listed(p, m) # {}
  <2>1. PICK row \in mapping[p] : row[2] = m
    BY <1>1 DEF Named
  <2>2. row \in Accounts \X Models /\ row = <<row[1], m>>
    BY <2>1 DEF TypeOK, Pairs
  <2> QED
    BY <2>1, <2>2 DEF Listed
<1>2. ASSUME NEW m \in Models, Listed(p, m) # {} PROVE m \in Named(p)
  <2>1. PICK a \in Accounts : <<a, m>> \in mapping[p]
    BY <1>2 DEF Listed
  <2>2. <<a, m>>[2] = m
    OBVIOUS
  <2> QED
    BY <2>1, <2>2 DEF Named
<1> QED
  BY <1>1, <1>2

\* Each stop of a rewrite leaves the two keys as the stop implies.
LEMMA CatalogInvHolds == Spec => []CatalogInv
<1> USE ConstantsOK DEF TypeOK, Stops, Troubles, GoTo, Trouble, Rewriting, tables, catalog, locals
<1>1. Init => CatalogInv
  BY DEF Init, CatalogInv
<1>2. TypeOK /\ LockInv /\ CatalogInv /\ [Next]_vars => CatalogInv'
  <2> SUFFICES ASSUME TypeOK, LockInv, CatalogInv, [Next]_vars, "overrun" \notin troubles'
               PROVE  CatalogInv'
    BY DEF CatalogInv
  <2>1. "overrun" \notin troubles
    BY TroublesStay
  <2>2. \A p, q \in Passes : Inside(p) /\ Inside(q) => p = q
    BY <2>1 DEF LockInv
  <2>3. ASSUME UNCHANGED catalog, UNCHANGED settled,
               \A p \in Passes : Rewriting(p)' => /\ pc'[p] = pc[p] /\ left'[p] = left[p]
                                                   /\ mapping'[p] = mapping[p]
        PROVE  CatalogInv'
    <3>1. ASSUME NEW p \in Passes, Rewriting(p)'
          PROVE  Named(p)' = Named(p) /\ \A m \in Models : Listed(p, m)' = Listed(p, m)
      BY <2>3, <3>1 DEF Named, Listed
    <3> QED
      BY <2>1, <2>3, <3>1 DEF CatalogInv
  <2>4. ASSUME NEW p \in Passes,
               \/ Load(p) \/ Acquire(p) \/ Skip(p) \/ Fetch(p) \/ Erase(p) \/ Insert(p)
               \/ Filter(p)
        PROVE  CatalogInv'
    BY <2>3, <2>4 DEF Load, Acquire, Skip, Fetch, Erase, Insert, Filter
  <2>5. ASSUME NEW p \in Passes, ReadBack(p) PROVE CatalogInv'
    <3>1. \A q \in Passes : q # p => mapping'[q] = mapping[q]
      BY <2>5 DEF ReadBack
    <3> QED
      BY <2>3, <2>5, <3>1 DEF ReadBack
  <2>6. ASSUME NEW p \in Passes, pc[p] \notin {"idle", "lock"},
               NEW q \in Passes \ {p}
        PROVE  ~Rewriting(q)
    BY <2>2, <2>6 DEF Inside
  <2>17. ASSUME UNCHANGED mapping
        PROVE  \A p \in Passes : /\ Named(p)' = Named(p)
                                 /\ \A m \in Models : Listed(p, m)' = Listed(p, m)
    BY <2>17 DEF Named, Listed
  <2> USE <2>1 DEF CatalogInv
  <2>7. ASSUME NEW p \in Passes, DelRoutes(p) PROVE CatalogInv'
    BY <2>6, <2>7 DEF DelRoutes
  <2>8. ASSUME NEW p \in Passes, DelKnown(p) PROVE CatalogInv'
    <3>1. \A q \in Passes : Rewriting(q)' => q = p
      BY <2>6, <2>8 DEF DelKnown
    <3>2. /\ pc'[p] = "putRoutes" /\ left'[p] = Named(p) /\ known' = {}
          /\ UNCHANGED <<mapping, routes, settled>> /\ pc[p] = "delKnown"
      BY <2>8 DEF DelKnown
    <3>3. \A m \in Models : routes[m] = IF m \in Named(p) THEN {} ELSE Listed(p, m)
      <4>1. \A m \in Models : routes[m] = {}
        BY <3>2
      <4>2. \A m \in Models : m \notin Named(p) => Listed(p, m) = {}
        BY NamedIsListed
      <4> QED
        BY <4>1, <4>2
    <3> QED
      BY <2>17, <3>1, <3>2, <3>3
  <2>9. ASSUME NEW p \in Passes, PutRoute(p) PROVE CatalogInv'
    <3>1. \A q \in Passes : Rewriting(q)' => q = p
      BY <2>6, <2>9 DEF PutRoute
    <3>2. pc'[p] = "putRoutes" /\ pc[p] = "putRoutes" /\ UNCHANGED <<mapping, known, settled>>
      BY <2>9 DEF PutRoute
    <3>3. PICK m \in left[p] : /\ routes' = [routes EXCEPT ![m] = Listed(p, m)]
                               /\ left' = [left EXCEPT ![p] = @ \ {m}]
      BY <2>9 DEF PutRoute, Listed
    <3>4. \A n \in Models : routes'[n] = IF n \in left'[p] THEN {} ELSE Listed(p, n)
      <4>1. left'[p] = left[p] \ {m} /\ m \in Models
        BY <3>3
      <4>2. \A n \in Models : routes[n] = IF n \in left[p] THEN {} ELSE Listed(p, n)
        BY <3>2
      <4>3. \A n \in Models : routes'[n] = IF n = m THEN Listed(p, m) ELSE routes[n]
        BY <3>3, <4>1
      <4> QED
        BY <4>1, <4>2, <4>3
    <3> QED
      BY <2>17, <3>1, <3>2, <3>3, <3>4
  <2>10. ASSUME NEW p \in Passes, RoutesPut(p) PROVE CatalogInv'
    <3>1. \A q \in Passes : Rewriting(q)' => q = p
      BY <2>6, <2>10 DEF RoutesPut
    <3>2. /\ pc'[p] = "putKnown" /\ pc[p] = "putRoutes" /\ left[p] = {}
          /\ left'[p] = Named(p) /\ UNCHANGED <<mapping, routes, known, settled>>
      BY <2>10 DEF RoutesPut
    <3> QED
      BY <2>17, <3>1, <3>2
  <2>11. ASSUME NEW p \in Passes, PutKnown(p) PROVE CatalogInv'
    <3>1. \A q \in Passes : Rewriting(q)' => q = p
      BY <2>6, <2>11 DEF PutKnown
    <3>2. pc'[p] = "putKnown" /\ pc[p] = "putKnown" /\ UNCHANGED <<mapping, routes, settled>>
      BY <2>11 DEF PutKnown
    <3>3. PICK m \in left[p] : known' = known \cup {m} /\ left'[p] = left[p] \ {m}
      BY <2>11 DEF PutKnown
    <3> QED
      BY <2>17, <3>1, <3>2, <3>3
  <2>12. ASSUME NEW p \in Passes, KnownPut(p) PROVE CatalogInv'
    BY <2>6, <2>12, NamedIsListed DEF KnownPut
  <2>13. ASSUME NEW p \in Passes, Unlock(p) \/ Cut(p) PROVE CatalogInv'
    BY <2>3, <2>13 DEF Unlock, Cut, Forget
  <2>14. CASE Expire
    BY <2>3, <2>14 DEF Expire
  <2>15. ASSUME NEW g \in Replicas, Crash(g) PROVE CatalogInv'
    BY <2>3, <2>15 DEF Crash, Forget
  <2>16. CASE \/ \E a \in Accounts : AddAccount(a) \/ RemoveAccount(a)
              \/ \E row \in Pairs : SetProviderModel(row)
              \/ UNCHANGED vars
    BY <2>3, <2>16 DEF AddAccount, RemoveAccount, SetProviderModel, vars
  <2> QED
    BY <2>4, <2>5, <2>7, <2>8, <2>9, <2>10, <2>11, <2>12, <2>13, <2>14, <2>15, <2>16
    DEF Next, Step
<1> QED
  BY <1>1, <1>2, DiscoveryTypes, LockHolds, PTL DEF Spec

-----------------------------------------------------------------------------
(* The theorems. *)

\* However passes skip, are cut off or die, and whoever deletes the lock, no two
\* of them are ever between SET NX and DEL, until one outlives the 30 seconds.
THEOREM LockKeepsApart == Spec => []OneDiscovers
<1>1. LockInv => OneDiscovers
  BY DEF LockInv, OneDiscovers
<1> QED
  BY <1>1, LockHolds, PTL

\* A deprecated model, inserted enabled and disabled two statements later, is
\* not published in between by any pass.
THEOREM PolicyIsKept == Spec => []PolicyHolds
<1>1. PolicyInv => PolicyHolds
  BY DEF PolicyInv, PolicyHolds, Clean
<1> QED
  BY <1>1, PolicyInvHolds, PTL

\* A rewrite that reached its end leaves the hash and the set of the catalog
\* with the same models.
THEOREM KeysAgree == Spec => []CatalogAgrees
<1>1. CatalogInv => CatalogAgrees
  BY DEF CatalogInv, CatalogAgrees
<1> QED
  BY <1>1, CatalogInvHolds, PTL
==============================================================================
