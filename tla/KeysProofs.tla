----------------------------- MODULE KeysProofs ------------------------------
(***************************************************************************)
(* Theorems about the gateway keys of one user, for any number of          *)
(* handlers, rows and plans: a deleted user leaves no key that works, but  *)
(* the ones that came on while the deletion was under way or afterwards;   *)
(* and the keys that are on stay within the plan's cap, but for what its   *)
(* comment names.                                                          *)
(***************************************************************************)
EXTENDS Keys, FiniteSetTheorems, TLAPS

Work == [stop : Stops, cap : Caps \cup {0}, key : Keys \cup {NoKey}]

\* The parts of the types that the argument needs.
Types ==
  /\ user \in {"operator", "admin", "inactive", "gone"} /\ cap \in Caps
  /\ cached \in Keys \cup {NoKey}
  /\ row \in [Keys -> Rows] /\ late \subseteq Keys
  /\ at \in [Handlers -> Work]

\* One deletion is under way at most, of a user that is there; it has switched off what
\* the user has, but for the keys that came since; no key is an orphan before it ends.
OneDeletes == \A g, h \in Handlers : At(g, "delete") /\ At(h, "delete") => g = h
Revoked    == Deleting =>
                /\ user # "gone"
                /\ \A k \in Keys : row[k].owner = "user" /\ row[k].active => k \in late
NoOrphan   == user # "gone" => \A k \in Keys : row[k].owner # "orphan"
KeysInv    == Types /\ OneDeletes /\ Revoked /\ NoOrphan /\ OrphansAreOff

\* Where a handler may go: what it does is its stop.
LEMMA HandlerMoves ==
  ASSUME Types, NEW h \in Handlers, NEW stop \in Stops, Goes(h, stop)
  PROVE  /\ at' \in [Handlers -> Work]
         /\ at'[h].stop = stop /\ \A g \in Handlers \ {h} : at'[g] = at[g]
BY DEF Types, Goes, Work

LEMMA HandlerEnds ==
  ASSUME Types, NEW h \in Handlers, Ends(h)
  PROVE  /\ at' \in [Handlers -> Work]
         /\ at'[h].stop = "idle" /\ \A g \in Handlers \ {h} : at'[g] = at[g]
<1>1. Idle \in Work /\ Idle.stop = "idle"
  BY DEF Idle, Stops, Work
<1> QED
  BY <1>1 DEF Types, Ends

\* A step of a handler that does not begin a deletion, and leaves the rows and the user.
LEMMA RowsStay ==
  ASSUME KeysInv, NEW h \in Handlers, at'[h].stop # "delete",
         at' \in [Handlers -> Work],
         \A g \in Handlers \ {h} : at'[g] = at[g],
         cap' \in Caps, cached' \in Keys \cup {NoKey}, UNCHANGED <<user, row, late>>
  PROVE  KeysInv'
BY DEF KeysInv, Types, OneDeletes, Revoked, NoOrphan, OrphansAreOff, Deleting, At

\* One row changes: it is inactive, or nobody's, or the user's and late in a deletion.
LEMMA RowChanges ==
  ASSUME KeysInv, NEW k \in Keys, NEW r \in Rows, row' = [row EXCEPT ![k] = r], UNCHANGED <<user, cap>>,
         cached' \in Keys \cup {NoKey},
         at' \in [Handlers -> Work],
         \A g \in Handlers : At(g, "delete")' => At(g, "delete"),
         late' \subseteq Keys, late \ {k} \subseteq late',
         r.owner = "orphan" => user = "gone",
         r.active => \/ r.owner \in {"nobody", "none"} \/ k \in late'
                     \/ r.owner = "user" /\ ~Deleting
  PROVE  KeysInv'
<1>1. row'[k] = r /\ (\A j \in Keys \ {k} : row'[j] = row[j]) /\ row' \in [Keys -> Rows]
  BY DEF KeysInv, Types
<1>2. Deleting' => Deleting
  BY DEF Deleting
<1>3. Types' /\ OneDeletes'
  BY <1>1 DEF KeysInv, Types, OneDeletes
<1>4. Revoked'
  BY <1>1, <1>2 DEF KeysInv, Revoked
<1>5. NoOrphan' /\ OrphansAreOff'
  BY <1>1 DEF KeysInv, NoOrphan, OrphansAreOff
<1> QED
  BY <1>3, <1>4, <1>5 DEF KeysInv

LEMMA KeysInvHolds == Spec => []KeysInv
<1>1. Init => KeysInv
  <2> SUFFICES ASSUME Init PROVE KeysInv
    OBVIOUS
  <2>1. NoRow \in Rows /\ NoRow.owner = "none" /\ Idle \in Work /\ Idle.stop = "idle"
    BY DEF NoRow, Rows, Idle, Work, Stops
  <2>2. (\A k \in Keys : row[k].owner = "none") /\ \A h \in Handlers : at[h].stop = "idle"
    BY <2>1 DEF Init
  <2>3. Types
    BY <2>1, ConstantsOK DEF Init, Types
  <2> QED
    BY <2>2, <2>3 DEF KeysInv, OneDeletes, Revoked, Deleting, NoOrphan, OrphansAreOff, At
<1>2. KeysInv /\ [Next]_vars => KeysInv'
  <2> SUFFICES ASSUME KeysInv, [Next]_vars PROVE KeysInv'
    OBVIOUS
  <2> Types
    BY DEF KeysInv
  <2> USE DEF history
  <2>1. ASSUME NEW h \in Handlers, ReadCap(h) PROVE KeysInv'
    <3> DEFINE stop == IF user = "admin" THEN "insert" ELSE "count"
               c    == IF user = "admin" THEN 0 ELSE cap
               w    == [at[h] EXCEPT !.cap = c, !.stop = stop]
    <3>1. stop \in Stops /\ stop # "delete" /\ c \in Caps \cup {0}
      BY DEF Stops, Types
    <3>2. at' = [at EXCEPT ![h] = w] /\ UNCHANGED <<user, cap, row, cached, late>>
      BY <2>1 DEF ReadCap
    <3> HIDE DEF stop, c
    <3>3. w \in Work /\ w.stop = stop
      BY <3>1 DEF Types, Work
    <3> HIDE DEF w
    <3>4. at' \in [Handlers -> Work] /\ at'[h].stop # "delete" /\ \A g \in Handlers \ {h} : at'[g] = at[g]
      BY <3>1, <3>2, <3>3 DEF Types
    <3> QED
      BY <3>2, <3>4, RowsStay DEF Types
  <2>2. ASSUME NEW h \in Handlers, \/ CountKeys(h) \/ CheckRow(h) \/ ForgetCached(h) \/ StoreDispatchKey(h)
                                 \/ Passes(h) \/ AsksAgain(h) \/ BreakOff(h)
        PROVE  KeysInv'
    <3>1. \/ Ends(h)
          \/ \E stop \in {"insert", "forget", "mint", "ask", "ask again", "ask last"} : Goes(h, stop)
      BY <2>2 DEF CountKeys, CheckRow, ForgetCached, StoreDispatchKey, Passes, AsksAgain,
         BreakOff, Lends
    <3>2. UNCHANGED <<user, cap, row, late>> /\ cached' \in Keys \cup {NoKey}
      <4>1. at[h].key \in Keys \cup {NoKey}
        BY DEF Types, Work
      <4> QED
        BY <2>2, <4>1 DEF CountKeys, CheckRow, ForgetCached, StoreDispatchKey, Passes, AsksAgain,
             BreakOff, Types
    <3>3. at' \in [Handlers -> Work] /\ at'[h].stop # "delete" /\ \A g \in Handlers \ {h} : at'[g] = at[g]
      BY <3>1, HandlerEnds, HandlerMoves DEF Stops, Asking
    <3> QED
      BY <3>2, <3>3, RowsStay DEF Types
  <2>3. ASSUME NEW h \in Handlers, ReadCached(h) PROVE KeysInv'
    <3>1. UNCHANGED <<user, cap, row, cached, late>>
      BY <2>3 DEF ReadCached
    <3>2. CASE Goes(h, "mint")
      BY <3>1, <3>2, HandlerMoves, RowsStay DEF Stops, Types
    <3>3. CASE ~Goes(h, "mint")
      <4> DEFINE stop == IF cached = NoKey THEN "mint" ELSE "check"
                 w    == [at[h] EXCEPT !.key = cached, !.stop = stop]
      <4>1. stop \in Stops /\ stop # "delete"
        BY DEF Stops
      <4>2. at' = [at EXCEPT ![h] = w]
        BY <2>3, <3>3 DEF ReadCached
      <4> HIDE DEF stop
      <4>3. w \in Work /\ w.stop = stop
        BY <4>1 DEF Types, Work
      <4> HIDE DEF w
      <4>4. at' \in [Handlers -> Work] /\ at'[h].stop # "delete" /\ \A g \in Handlers \ {h} : at'[g] = at[g]
        BY <4>1, <4>2, <4>3 DEF Types
      <4> QED
        BY <3>1, <4>4, RowsStay DEF Types
    <3> QED
      BY <3>2, <3>3
  <2>4. ASSUME NEW h \in Handlers, NEW k \in Keys, InsertKey(h, k) PROVE KeysInv'
    <3>1. Ends(h) /\ UNCHANGED <<user, cap, cached>>
      BY <2>4 DEF InsertKey
    <3>2. at' \in [Handlers -> Work] /\ at'[h].stop = "idle" /\ \A g \in Handlers \ {h} : at'[g] = at[g]
      BY <3>1, HandlerEnds
    <3>3. CASE UNCHANGED <<row, late>>
      BY <3>1, <3>2, <3>3, RowsStay DEF Types
    <3>4. CASE ~UNCHANGED <<row, late>>
      <4> DEFINE r == [kind |-> "client", active |-> TRUE, age |-> "fresh",
                       owner |-> IF at[h].cap = 0 THEN "nobody" ELSE "user"]
      <4>1. row' = [row EXCEPT ![k] = r] /\ Later(k)
        BY <2>4, <3>4 DEF InsertKey
      <4>2. r \in Rows /\ r.owner \in {"nobody", "user"}
        BY DEF Rows
      <4> HIDE DEF r
      <4>3. late' \subseteq Keys /\ late \subseteq late' /\ (k \in late' \/ ~Deleting)
        BY <4>1 DEF Later, Types
      <4>4. \A g \in Handlers : At(g, "delete")' => At(g, "delete")
        BY <3>2 DEF At
      <4> QED
        BY <3>1, <3>2, <4>1, <4>2, <4>3, <4>4, RowChanges DEF Types
    <3> QED
      BY <3>3, <3>4
  <2>5. ASSUME NEW h \in Handlers, NEW k \in Keys, MintDispatchKey(h, k) PROVE KeysInv'
    <3>1. UNCHANGED <<user, cap, cached>>
      BY <2>5 DEF MintDispatchKey
    <3>2. CASE user = "gone"
      <4>1. Ends(h) /\ UNCHANGED <<row, late>>
        BY <2>5, <3>2 DEF MintDispatchKey
      <4> QED
        BY <3>1, <4>1, HandlerEnds, RowsStay DEF Types
    <3>3. CASE user # "gone"
      <4> DEFINE r == [kind |-> "dispatch", owner |-> "user", active |-> TRUE, age |-> "fresh"]
                 w == [at[h] EXCEPT !.key = k, !.stop = "store"]
      <4>1. row' = [row EXCEPT ![k] = r] /\ at' = [at EXCEPT ![h] = w] /\ Later(k)
        BY <2>5, <3>3 DEF MintDispatchKey
      <4>2. r \in Rows /\ r.owner = "user"
        BY DEF Rows
      <4>3. w \in Work /\ w.stop = "store"
        BY DEF Types, Work, Stops
      <4> HIDE DEF r, w
      <4>4. at' \in [Handlers -> Work] /\ \A g \in Handlers : At(g, "delete")' => At(g, "delete")
        BY <4>1, <4>3 DEF Types, At
      <4>5. late' \subseteq Keys /\ late \subseteq late' /\ (k \in late' \/ ~Deleting)
        BY <4>1 DEF Later, Types
      <4> QED
        BY <3>1, <4>1, <4>2, <4>4, <4>5, RowChanges DEF Types
    <3> QED
      BY <3>2, <3>3
  <2>6. ASSUME NEW k \in Keys, SwitchKey(k) PROVE KeysInv'
    <3> DEFINE r == [row[k] EXCEPT !.active = ~@]
    <3>1. row[k] \in Rows
      BY DEF Types
    <3>2. r \in Rows /\ r.owner = row[k].owner /\ r.active = ~row[k].active
      BY <3>1 DEF Rows
    <3>3. row' = [row EXCEPT ![k] = r] /\ UNCHANGED <<user, cap, cached, at>>
      BY <2>6 DEF SwitchKey
    <3>4. /\ late' = IF ~row[k].active /\ (Deleting \/ user = "gone") THEN late \cup {k} ELSE late
      BY <2>6 DEF SwitchKey
    <3>5. r.owner = "orphan" => user = "gone"
      BY <3>2 DEF KeysInv, NoOrphan
    <3>6. row[k].owner \in {"none", "user", "nobody", "orphan"} /\ row[k].active \in BOOLEAN
      BY <3>1 DEF Rows
    <3>7. r.active => \/ r.owner \in {"nobody", "none"} \/ k \in late'
                      \/ r.owner = "user" /\ ~Deleting
      BY <3>2, <3>4, <3>5, <3>6
    <3> HIDE DEF r
    <3> QED
      BY <3>2, <3>3, <3>4, <3>5, <3>7, RowChanges DEF Types, At
  <2>7. ASSUME NEW k \in Keys, DeleteKey(k) PROVE KeysInv'
    <3>1. NoRow \in Rows /\ NoRow.active = FALSE /\ NoRow.owner = "none"
      BY DEF NoRow, Rows
    <3>2. row' = [row EXCEPT ![k] = NoRow] /\ late' = late \ {k} /\ UNCHANGED <<user, cap, cached, at>>
      BY <2>7 DEF DeleteKey
    <3> QED
      BY <3>1, <3>2, RowChanges DEF Types, At
  <2>8. ASSUME NEW k \in Keys, DispatchKeyAges(k) PROVE KeysInv'
    <3> DEFINE age == IF row[k].age = "fresh" THEN "old" ELSE "expired"
               r   == [row[k] EXCEPT !.age = age]
    <3>1. row[k] \in Rows /\ age \in {"fresh", "old", "expired"}
      BY DEF Types
    <3>2. row' = [row EXCEPT ![k] = r] /\ UNCHANGED <<user, cap, at, late>>
      BY <2>8 DEF DispatchKeyAges
    <3> HIDE DEF age
    <3>3. r \in Rows /\ r.owner = row[k].owner /\ r.active = row[k].active
      BY <3>1 DEF Rows
    <3>4. r.owner = "orphan" => user = "gone"
      BY <3>3 DEF KeysInv, NoOrphan
    <3>5. r.active => r.owner \in {"nobody", "none"} \/ k \in late \/ (r.owner = "user" /\ ~Deleting)
      <4>1. row[k].owner \in {"none", "user", "nobody", "orphan"}
        BY <3>1 DEF Rows
      <4> QED
        BY <3>3, <4>1 DEF KeysInv, Revoked, OrphansAreOff
    <3>6. cached' \in Keys \cup {NoKey}
      BY <2>8 DEF DispatchKeyAges, Types
    <3> HIDE DEF r
    <3> QED
      BY <3>2, <3>3, <3>4, <3>5, <3>6, RowChanges DEF Types, At
  <2>9. ASSUME NEW h \in Handlers, RevokeAll(h) PROVE KeysInv'
    <3>1. /\ user # "gone" /\ ~Deleting /\ late' = {} /\ UNCHANGED <<user, cap, cached>> /\ Goes(h, "delete")
          /\ row' = [k \in Keys |-> IF row[k].owner = "user" THEN [row[k] EXCEPT !.active = FALSE] ELSE row[k]]
      BY <2>9 DEF RevokeAll
    <3>2. at' \in [Handlers -> Work] /\ \A g \in Handlers \ {h} : at'[g] = at[g]
      BY <3>1, HandlerMoves DEF Stops
    <3>3. ASSUME NEW k \in Keys
          PROVE  /\ row'[k] \in Rows /\ row'[k].owner = row[k].owner
                 /\ row[k].owner = "user" => ~row'[k].active
      <4>1. row[k] \in Rows
        BY DEF Types
      <4> QED
        BY <3>1, <4>1 DEF Rows
    <3>4. row' \in [Keys -> Rows]
      <4>1. row' = [k \in Keys |-> row'[k]]
        BY <3>1
      <4> QED
        BY <3>3, <4>1
    <3>5. OneDeletes'
      BY <3>1, <3>2 DEF OneDeletes, Deleting, At
    <3>6. NoOrphan' /\ OrphansAreOff' /\ Revoked'
      BY <3>1, <3>3 DEF KeysInv, NoOrphan, OrphansAreOff, Revoked
    <3> QED
      BY <3>1, <3>2, <3>4, <3>5, <3>6 DEF KeysInv, Types
  <2>10. ASSUME NEW h \in Handlers, DeleteUser(h) PROVE KeysInv'
    <3>1. /\ At(h, "delete") /\ user' = "gone" /\ Ends(h) /\ UNCHANGED <<cap, cached, late>>
          /\ row' = [k \in Keys |-> IF row[k].owner = "user" THEN [row[k] EXCEPT !.owner = "orphan"] ELSE row[k]]
      BY <2>10 DEF DeleteUser
    <3>2. at' \in [Handlers -> Work] /\ at'[h].stop = "idle" /\ \A g \in Handlers \ {h} : at'[g] = at[g]
      BY <3>1, HandlerEnds
    <3>3. ASSUME NEW k \in Keys
          PROVE  /\ row'[k] \in Rows /\ row'[k].active = row[k].active
                 /\ row'[k].owner = "orphan" => row[k].owner \in {"user", "orphan"}
      <4>1. row[k] \in Rows
        BY DEF Types
      <4> QED
        BY <3>1, <4>1 DEF Rows
    <3>4. row' \in [Keys -> Rows]
      <4>1. row' = [k \in Keys |-> row'[k]]
        BY <3>1
      <4> QED
        BY <3>3, <4>1
    <3>5. ~Deleting' /\ OneDeletes'
      BY <3>1, <3>2 DEF KeysInv, OneDeletes, Deleting, At
    <3>6. OrphansAreOff'
      BY <3>1, <3>3 DEF KeysInv, OrphansAreOff, Revoked, Deleting
    <3> QED
      BY <3>1, <3>2, <3>4, <3>5, <3>6 DEF KeysInv, Types, Revoked, NoOrphan
  <2>11. ASSUME NEW c \in Caps, ChangePlan(c) PROVE KeysInv'
    BY <2>11 DEF ChangePlan, KeysInv, Types, OneDeletes, Revoked, NoOrphan, OrphansAreOff,
       Deleting, At
  <2>12. ASSUME NEW state \in {"operator", "admin", "inactive"}, ModifyUser(state) PROVE KeysInv'
    BY <2>12 DEF ModifyUser, KeysInv, Types, OneDeletes, Revoked, NoOrphan, OrphansAreOff,
       Deleting, At
  <2>13. CASE UNCHANGED vars
    BY <2>13 DEF vars, KeysInv, Types, OneDeletes, Revoked, NoOrphan, OrphansAreOff, Deleting, At
  <2> QED
    BY <2>1, <2>2, <2>3, <2>4, <2>5, <2>6, <2>7, <2>8, <2>9, <2>10, <2>11, <2>12, <2>13
    DEF Next, Create, Dispatch
<1> QED
  BY <1>1, <1>2, PTL DEF Spec

\* A deleted user leaves no key that works, but one that was inserted or switched on
\* while the deletion was under way, or switched on afterwards.
THEOREM DeletedKeysAreOff == Spec => []OrphansAreOff
<1>1. KeysInv => OrphansAreOff
  BY DEF KeysInv
<1> QED
  BY <1>1, KeysInvHolds, PTL

-----------------------------------------------------------------------------
(* The cap. *)

\* The user's own keys, and the handlers about to insert another.
Owned     == {k \in Active("client") : row[k].owner = "user"}
Inserting == {h \in Creating : at[h].cap > 0}

\* A cap that is about to be compared with what the user has is no higher than the
\* highest there was.
Numbers   == highest \in Nat /\ crowd \in Nat /\ switched \in Nat
CapsBelow == cap <= highest /\ \A h \in Handlers : At(h, "count") => at[h].cap <= highest
CapInv    == Numbers /\ CapsBelow /\ KeyCapHeld

Bound(a, b, c) == a + (IF b > 0 THEN b - 1 ELSE 0) + c

LEMMA CapIsSum == KeyCapHeld <=> Cardinality(Owned) + Cardinality(Inserting) <= Bound(highest, crowd, switched)
BY DEF KeyCapHeld, Owned, Inserting, Bound

\* Parts of the finite sets, and what one element more or less counts.
LEMMA Counts ==
  ASSUME NEW A, IsFiniteSet(A), NEW S \in SUBSET A, NEW x
  PROVE  /\ IsFiniteSet(S) /\ Cardinality(S) \in Nat
         /\ Cardinality(S \cup {x}) = IF x \in S THEN Cardinality(S) ELSE Cardinality(S) + 1
         /\ Cardinality(S \ {x}) = IF x \in S THEN Cardinality(S) - 1 ELSE Cardinality(S)
         /\ \A T \in SUBSET S : Cardinality(T) \in Nat /\ Cardinality(T) <= Cardinality(S)
<1>1. IsFiniteSet(S)
  BY FS_Subset
<1>2. ASSUME NEW T \in SUBSET S PROVE Cardinality(T) \in Nat /\ Cardinality(T) <= Cardinality(S)
  BY <1>1, FS_Subset, FS_CardinalityType
<1> QED
  BY <1>1, <1>2, FS_CardinalityType, FS_AddElement, FS_RemoveElement

LEMMA CapsAreNumbers ==
  ASSUME Types, NEW h \in Handlers
  PROVE  at[h].cap \in Nat /\ (at[h].cap # 0 => at[h].cap > 0)
<1>1. at[h].cap \in Caps \cup {0}
  BY DEF Types, Work
<1> DEFINE w == at[h].cap
<1>2. w \in Nat
  <2>1. Caps \subseteq Nat
    BY ConstantsOK
  <2>2. w \in Caps \cup {0}
    BY <1>1
  <2> HIDE DEF w
  <2> QED
    BY <2>1, <2>2
<1> HIDE DEF w
<1>3. w \in Nat /\ (w # 0 => w > 0)
  BY <1>2
<1> QED
  BY <1>3 DEF w

LEMMA SetsAreFinite ==
  /\ Owned \in SUBSET Keys /\ Inserting \in SUBSET Handlers /\ Creating \in SUBSET Handlers
  /\ Cardinality(Owned) \in Nat /\ Cardinality(Inserting) \in Nat /\ Cardinality(Creating) \in Nat
<1>1. Owned \in SUBSET Keys /\ Inserting \in SUBSET Handlers /\ Creating \in SUBSET Handlers
  BY DEF Owned, Inserting, Creating, Active
<1> QED
  BY <1>1, Counts, ConstantsOK

\* The bound grows with each of its three numbers.
LEMMA BoundGrows ==
  ASSUME NEW a \in Nat, NEW b \in Nat, NEW c \in Nat,
         NEW x \in Nat, NEW y \in Nat, NEW z \in Nat, a <= x, b <= y, c <= z
  PROVE  /\ Bound(a, b, c) <= Bound(x, y, z)
         /\ Bound(a, b, c) \in Nat /\ Bound(x, y, z) \in Nat
BY DEF Bound

\* A step that brings the user no key and no handler to its insert.
LEMMA Quiet ==
  ASSUME KeyCapHeld, Numbers, highest' \in Nat, crowd' \in Nat, switched' \in Nat, Owned' \subseteq Owned, Inserting' \subseteq Inserting,
         highest <= highest', crowd <= crowd', switched <= switched'
  PROVE  KeyCapHeld'
<1>1. /\ Cardinality(Owned) \in Nat /\ Cardinality(Owned') \in Nat
      /\ Cardinality(Owned') <= Cardinality(Owned)
  BY SetsAreFinite, Counts, ConstantsOK
<1>2. /\ Cardinality(Inserting) \in Nat /\ Cardinality(Inserting') \in Nat
      /\ Cardinality(Inserting') <= Cardinality(Inserting)
  BY SetsAreFinite, Counts, ConstantsOK
<1>3. /\ Bound(highest, crowd, switched) <= Bound(highest', crowd', switched')
      /\ Bound(highest, crowd, switched) \in Nat /\ Bound(highest', crowd', switched') \in Nat
  BY BoundGrows DEF Numbers
<1>4. KeyCapHeld' <=> Cardinality(Owned') + Cardinality(Inserting') <= Bound(highest', crowd', switched')
  BY DEF KeyCapHeld, Owned, Inserting, Bound
<1> QED
  BY <1>1, <1>2, <1>3, <1>4, CapIsSum

\* A step of one handler, and who is about to insert after it.
LEMMA WhoInserts ==
  ASSUME Types, NEW h \in Handlers, at' \in [Handlers -> Work], \A g \in Handlers \ {h} : at'[g] = at[g]
  PROVE  Inserting' = IF at'[h].stop = "insert" /\ at'[h].cap > 0 THEN Inserting \cup {h} ELSE Inserting \ {h}
BY DEF Inserting, Creating, At

\* A handler that neither counts nor inserts next.
LEMMA QuietHandler ==
  ASSUME Types, CapInv, NEW h \in Handlers, at' \in [Handlers -> Work],
         \A g \in Handlers \ {h} : at'[g] = at[g], at'[h].stop \notin {"count", "insert"},
         Owned' \subseteq Owned, UNCHANGED <<cap, highest, crowd, switched>>
  PROVE  CapInv'
<1>1. Inserting' \subseteq Inserting
  BY WhoInserts
<1>2. CapsBelow' /\ Numbers'
  BY DEF CapInv, CapsBelow, Numbers, At
<1>3. KeyCapHeld'
  BY <1>1, Quiet DEF CapInv, Numbers
<1> QED
  BY <1>2, <1>3 DEF CapInv

\* A step of no handler that changes at most one row.
LEMMA RowKept ==
  ASSUME Types, NEW k \in Keys, NEW r, row' = [row EXCEPT ![k] = r]
  PROVE  /\ Owned' \subseteq Owned \cup {k}
         /\ (r.active /\ r.kind = "client" /\ r.owner = "user" => k \in Owned) => Owned' \subseteq Owned
<1>1. row'[k] = r /\ \A j \in Keys \ {k} : row'[j] = row[j]
  BY DEF Types
<1> QED
  BY <1>1 DEF Owned, Active

LEMMA SameRows == UNCHANGED row => Owned' = Owned
BY DEF Owned, Active

LEMMA SameHandlers == UNCHANGED at => Inserting' = Inserting /\ (CapsBelow /\ UNCHANGED <<cap, highest>> => CapsBelow')
BY DEF Inserting, Creating, At, CapsBelow

\* The count before an insert: what the user has is below a cap no higher than the
\* highest, and as many may be inserting as there ever were at once.
LEMMA CountKeepsCap ==
  ASSUME Types, CapInv, NEW h \in Handlers, CountKeys(h)
  PROVE  CapInv'
<1>1. At(h, "count") /\ UNCHANGED <<cap, row, highest, switched>> /\ Owned' = Owned
  BY SameRows DEF CountKeys
<1>2. CASE Ends(h)
  <2>1. UNCHANGED crowd \/ Goes(h, "insert")
    BY <1>2 DEF CountKeys
  <2>2. ~Goes(h, "insert")
    BY <1>2, HandlerEnds, HandlerMoves DEF Stops
  <2> QED
    BY <1>1, <1>2, <2>1, <2>2, HandlerEnds, QuietHandler
<1>3. CASE ~Ends(h)
  <2>1. /\ Cardinality(Mine) < at[h].cap /\ Goes(h, "insert")
        /\ crowd' = IF Cardinality(Creating) >= crowd THEN Cardinality(Creating) + 1 ELSE crowd
    BY <1>3 DEF CountKeys
  <2>2. at' \in [Handlers -> Work] /\ at'[h].stop = "insert" /\ \A g \in Handlers \ {h} : at'[g] = at[g]
    BY <2>1, HandlerMoves DEF Stops
  <2>3. CapsBelow'
    BY <1>1, <2>2 DEF CapInv, CapsBelow, At
  <2> DEFINE c == Cardinality(Creating)
             o == Cardinality(Owned)
             i == Cardinality(Inserting')
             m == Cardinality(Mine)
             w == at[h].cap
  <2>4. c \in Nat /\ o \in Nat /\ m \in Nat /\ i \in Nat /\ o <= m /\ i <= c + 1
    <3>1. Mine \in SUBSET Keys /\ Owned \in SUBSET Mine
      BY DEF Mine, Owned, Active
    <3>2. o \in Nat /\ m \in Nat /\ o <= m
      BY <3>1, Counts, ConstantsOK
    <3>3. Creating \cup {h} \in SUBSET Handlers /\ Inserting' \in SUBSET (Creating \cup {h})
      BY <2>2, WhoInserts DEF Inserting, Creating
    <3>4. c \in Nat /\ Cardinality(Creating \cup {h}) <= c + 1 /\ Cardinality(Creating \cup {h}) \in Nat
      <4>1. c \in Nat /\ Cardinality(Creating \cup {h}) = IF h \in Creating THEN c ELSE c + 1
        BY SetsAreFinite, Counts, ConstantsOK
      <4> HIDE DEF c
      <4> QED
        BY <4>1
    <3>5. i \in Nat /\ i <= Cardinality(Creating \cup {h})
      BY <3>3, Counts, ConstantsOK
    <3> QED
      BY <3>2, <3>4, <3>5
  <2>5. m < w /\ w \in Nat /\ w <= highest /\ highest \in Nat /\ switched \in Nat /\ crowd \in Nat
    <3>1. m < w /\ w \in Nat
      BY <2>1, CapsAreNumbers
    <3>2. w <= highest /\ highest \in Nat /\ switched \in Nat /\ crowd \in Nat
      BY <1>1 DEF CapInv, CapsBelow, Numbers
    <3> QED
      BY <3>1, <3>2
  <2>6. crowd' \in Nat /\ c + 1 <= crowd'
    <3>1. crowd' = IF c >= crowd THEN c + 1 ELSE crowd
      BY <2>1
    <3> HIDE DEF c
    <3> QED
      BY <2>4, <2>5, <3>1
  <2>7. o + i <= Bound(highest, crowd', switched)
    <3> HIDE DEF c, o, i, m, w
    <3> DEFINE d == crowd'
    <3>1. d \in Nat /\ c + 1 <= d
      BY <2>6
    <3> HIDE DEF d
    <3>2. o + i <= Bound(highest, d, switched)
      BY <2>4, <2>5, <3>1 DEF Bound
    <3> QED
      BY <3>2 DEF d
  <2>8. KeyCapHeld'
    BY <1>1, <2>7 DEF KeyCapHeld, Owned, Inserting, Bound
  <2> QED
    BY <1>1, <2>3, <2>5, <2>6, <2>8 DEF CapInv, Numbers
<1> QED
  BY <1>2, <1>3

\* An insert moves its handler out of those about to insert and its key among the
\* user's: both, or neither for a key without an owner.
LEMMA InsertKeepsCap ==
  ASSUME Types, CapInv, NEW h \in Handlers, NEW k \in Keys, InsertKey(h, k)
  PROVE  CapInv'
<1>1. At(h, "insert") /\ Ends(h) /\ UNCHANGED <<cap, highest, crowd, switched>>
  BY DEF InsertKey
<1>2. at' \in [Handlers -> Work] /\ at'[h].stop = "idle" /\ \A g \in Handlers \ {h} : at'[g] = at[g]
  BY <1>1, HandlerEnds
<1>3. CASE UNCHANGED row \/ at[h].cap = 0
  <2>1. Owned' \subseteq Owned
    <3>1. CASE UNCHANGED row
      BY <3>1, SameRows
    <3>2. CASE ~UNCHANGED row
      <4> DEFINE r == [kind |-> "client", active |-> TRUE, age |-> "fresh",
                       owner |-> IF at[h].cap = 0 THEN "nobody" ELSE "user"]
      <4>1. row' = [row EXCEPT ![k] = r] /\ r.owner = "nobody"
        BY <1>3, <3>2 DEF InsertKey
      <4> HIDE DEF r
      <4> QED
        BY <4>1, RowKept
    <3> QED
      BY <3>1, <3>2
  <2> QED
    BY <1>1, <1>2, <2>1, QuietHandler
<1>4. CASE ~UNCHANGED row /\ at[h].cap # 0
  <2> DEFINE r == [kind |-> "client", active |-> TRUE, age |-> "fresh",
                   owner |-> IF at[h].cap = 0 THEN "nobody" ELSE "user"]
  <2>1. row' = [row EXCEPT ![k] = r]
    BY <1>4 DEF InsertKey
  <2>2. Owned' \in SUBSET (Owned \cup {k})
    <3> HIDE DEF r
    <3> QED
      BY <2>1, RowKept
  <2>3. at[h].cap > 0
    BY <1>4, CapsAreNumbers
  <2>4. h \in Inserting /\ Inserting' = Inserting \ {h}
    BY <1>1, <1>2, <2>3, WhoInserts DEF Inserting, Creating
  <2> DEFINE o == Cardinality(Owned)
             p == Cardinality(Owned')
             i == Cardinality(Inserting)
             j == Cardinality(Inserting')
  <2>5. o \in Nat /\ p \in Nat /\ p <= o + 1
    <3>1. Owned \in SUBSET Keys /\ Owned \cup {k} \in SUBSET Keys /\ o \in Nat
      BY SetsAreFinite
    <3>2. Cardinality(Owned \cup {k}) <= o + 1 /\ Cardinality(Owned \cup {k}) \in Nat
      <4>1. Cardinality(Owned \cup {k}) = IF k \in Owned THEN o ELSE o + 1
        BY <3>1, Counts, ConstantsOK
      <4> HIDE DEF o
      <4> QED
        BY <3>1, <4>1
    <3>3. p \in Nat /\ p <= Cardinality(Owned \cup {k})
      BY <2>2, <3>1, Counts, ConstantsOK
    <3> QED
      BY <3>1, <3>2, <3>3
  <2>6. i \in Nat /\ j = i - 1
    BY <2>4, SetsAreFinite, Counts, ConstantsOK
  <2>7. o + i <= Bound(highest, crowd, switched) /\ Bound(highest, crowd, switched) \in Nat
    BY CapIsSum, BoundGrows DEF CapInv, Numbers
  <2>8. p + j <= Bound(highest, crowd, switched)
    <3> DEFINE b == Bound(highest, crowd, switched)
    <3> HIDE DEF o, p, i, j, b
    <3> QED
      BY <2>5, <2>6, <2>7 DEF b
  <2>9. KeyCapHeld'
    BY <1>1, <2>8 DEF KeyCapHeld, Owned, Inserting, Bound
  <2>10. CapsBelow' /\ Numbers'
    BY <1>1, <1>2 DEF CapInv, CapsBelow, Numbers, At
  <2> QED
    BY <2>9, <2>10 DEF CapInv
<1> QED
  BY <1>3, <1>4

\* An admin goes to the insert without a cap.
LEMMA ReadKeepsCap ==
  ASSUME Types, CapInv, NEW h \in Handlers, ReadCap(h)
  PROVE  CapInv'
<1> DEFINE a == user = "admin"
           w == [at[h] EXCEPT !.cap = IF a THEN 0 ELSE cap, !.stop = IF a THEN "insert" ELSE "count"]
<1>1. /\ at' = [at EXCEPT ![h] = w] /\ UNCHANGED <<cap, row, highest, switched>> /\ Owned' = Owned
      /\ crowd' = IF a /\ Cardinality(Creating) >= crowd THEN Cardinality(Creating) + 1 ELSE crowd
  BY SameRows DEF ReadCap
<1>2. w \in Work /\ w.cap = (IF a THEN 0 ELSE cap) /\ w.stop = (IF a THEN "insert" ELSE "count")
  BY DEF Types, Work, Stops, Asking
<1> HIDE DEF w, a
<1>3. at' \in [Handlers -> Work] /\ at'[h] = w /\ \A g \in Handlers \ {h} : at'[g] = at[g]
  BY <1>1, <1>2 DEF Types
<1>4. Inserting' \subseteq Inserting
  <2>1. ~(w.stop = "insert" /\ w.cap > 0)
    BY <1>2
  <2> QED
    BY <1>3, <2>1, WhoInserts
<1>5. CapsBelow'
  BY <1>1, <1>2, <1>3 DEF CapInv, CapsBelow, At
<1>6. crowd' \in Nat /\ crowd <= crowd'
  <2> DEFINE c == Cardinality(Creating)
  <2>1. c \in Nat /\ crowd \in Nat
    BY SetsAreFinite DEF CapInv, Numbers
  <2>2. crowd' = IF a /\ c >= crowd THEN c + 1 ELSE crowd
    BY <1>1
  <2> HIDE DEF c
  <2> QED
    BY <2>1, <2>2
<1>7. KeyCapHeld'
  BY <1>1, <1>4, <1>6, Quiet DEF CapInv, Numbers
<1> QED
  BY <1>1, <1>5, <1>6, <1>7 DEF CapInv, Numbers

\* A key that is switched on may be one key more, and is counted as such.
LEMMA SwitchKeepsCap ==
  ASSUME Types, CapInv, NEW k \in Keys, SwitchKey(k)
  PROVE  CapInv'
<1> DEFINE r == [row[k] EXCEPT !.active = ~@]
<1>1. /\ row' = [row EXCEPT ![k] = r] /\ UNCHANGED <<cap, at, highest, crowd>>
      /\ switched' = IF row[k].active THEN switched ELSE switched + 1
  BY DEF SwitchKey
<1>2. CapsBelow' /\ Inserting' = Inserting /\ Numbers'
  <2>1. switched' \in Nat
    BY <1>1 DEF CapInv, Numbers
  <2> QED
    BY <1>1, <2>1, SameHandlers DEF CapInv, Numbers
<1>3. CASE row[k].active
  <2>1. ~r.active
    BY <1>3 DEF Types, Rows
  <2> HIDE DEF r
  <2>2. Owned' \subseteq Owned
    BY <1>1, <2>1, RowKept
  <2> QED
    BY <1>1, <1>2, <1>3, <2>2, Quiet DEF CapInv, Numbers
<1>4. CASE ~row[k].active
  <2> DEFINE o == Cardinality(Owned)
             p == Cardinality(Owned')
             i == Cardinality(Inserting)
  <2>1. o \in Nat /\ p \in Nat /\ p <= o + 1
    <3>1. Owned \in SUBSET Keys /\ Owned \cup {k} \in SUBSET Keys /\ o \in Nat
      BY SetsAreFinite
    <3>2. Cardinality(Owned \cup {k}) <= o + 1 /\ Cardinality(Owned \cup {k}) \in Nat
      <4>1. Cardinality(Owned \cup {k}) = IF k \in Owned THEN o ELSE o + 1
        BY <3>1, Counts, ConstantsOK
      <4> HIDE DEF o
      <4> QED
        BY <3>1, <4>1
    <3>3. Owned' \in SUBSET (Owned \cup {k})
      <4> HIDE DEF r
      <4> QED
        BY <1>1, RowKept
    <3>4. p \in Nat /\ p <= Cardinality(Owned \cup {k})
      BY <3>1, <3>3, Counts, ConstantsOK
    <3> QED
      BY <3>1, <3>2, <3>4
  <2>2. /\ o + i <= Bound(highest, crowd, switched) /\ i \in Nat
        /\ highest \in Nat /\ crowd \in Nat /\ switched \in Nat
    BY CapIsSum, SetsAreFinite DEF CapInv, Numbers
  <2>3. p + i <= Bound(highest, crowd, switched + 1)
    <3> HIDE DEF o, p, i
    <3> QED
      BY <2>1, <2>2 DEF Bound
  <2>4. p + Cardinality(Inserting') <= Bound(highest', crowd', switched')
    BY <1>1, <1>2, <1>4, <2>3
  <2>5. KeyCapHeld'
    BY <2>4 DEF KeyCapHeld, Owned, Inserting, Bound
  <2> QED
    BY <1>2, <2>5 DEF CapInv
<1> QED
  BY <1>3, <1>4

\* Nothing else brings the user a key.
LEMMA RowStepsKeepCap ==
  ASSUME Types, CapInv, NEW k \in Keys, DeleteKey(k) \/ DispatchKeyAges(k)
  PROVE  CapInv'
<1>1. UNCHANGED <<cap, at, highest, crowd, switched>>
  BY DEF DeleteKey, DispatchKeyAges, history
<1>2. Owned' \subseteq Owned
  <2>1. CASE DeleteKey(k)
    <3>1. row' = [row EXCEPT ![k] = NoRow] /\ ~NoRow.active
      BY <2>1 DEF DeleteKey, NoRow
    <3> QED
      BY <3>1, RowKept
  <2>2. CASE DispatchKeyAges(k)
    <3> DEFINE r == [row[k] EXCEPT !.age = IF @ = "fresh" THEN "old" ELSE "expired"]
    <3>1. row' = [row EXCEPT ![k] = r] /\ r.kind = "dispatch"
      <4>1. row[k] \in Rows /\ row[k].kind = "dispatch"
        BY <2>2 DEF DispatchKeyAges, Types
      <4> QED
        BY <2>2, <4>1 DEF DispatchKeyAges, Rows
    <3> HIDE DEF r
    <3> QED
      BY <3>1, RowKept
  <2> QED
    BY <2>1, <2>2
<1> QED
  BY <1>1, <1>2, SameHandlers, Quiet DEF CapInv, Numbers

LEMMA AccountStepsKeepCap ==
  ASSUME Types, CapInv, NEW h \in Handlers, RevokeAll(h) \/ DeleteUser(h)
  PROVE  CapInv'
<1>1. /\ UNCHANGED <<cap, highest, crowd, switched>>
      /\ Goes(h, "delete") \/ Ends(h)
  BY DEF RevokeAll, DeleteUser, history
<1>2. /\ at' \in [Handlers -> Work] /\ at'[h].stop \notin {"count", "insert"}
      /\ \A g \in Handlers \ {h} : at'[g] = at[g]
  BY <1>1, HandlerMoves, HandlerEnds DEF Stops
<1>3. Owned' \subseteq Owned
  <2>1. ASSUME NEW k \in Keys PROVE k \in Owned' => k \in Owned
    <3>1. row[k] \in Rows
      BY DEF Types
    <3>2. CASE RevokeAll(h)
      <4>1. row'[k] = IF row[k].owner = "user" THEN [row[k] EXCEPT !.active = FALSE] ELSE row[k]
        BY <3>2 DEF RevokeAll
      <4> QED
        BY <3>1, <4>1 DEF Owned, Active, Rows
    <3>3. CASE DeleteUser(h)
      <4>1. row'[k] = IF row[k].owner = "user" THEN [row[k] EXCEPT !.owner = "orphan"] ELSE row[k]
        BY <3>3 DEF DeleteUser
      <4> QED
        BY <3>1, <4>1 DEF Owned, Active, Rows
    <3> QED
      BY <3>2, <3>3
  <2> QED
    BY <2>1 DEF Owned, Active
<1> QED
  BY <1>1, <1>2, <1>3, QuietHandler

LEMMA MintKeepsCap ==
  ASSUME Types, CapInv, NEW h \in Handlers, NEW k \in Keys, MintDispatchKey(h, k)
  PROVE  CapInv'
<1> DEFINE w == [at[h] EXCEPT !.key = k, !.stop = "store"]
           r == [kind |-> "dispatch", owner |-> "user", active |-> TRUE, age |-> "fresh"]
<1>1. UNCHANGED <<cap, highest, crowd, switched>>
  BY DEF MintDispatchKey
<1>2. CASE Ends(h)
  <2>1. (UNCHANGED row \/ row' = [row EXCEPT ![k] = r]) /\ r.kind = "dispatch"
    BY DEF MintDispatchKey
  <2> HIDE DEF r
  <2>2. Owned' \subseteq Owned
    BY <2>1, SameRows, RowKept
  <2> QED
    BY <1>1, <1>2, <2>2, HandlerEnds, QuietHandler
<1>3. CASE ~Ends(h)
  <2>1. row' = [row EXCEPT ![k] = r] /\ at' = [at EXCEPT ![h] = w]
    BY <1>3 DEF MintDispatchKey
  <2>2. w \in Work /\ w.stop = "store"
    BY DEF Types, Work, Stops, Asking
  <2>3. Owned' \subseteq Owned
    <3>1. r.kind = "dispatch"
      OBVIOUS
    <3> HIDE DEF r
    <3> QED
      BY <2>1, <3>1, RowKept
  <2> HIDE DEF w
  <2>4. at' \in [Handlers -> Work] /\ at'[h] = w /\ \A g \in Handlers \ {h} : at'[g] = at[g]
    BY <2>1, <2>2 DEF Types
  <2> QED
    BY <1>1, <2>2, <2>3, <2>4, QuietHandler
<1> QED
  BY <1>2, <1>3

\* What the dispatch key's borrowers and a broken handler do.
LEMMA OtherStepsKeepCap ==
  ASSUME Types, CapInv, NEW h \in Handlers,
         \/ ReadCached(h) \/ CheckRow(h) \/ ForgetCached(h) \/ StoreDispatchKey(h)
         \/ Passes(h) \/ AsksAgain(h) \/ BreakOff(h)
  PROVE  CapInv'
<1>1. UNCHANGED <<cap, row, highest, crowd, switched>> /\ Owned' = Owned
  BY SameRows DEF ReadCached, CheckRow, ForgetCached, StoreDispatchKey, Passes, AsksAgain,
     BreakOff, history
<1>2. /\ at' \in [Handlers -> Work] /\ at'[h].stop \notin {"count", "insert"}
      /\ \A g \in Handlers \ {h} : at'[g] = at[g]
  <2>1. CASE Ends(h)
    BY <2>1, HandlerEnds
  <2>2. CASE \E stop \in {"mint", "check", "forget"} \cup Asking : Goes(h, stop)
    BY <2>2, HandlerMoves DEF Stops, Asking
  <2>3. CASE ~Ends(h) /\ ~\E stop \in {"mint", "check", "forget"} \cup Asking : Goes(h, stop)
    <3> DEFINE w == [at[h] EXCEPT !.key = cached, !.stop = IF cached = NoKey THEN "mint" ELSE "check"]
    <3>1. at' = [at EXCEPT ![h] = w]
      BY <2>3 DEF ReadCached, CheckRow, Lends, ForgetCached, StoreDispatchKey, Passes,
         AsksAgain, BreakOff, Asking
    <3>2. w \in Work /\ w.stop \in {"mint", "check"}
      BY DEF Types, Work, Stops, Asking
    <3> HIDE DEF w
    <3> QED
      BY <3>1, <3>2 DEF Types
  <2> QED
    BY <2>1, <2>2, <2>3
<1> QED
  BY <1>1, <1>2, QuietHandler

LEMMA PlanStepsKeepCap ==
  ASSUME Types, CapInv, \/ \E c \in Caps : ChangePlan(c)
                        \/ \E state \in {"operator", "admin", "inactive"} : ModifyUser(state)
                        \/ UNCHANGED vars
  PROVE  CapInv'
<1>1. UNCHANGED <<row, at, crowd, switched>> /\ Owned' = Owned /\ Inserting' = Inserting
  BY SameRows, SameHandlers DEF ChangePlan, ModifyUser, vars, history
<1>2. highest' \in Nat /\ highest <= highest' /\ cap' <= highest'
  <2>1. CASE UNCHANGED <<cap, highest>>
    BY <2>1 DEF CapInv, Numbers, CapsBelow
  <2>2. ASSUME NEW c \in Caps, ChangePlan(c) PROVE highest' \in Nat /\ highest <= highest' /\ cap' <= highest'
    <3>1. c \in Nat /\ highest \in Nat
      <4>1. Caps \subseteq Nat
        BY ConstantsOK
      <4> QED
        BY <4>1 DEF CapInv, Numbers
    <3>2. cap' = c /\ highest' = IF c > highest THEN c ELSE highest
      BY <2>2 DEF ChangePlan
    <3> QED
      BY <3>1, <3>2
  <2> QED
    BY <2>1, <2>2 DEF ModifyUser, vars, history
<1>3. CapsBelow'
  <2>1. ASSUME NEW h \in Handlers, At(h, "count") PROVE at[h].cap <= highest'
    <3>1. at[h].cap \in Nat /\ at[h].cap <= highest /\ highest \in Nat
      BY <2>1, CapsAreNumbers DEF CapInv, CapsBelow, Numbers
    <3> QED
      BY <1>2, <3>1
  <2> QED
    BY <1>1, <1>2, <2>1 DEF CapsBelow, At
<1> QED
  BY <1>1, <1>2, <1>3, Quiet DEF CapInv, Numbers

LEMMA CapIsKept == Types /\ CapInv /\ [Next]_vars => CapInv'
BY ReadKeepsCap, CountKeepsCap, InsertKeepsCap, SwitchKeepsCap, RowStepsKeepCap,
   AccountStepsKeepCap, MintKeepsCap, OtherStepsKeepCap, PlanStepsKeepCap
DEF Next, Create, Dispatch

\* The user's own keys stay within the highest cap of any plan the user had, but for
\* those inserted by requests that counted at the same time and those switched on again.
THEOREM KeysAreCapped == Spec => []KeyCapHeld
<1>1. Init => CapInv
  <2>1. ASSUME Init PROVE CapInv
    <3>1. Owned = {} /\ Inserting = {}
      BY <2>1 DEF Init, Owned, Active, Inserting, Creating, NoRow, At, Idle
    <3>2. KeyCapHeld
      BY <2>1, <3>1, CapIsSum, FS_EmptySet DEF Init, Bound
    <3> QED
      BY <2>1, <3>2 DEF Init, CapInv, Numbers, CapsBelow, At, Idle
  <2> QED
    BY <2>1
<1>2. KeysInv => Types
  BY DEF KeysInv
<1>3. CapInv => KeyCapHeld
  BY DEF CapInv
<1> QED
  BY <1>1, <1>2, <1>3, CapIsKept, KeysInvHolds, PTL DEF Spec
==============================================================================
