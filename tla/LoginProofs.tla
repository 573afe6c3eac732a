----------------------------- MODULE LoginProofs -----------------------------
(***************************************************************************)
(* Theorems about the lockout and the second factor, for any number of     *)
(* handlers, failures and enrolments: how many passwords can be tried      *)
(* before the lockout, and that a factor that is on is turned off only by  *)
(* a request that was shown it, or one that came while it was off.         *)
(***************************************************************************)
EXTENDS Login, FiniteSetTheorems, TLAPS

Work == [stop : Stops, met : BOOLEAN, shown : BOOLEAN]

\* The parts of the types that the arguments need.
Types == at \in [Handlers -> Work] /\ fails \in Nat /\ tries \in Nat /\ enabled \in BOOLEAN
         /\ mishaps \in Nat

\* An enrolment begins while the factor is off; turning it off wants it shown if it is on.
Begins   == \A h \in Handlers : At(h, "begin") => ~at[h].met
Disables == \A h \in Handlers : At(h, "disable") => at[h].met = at[h].shown

\* A wrong password is counted, on its way to the counter, or lost with its handler; the
\* passwords still to be compared passed the lockout.
Comparing == {h \in Handlers : At(h, "compare")}
Counted   == tries <= fails + Cardinality(Counting) + mishaps
Passed    == tries + Cardinality(Comparing) <= MaxFails - 1 + Cardinality(Handlers) + mishaps

LoginInv == Types /\ Begins /\ Disables /\ Counted /\ Passed

\* What a set of handlers counts when one handler enters or leaves it.
LEMMA SetMoves ==
  ASSUME NEW S \in SUBSET Handlers, NEW h \in Handlers
  PROVE  /\ Cardinality(S) \in Nat
         /\ Cardinality(S \ {h}) = IF h \in S THEN Cardinality(S) - 1 ELSE Cardinality(S)
         /\ Cardinality(S \cup {h}) = IF h \in S THEN Cardinality(S) ELSE Cardinality(S) + 1
BY ConstantsOK, FS_Subset, FS_RemoveElement, FS_AddElement, FS_CardinalityType

\* Two sets of handlers that have none in common.
LEMMA BothFit ==
  ASSUME NEW S \in SUBSET Handlers, NEW T \in SUBSET Handlers, S \cap T = {}
  PROVE  /\ Cardinality(Handlers) \in Nat /\ Cardinality(S) \in Nat /\ Cardinality(T) \in Nat
         /\ Cardinality(S) + Cardinality(T) <= Cardinality(Handlers)
<1>1. IsFiniteSet(S) /\ IsFiniteSet(T) /\ IsFiniteSet(Handlers)
  BY ConstantsOK, FS_Subset
<1>2. Cardinality(S \cap T) = 0
  BY FS_EmptySet
<1>3. Cardinality(S \cup T) = Cardinality(S) + Cardinality(T) - Cardinality(S \cap T)
  BY <1>1, FS_Union
<1>4. Cardinality(S \cup T) <= Cardinality(Handlers)
  <2>1. S \cup T \in SUBSET Handlers
    OBVIOUS
  <2> QED
    BY <1>1, <2>1, FS_Subset
<1>5. Cardinality(S) \in Nat /\ Cardinality(T) \in Nat /\ Cardinality(Handlers) \in Nat
  BY <1>1, FS_CardinalityType
<1> QED
  BY <1>2, <1>3, <1>4, <1>5

LEMMA HandlerMoves ==
  ASSUME Types, NEW h \in Handlers, NEW w \in Work, at' = [at EXCEPT ![h] = w]
  PROVE  /\ at' \in [Handlers -> Work] /\ at'[h] = w /\ \A g \in Handlers \ {h} : at'[g] = at[g]
         /\ Counting' = IF w.stop = "count" THEN Counting \cup {h} ELSE Counting \ {h}
         /\ Comparing' = IF w.stop = "compare" THEN Comparing \cup {h} ELSE Comparing \ {h}
<1>1. at' \in [Handlers -> Work] /\ at'[h] = w /\ \A g \in Handlers \ {h} : at'[g] = at[g]
  BY DEF Types
<1> QED
  BY <1>1 DEF Counting, Comparing, At

\* What the two sets count after a step, by the stops it leads from and to.
LEMMA Counts ==
  ASSUME Types, NEW h \in Handlers, NEW w \in Work, at' = [at EXCEPT ![h] = w]
  PROVE  /\ Cardinality(Counting) \in Nat /\ Cardinality(Comparing) \in Nat
         /\ Cardinality(Counting') + Cardinality(Comparing') <= Cardinality(Handlers)
         /\ Cardinality(Counting') =
              IF w.stop = "count"
              THEN IF at[h].stop = "count" THEN Cardinality(Counting) ELSE Cardinality(Counting) + 1
              ELSE IF at[h].stop = "count" THEN Cardinality(Counting) - 1 ELSE Cardinality(Counting)
         /\ Cardinality(Comparing') =
              IF w.stop = "compare"
              THEN IF at[h].stop = "compare" THEN Cardinality(Comparing) ELSE Cardinality(Comparing) + 1
              ELSE IF at[h].stop = "compare" THEN Cardinality(Comparing) - 1 ELSE Cardinality(Comparing)
<1>1. /\ Counting' = IF w.stop = "count" THEN Counting \cup {h} ELSE Counting \ {h}
      /\ Comparing' = IF w.stop = "compare" THEN Comparing \cup {h} ELSE Comparing \ {h}
  BY HandlerMoves
<1>2. Counting \in SUBSET Handlers /\ Comparing \in SUBSET Handlers
  BY DEF Counting, Comparing
<1>3. (h \in Counting <=> at[h].stop = "count") /\ (h \in Comparing <=> at[h].stop = "compare")
  BY DEF Counting, Comparing, At
<1>4. Counting' \in SUBSET Handlers /\ Comparing' \in SUBSET Handlers /\ Counting' \cap Comparing' = {}
  BY DEF Counting, Comparing, At
<1>5. Cardinality(Counting') + Cardinality(Comparing') <= Cardinality(Handlers)
  BY <1>4, BothFit
<1>6. /\ Cardinality(Counting) \in Nat /\ Cardinality(Comparing) \in Nat
      /\ Cardinality(Counting \ {h}) =
           IF h \in Counting THEN Cardinality(Counting) - 1 ELSE Cardinality(Counting)
      /\ Cardinality(Counting \cup {h}) =
           IF h \in Counting THEN Cardinality(Counting) ELSE Cardinality(Counting) + 1
      /\ Cardinality(Comparing \ {h}) =
           IF h \in Comparing THEN Cardinality(Comparing) - 1 ELSE Cardinality(Comparing)
      /\ Cardinality(Comparing \cup {h}) =
           IF h \in Comparing THEN Cardinality(Comparing) ELSE Cardinality(Comparing) + 1
  BY <1>2, SetMoves
<1> QED
  BY <1>1, <1>3, <1>5, <1>6

\* Idle, and the records of a handler that goes on or is shown the factor.
LEMMA IdleWork == Idle \in Work /\ Idle.stop = "idle"
BY DEF Idle, Work, Stops

LEMMA GoesOn ==
  ASSUME Types, NEW h \in Handlers, NEW stop \in Stops, Goes(h, stop)
  PROVE  \E w \in Work : at' = [at EXCEPT ![h] = w] /\ w.stop = stop
<1> DEFINE w == [at[h] EXCEPT !.stop = stop]
<1>1. at[h] \in Work
  BY DEF Types
<1>2. w \in Work /\ w.stop = stop
  BY <1>1 DEF Work
<1>3. at' = [at EXCEPT ![h] = w]
  BY DEF Goes
<1> QED
  BY <1>2, <1>3

\* A handler that does not begin to change the factor leaves what holds of the others.
LEMMA FactorHolds ==
  ASSUME Types, Begins, Disables, NEW h \in Handlers, NEW w \in Work, at' = [at EXCEPT ![h] = w],
         w.stop = "begin" => ~w.met, w.stop = "disable" => w.met = w.shown
  PROVE  Begins' /\ Disables'
BY HandlerMoves DEF Begins, Disables, At

\* A step that compares and counts no password.
LEMMA QuietStep ==
  ASSUME LoginInv, NEW h \in Handlers, NEW w \in Work, at' = [at EXCEPT ![h] = w],
         w.stop \notin {"compare", "count"}, UNCHANGED <<fails, tries>>, enabled' \in BOOLEAN,
         mishaps' \in Nat,
         mishaps' = mishaps + 1 \/ (mishaps' = mishaps /\ at[h].stop # "count"),
         w.stop = "begin" => ~w.met, w.stop = "disable" => w.met = w.shown
  PROVE  LoginInv'
<1>1. Types' /\ Begins' /\ Disables'
  BY HandlerMoves, FactorHolds DEF LoginInv, Types
<1> DEFINE c == Cardinality(Counting)
           p == Cardinality(Comparing)
<1>2. /\ c \in Nat /\ p \in Nat
      /\ c' = (IF at[h].stop = "count" THEN c - 1 ELSE c)
      /\ p' = (IF at[h].stop = "compare" THEN p - 1 ELSE p)
  BY Counts DEF LoginInv
<1>3. Cardinality(Handlers) \in Nat
  BY ConstantsOK, FS_CardinalityType
<1>4. tries <= fails + c + mishaps /\ tries + p <= MaxFails - 1 + Cardinality(Handlers) + mishaps
  BY DEF LoginInv, Counted, Passed
<1> HIDE DEF c, p
<1>5. fails \in Nat /\ tries \in Nat /\ mishaps \in Nat /\ MaxFails \in Nat
  BY ConstantsOK DEF LoginInv, Types
<1>6. /\ tries' <= fails' + c' + mishaps'
      /\ tries' + p' <= MaxFails - 1 + Cardinality(Handlers) + mishaps'
  <2>1. fails' = fails /\ tries' = tries /\ c' \in {c, c - 1} /\ p' \in {p, p - 1}
    BY <1>2
  <2>2. CASE mishaps' = mishaps + 1
    BY <1>2, <1>3, <1>4, <1>5, <2>1, <2>2
  <2>3. CASE mishaps' = mishaps /\ at[h].stop # "count"
    <3>1. c' = c
      BY <1>2, <2>3
    <3> QED
      BY <1>2, <1>3, <1>4, <1>5, <2>1, <2>3, <3>1
  <2> QED
    BY <2>2, <2>3
<1> QED
  BY <1>1, <1>6 DEF LoginInv, Counted, Passed, c, p

\* The counter is cleared: what is still to be counted are the handlers on their way to it.
LEMMA ClearStep ==
  ASSUME LoginInv, Clear, UNCHANGED <<enabled, mishaps>>, Types', Begins', Disables',
         Counting' = Counting
  PROVE  LoginInv'
<1>1. /\ Cardinality(Handlers) \in Nat /\ Cardinality(Counting') \in Nat /\ Cardinality(Comparing') \in Nat
      /\ Cardinality(Counting') + Cardinality(Comparing') <= Cardinality(Handlers)
  <2>1. Counting' \in SUBSET Handlers /\ Comparing' \in SUBSET Handlers /\ Counting' \cap Comparing' = {}
    BY DEF Counting, Comparing, At
  <2> QED
    BY <2>1, BothFit
<1>2. fails' = 0 /\ tries' = Cardinality(Counting') /\ mishaps' \in Nat
  BY DEF Clear, LoginInv, Types
<1>3. Counted' /\ Passed'
  BY <1>1, <1>2, ConstantsOK DEF Counted, Passed
<1> QED
  BY <1>3 DEF LoginInv

LEMMA InvKept == LoginInv /\ [Next]_vars => LoginInv'
<1> SUFFICES ASSUME LoginInv, [Next]_vars PROVE LoginInv'
  OBVIOUS
<1> Types /\ Begins /\ Disables
  BY DEF LoginInv
<1> USE DEF lock, factor, history
<1>1. ASSUME NEW h \in Handlers, Check(h) PROVE LoginInv'
  <2> DEFINE w == [Idle EXCEPT !.stop = "compare", !.met = enabled]
             c == Cardinality(Counting)
             p == Cardinality(Comparing)
  <2>1. w \in Work /\ w.stop = "compare"
    BY IdleWork DEF Work, Types, Stops
  <2>2. at' = [at EXCEPT ![h] = w] /\ at[h].stop = "idle" /\ fails < MaxFails
        /\ UNCHANGED <<fails, tries, enabled, mishaps>>
    BY <1>1, IdleWork DEF Check, Starts, Resting
  <2> HIDE DEF w
  <2>3. Types' /\ Begins' /\ Disables'
    BY <2>1, <2>2, HandlerMoves, FactorHolds DEF Types
  <2>4. c \in Nat /\ p \in Nat /\ c' = c /\ p' = p + 1 /\ c' + p' <= Cardinality(Handlers)
    BY <2>1, <2>2, Counts
  <2>5. tries <= fails + c + mishaps /\ fails \in Nat /\ tries \in Nat /\ mishaps \in Nat
    BY DEF LoginInv, Counted, Types
  <2>6. Cardinality(Handlers) \in Nat /\ MaxFails \in Nat
    BY ConstantsOK, FS_CardinalityType
  <2> HIDE DEF c, p
  <2>7. /\ tries' <= fails' + c' + mishaps'
        /\ tries' + p' <= MaxFails - 1 + Cardinality(Handlers) + mishaps'
    BY <2>2, <2>4, <2>5, <2>6
  <2> QED
    BY <2>3, <2>7 DEF LoginInv, Counted, Passed, c, p
<1>2. ASSUME NEW h \in Handlers, RightPassword(h) PROVE LoginInv'
  <2>1. PICK w \in Work : at' = [at EXCEPT ![h] = w] /\ w.stop \in {"factor", "idle"}
    BY <1>2, GoesOn, IdleWork DEF RightPassword, Ends, Stops
  <2>2. at[h].stop = "compare" /\ Clear /\ UNCHANGED <<enabled, mishaps>>
    BY <1>2 DEF RightPassword, At
  <2>3. Begins' /\ Disables' /\ at' \in [Handlers -> Work]
    BY <2>1, FactorHolds, HandlerMoves
  <2>4. Counting' = Counting
    BY <2>1, <2>2, HandlerMoves DEF Counting, At
  <2>5. Types'
    <3>1. Cardinality(Counting) \in Nat
      BY <2>1, Counts
    <3> QED
      BY <2>2, <2>3, <3>1 DEF Types, Clear
  <2> QED
    BY <2>2, <2>3, <2>4, <2>5, ClearStep
<1>3. CASE LockoutExpires
  <2>1. Clear /\ UNCHANGED <<enabled, at, mishaps>>
    BY <1>3 DEF LockoutExpires
  <2>2. Begins' /\ Disables' /\ Counting' = Counting
    BY <2>1 DEF Begins, Disables, Counting, At
  <2>3. Types'
    <3>1. Counting \in SUBSET Handlers
      BY DEF Counting
    <3>2. Cardinality(Counting) \in Nat
      BY <3>1, ConstantsOK, FS_Subset, FS_CardinalityType
    <3> QED
      BY <2>1, <3>2 DEF Types, Clear
  <2> QED
    BY <2>1, <2>2, <2>3, ClearStep
<1>4. ASSUME NEW h \in Handlers, WrongPassword(h) \/ RecordFail(h) PROVE LoginInv'
  <2> DEFINE c == Cardinality(Counting)
             p == Cardinality(Comparing)
  <2>0. UNCHANGED <<enabled, mishaps>>
    BY <1>4 DEF WrongPassword, RecordFail
  <2>1. tries <= fails + c + mishaps /\ tries + p <= MaxFails - 1 + Cardinality(Handlers) + mishaps
    BY DEF LoginInv, Counted, Passed
  <2>2. /\ Cardinality(Handlers) \in Nat /\ MaxFails \in Nat
        /\ fails \in Nat /\ tries \in Nat /\ mishaps \in Nat
    BY ConstantsOK, FS_CardinalityType DEF Types
  <2>3. CASE WrongPassword(h)
    <3>1. PICK w \in Work : at' = [at EXCEPT ![h] = w] /\ w.stop = "count"
      BY <2>3, GoesOn DEF WrongPassword, Stops
    <3>2. at[h].stop = "compare" /\ tries' = tries + 1 /\ fails' = fails
      BY <2>3 DEF WrongPassword, At
    <3>3. Types' /\ Begins' /\ Disables'
      <4>1. at' \in [Handlers -> Work]
        BY <3>1, HandlerMoves
      <4>2. Begins' /\ Disables'
        BY <3>1, FactorHolds
      <4> QED
        BY <2>0, <2>2, <3>2, <4>1, <4>2 DEF Types
    <3>4. c \in Nat /\ p \in Nat /\ c' = c + 1 /\ p' = p - 1
      BY <3>1, <3>2, Counts
    <3> HIDE DEF c, p
    <3>5. /\ tries' <= fails' + c' + mishaps'
          /\ tries' + p' <= MaxFails - 1 + Cardinality(Handlers) + mishaps'
      BY <2>0, <2>1, <2>2, <3>2, <3>4
    <3> QED
      BY <3>3, <3>5 DEF LoginInv, Counted, Passed, c, p
  <2>4. CASE RecordFail(h)
    <3>1. PICK w \in Work : at' = [at EXCEPT ![h] = w] /\ w.stop \in {"expire", "idle"}
      BY <2>4, GoesOn, IdleWork DEF RecordFail, Ends, Stops
    <3>2. at[h].stop = "count" /\ fails' = fails + 1 /\ tries' = tries
      BY <2>4 DEF RecordFail, At
    <3>3. Types' /\ Begins' /\ Disables'
      <4>1. at' \in [Handlers -> Work]
        BY <3>1, HandlerMoves
      <4>2. Begins' /\ Disables'
        BY <3>1, FactorHolds
      <4> QED
        BY <2>0, <2>2, <3>2, <4>1, <4>2 DEF Types
    <3>4. c \in Nat /\ p \in Nat /\ c' = c - 1 /\ p' = p
      BY <3>1, <3>2, Counts
    <3> HIDE DEF c, p
    <3>5. /\ tries' <= fails' + c' + mishaps'
          /\ tries' + p' <= MaxFails - 1 + Cardinality(Handlers) + mishaps'
      BY <2>0, <2>1, <2>2, <3>2, <3>4
    <3> QED
      BY <3>3, <3>5 DEF LoginInv, Counted, Passed, c, p
  <2> QED
    BY <1>4, <2>3, <2>4
<1>5. ASSUME NEW h \in Handlers,
             \/ SetExpiry(h) \/ NotAsked(h) \/ SessionMade(h) \/ BeginEnrollment(h)
             \/ ConfirmEnrollment(h) \/ TurnOff(h)
      PROVE  LoginInv'
  <2>1. PICK w \in Work : at' = [at EXCEPT ![h] = w] /\ w.stop \in {"session", "idle"}
    BY <1>5, GoesOn, IdleWork DEF SetExpiry, NotAsked, SessionMade, BeginEnrollment,
         ConfirmEnrollment, TurnOff, Ends, Stops
  <2>2. /\ at[h].stop # "count" /\ UNCHANGED <<fails, tries, mishaps>> /\ enabled' \in BOOLEAN
    BY <1>5 DEF SetExpiry, NotAsked, SessionMade, BeginEnrollment, ConfirmEnrollment,
       TurnOff, At, Types
  <2> QED
    BY <2>1, <2>2, QuietStep DEF Types
<1>6. ASSUME NEW h \in Handlers, ShowCode(h) \/ \E code \in RecoveryCodes : ShowRecovery(h, code)
      PROVE  LoginInv'
  <2>1. /\ at[h].stop = "factor" /\ UNCHANGED <<fails, tries, mishaps, enabled>>
    BY <1>6 DEF ShowCode, ShowRecovery, At
  <2>2. CASE Ends(h)
    BY <2>1, <2>2, IdleWork, QuietStep DEF Ends, Types
  <2>3. CASE at' = [at EXCEPT ![h].stop = "session", ![h].shown = TRUE]
    <3> DEFINE w == [at[h] EXCEPT !.stop = "session", !.shown = TRUE]
    <3>1. w \in Work /\ w.stop = "session"
      BY DEF Types, Work, Stops
    <3>2. at' = [at EXCEPT ![h] = w]
      BY <2>3
    <3> HIDE DEF w
    <3> QED
      BY <2>1, <3>1, <3>2, QuietStep DEF Types
  <2> QED
    BY <1>6, <2>2, <2>3 DEF ShowCode, ShowRecovery
<1>7. ASSUME NEW h \in Handlers, Enroll(h) \/ Confirm(h) PROVE LoginInv'
  <2> DEFINE stop == IF Starts(h, "begin") THEN "begin" ELSE "enable"
             w    == [Idle EXCEPT !.stop = stop, !.met = enabled]
  <2>1. stop \in Stops /\ stop \in {"begin", "enable"}
    BY DEF Stops
  <2>2. /\ at' = [at EXCEPT ![h] = w] /\ at[h].stop = "idle"
        /\ UNCHANGED <<fails, tries, enabled, mishaps>>
    BY <1>7, IdleWork DEF Enroll, Confirm, Starts, Resting
  <2>3. stop = "begin" => ~enabled
    <3>1. CASE Enroll(h)
      BY <3>1 DEF Enroll
    <3>2. CASE Confirm(h) /\ Starts(h, "begin")
      <4> DEFINE v(x) == [Idle EXCEPT !.stop = x, !.met = enabled]
      <4>1. v("begin").stop = "begin" /\ v("enable").stop = "enable"
        BY IdleWork DEF Work, Types
      <4>2. at'[h] = v("begin") /\ at'[h] = v("enable")
        BY <3>2 DEF Confirm, Starts, Types
      <4> QED
        BY <4>1, <4>2
    <3> QED
      BY <1>7, <3>1, <3>2
  <2> HIDE DEF stop
  <2>4. w \in Work /\ w.stop = stop /\ w.met = enabled
    BY <2>1, IdleWork DEF Types, Work
  <2> HIDE DEF w
  <2> QED
    BY <2>1, <2>2, <2>3, <2>4, QuietStep DEF Types
<1>8. ASSUME NEW h \in Handlers, Disable(h) PROVE LoginInv'
  <2> DEFINE w == [stop |-> "disable", met |-> enabled, shown |-> enabled]
  <2>1. w \in Work /\ w.stop = "disable" /\ w.met = w.shown
    BY DEF Work, Types, Stops
  <2>2. /\ at' = [at EXCEPT ![h] = w] /\ at[h].stop = "idle"
        /\ UNCHANGED <<fails, tries, enabled, mishaps>>
    BY <1>8, IdleWork DEF Disable, Resting
  <2> HIDE DEF w
  <2> QED
    BY <2>1, <2>2, QuietStep DEF Types
<1>9. ASSUME NEW h \in Handlers, BreakOff(h) PROVE LoginInv'
  <2>1. PICK w \in Work : at' = [at EXCEPT ![h] = w] /\ w.stop = "idle"
    BY <1>9, IdleWork DEF BreakOff, Ends
  <2>2. /\ UNCHANGED <<fails, tries>> /\ enabled' \in BOOLEAN
        /\ mishaps' = mishaps + 1 /\ mishaps \in Nat /\ mishaps' \in Nat
    BY <1>9 DEF BreakOff, Types
  <2>3. w.stop \notin {"compare", "count", "begin", "disable"}
    BY <2>1
  <2> QED
    BY <2>1, <2>2, <2>3, QuietStep
<1>10. CASE UNCHANGED vars
  BY <1>10 DEF vars, LoginInv, Types, Begins, Disables, Counted, Passed, Counting, Comparing, At
<1> QED
  BY <1>1, <1>2, <1>3, <1>4, <1>5, <1>6, <1>7, <1>8, <1>9, <1>10 DEF Next, Requests, Proceed

LEMMA InitInv == Init => LoginInv
<1> SUFFICES ASSUME Init PROVE LoginInv
  OBVIOUS
<1>1. at \in [Handlers -> Work] /\ \A h \in Handlers : at[h].stop = "idle"
  BY IdleWork DEF Init
<1>2. Counting = {} /\ Comparing = {}
  BY <1>1 DEF Counting, Comparing, At
<1>3. Counted /\ Passed
  BY <1>2, ConstantsOK, FS_EmptySet, FS_CardinalityType DEF Init, Counted, Passed
<1> QED
  BY <1>1, <1>3 DEF Init, LoginInv, Types, Begins, Disables, At

\* Parallel attempts get a few passwords past the lockout, but no more than one for each
\* further handler and for each that breaks off before it has counted.
THEOREM FewTries == Spec => []TriesBounded
<1>1. LoginInv => TriesBounded
  <2>1. Comparing \in SUBSET Handlers
    BY DEF Comparing
  <2>2. Cardinality(Comparing) \in Nat /\ Cardinality(Handlers) \in Nat
    BY <2>1, ConstantsOK, FS_Subset, FS_CardinalityType
  <2> QED
    BY <2>2, ConstantsOK DEF LoginInv, Types, Passed, TriesBounded
<1> QED
  BY <1>1, InitInv, InvKept, PTL DEF Spec

\* A second factor that is on is turned off only by a request that was shown it or that
\* came while it was off and was overtaken by its confirmation.
THEOREM KeepsFactor == Spec => FactorKept
<1>1. LoginInv /\ [Next]_vars =>
        [enabled /\ ~enabled' =>
           \E h \in Handlers : at[h].stop \in {"begin", "disable"} /\ (at[h].met => at[h].shown)]_vars
  <2> SUFFICES ASSUME LoginInv, [Next]_vars, enabled, ~enabled'
               PROVE  \E h \in Handlers : at[h].stop \in {"begin", "disable"} /\ (at[h].met => at[h].shown)
    OBVIOUS
  <2>1. PICK h \in Handlers : BeginEnrollment(h) \/ TurnOff(h)
    BY DEF Next, Requests, Proceed, Check, Enroll, Confirm, Disable, RightPassword, WrongPassword,
         RecordFail, SetExpiry, NotAsked, ShowCode, ShowRecovery, SessionMade, ConfirmEnrollment,
         BreakOff, LockoutExpires, vars, lock, factor, history
  <2> QED
    BY <2>1 DEF BeginEnrollment, TurnOff, LoginInv, Begins, Disables, At
<1> QED
  BY <1>1, InitInv, InvKept, PTL DEF Spec, FactorKept
==============================================================================
