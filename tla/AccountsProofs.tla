--------------------------- MODULE AccountsProofs ----------------------------
(***************************************************************************)
(* Theorems about one account, for any number of handlers, links and       *)
(* passwords: its types, that a change of the password leaves no session   *)
(* made with an older one, and that an unverified account has a way in.    *)
(***************************************************************************)
EXTENDS Accounts, TLAPS

Work == [stop : Stops, op : Ops, password : 0 .. MaxPassword,
         link : Links \cup {NoLink}, raced : BOOLEAN]

\* A handler that will make a session knows the password it was asked with, and the
\* link that a handler will spend is of the kind it was looked up for, or spent by now.
WillSign == {"gate", "token", "session"}
Knows == \A h \in Handlers : at[h].stop \in WillSign => at[h].password >= 1
Holds == \A h \in Handlers : At(h, "mark") =>
           /\ at[h].op \in {"email_verify", "password_reset"}
           /\ link[at[h].link] \in {at[h].op, "none"}
TypeInv == TypeOK /\ Knows /\ Holds

\* What at, the account and the links of a step must be for the invariant to hold after it.
Rest ==
  /\ password \in 0 .. MaxPassword /\ verified \in BOOLEAN
  /\ sessions \subseteq [password : 1 .. MaxPassword, raced : BOOLEAN]
  /\ link \in [Links -> {"none", "email_verify", "password_reset"}]
  /\ signups \in 0 .. MaxSignups + 1
  /\ lapsed \in BOOLEAN /\ broken \subseteq Stops /\ mishaps \in 0 .. MaxMishaps

Good(w, links) ==
  /\ w \in Work
  /\ w.stop = "idle" => w = Idle
  /\ w.link # NoLink <=> w.stop = "mark"
  /\ w.stop \in WillSign => w.password >= 1
  /\ w.stop = "mark" => /\ w.op \in {"email_verify", "password_reset"}
                        /\ links[w.link] \in {w.op, "none"}

LEMMA InParts ==
  TypeInv <=> Rest /\ at \in [Handlers -> Work] /\ \A h \in Handlers : Good(at[h], link)
BY DEF TypeInv, TypeOK, Knows, Holds, Rest, Good, Work, At, Resting

LEMMA InPartsNext ==
  TypeInv' <=> Rest' /\ at' \in [Handlers -> Work] /\ \A h \in Handlers : Good(at'[h], link')
BY DEF TypeInv, TypeOK, Knows, Holds, Rest, Good, Work, At, Resting

LEMMA IdleGood == ASSUME NEW links PROVE Good(Idle, links)
BY ConstantsOK DEF Good, Idle, Work, Stops, Ops, WillSign

LEMMA Idles == Idle \in Work /\ Idle.link = NoLink
BY ConstantsOK DEF Idle, Work, Stops, Ops

\* The record of a handler that goes on: the same at another stop.
LEMMA GoesOn ==
  ASSUME TypeInv, NEW h \in Handlers, NEW stop \in Stops, Goes(h, stop)
  PROVE  \E w \in Work : /\ at' = [at EXCEPT ![h] = w]
                         /\ w.stop = stop /\ w.op = at[h].op /\ w.password = at[h].password
                         /\ w.link = at[h].link /\ w.raced = at[h].raced
<1> DEFINE w == [at[h] EXCEPT !.stop = stop]
<1>1. at[h] \in Work
  BY InParts
<1>2. w \in Work /\ w.stop = stop /\ w.op = at[h].op /\ w.password = at[h].password
        /\ w.link = at[h].link /\ w.raced = at[h].raced
  BY <1>1 DEF Work
<1>3. at' = [at EXCEPT ![h] = w]
  BY DEF Goes
<1> QED
  BY <1>2, <1>3

\* Links are made where no handler holds them, and otherwise spent.
Spent == \A t \in Links : link'[t] \in {link[t], "none"} \/ \A g \in Handlers : at[g].link # t

LEMMA StaysGood ==
  ASSUME TypeInv, Spent, NEW g \in Handlers
  PROVE  Good(at[g], link')
<1>1. Good(at[g], link)
  BY InParts
<1>2. CASE at[g].stop = "mark"
  <2>1. at[g].link \in Links /\ link'[at[g].link] \in {link[at[g].link], "none"}
    BY <1>1, <1>2 DEF Good, Work, Spent
  <2> QED
    BY <1>1, <2>1 DEF Good
<1>3. CASE at[g].stop # "mark"
  BY <1>1, <1>3 DEF Good
<1> QED
  BY <1>2, <1>3

LEMMA HandlerSteps ==
  ASSUME TypeInv, NEW h \in Handlers, NEW w, at' = [at EXCEPT ![h] = w], Good(w, link'), Rest', Spent
  PROVE  TypeInv'
<1>1. w \in Work /\ at \in [Handlers -> Work]
  BY InParts DEF Good
<1>2. at' \in [Handlers -> Work] /\ at'[h] = w /\ \A g \in Handlers \ {h} : at'[g] = at[g]
  BY <1>1
<1>3. \A g \in Handlers : Good(at'[g], link')
  BY <1>2, StaysGood
<1> QED
  BY <1>2, <1>3, InPartsNext

LEMMA LinksChange ==
  ASSUME TypeInv, UNCHANGED at, Rest', Spent
  PROVE  TypeInv'
BY StaysGood, InParts, InPartsNext

\* The types hold; a handler knows the password it signs in with, and what it spends.
THEOREM TypeCorrect == Spec => []TypeInv
<1>1. Init => TypeInv
  <2> SUFFICES ASSUME Init PROVE TypeInv
    OBVIOUS
  <2>1. \A h \in Handlers : at[h] = Idle /\ Good(at[h], link)
    BY IdleGood DEF Init
  <2>2. at \in [Handlers -> Work]
    BY IdleGood DEF Init, Good
  <2>3. password \in 0 .. MaxPassword /\ signups \in 0 .. MaxSignups + 1 /\ mishaps \in 0 .. MaxMishaps
    BY ConstantsOK DEF Init
  <2>4. link \in [Links -> {"none", "email_verify", "password_reset"}]
    BY DEF Init
  <2>5. Rest
    BY <2>3, <2>4 DEF Init, Rest
  <2> QED
    BY <2>1, <2>2, <2>5, InParts
<1>2. TypeInv /\ [Next]_vars => TypeInv'
  <2> SUFFICES ASSUME TypeInv, [Next]_vars PROVE TypeInv'
    OBVIOUS
  <2> Rest
    BY InParts
  <2> USE ConstantsOK DEF account, history
  <2>1. ASSUME NEW h \in Handlers, NEW op \in {"login", "change"}, RightPassword(h, op)
        PROVE  TypeInv'
    <3> DEFINE stop == IF op = "change" THEN "set" ELSE "gate"
               w == [Idle EXCEPT !.op = op, !.password = password, !.stop = stop]
    <3>1. at' = [at EXCEPT ![h] = w] /\ password \in 0 .. MaxPassword /\ password >= 1
      BY <2>1 DEF RightPassword, Rest
    <3>2. stop \in Stops /\ stop \notin {"idle", "mark"} /\ op \in Ops
      BY DEF Stops, Ops
    <3> HIDE DEF stop
    <3>3. w \in Work /\ w.stop = stop /\ w.password = password /\ w.link = NoLink
      BY <3>1, <3>2, Idles DEF Work
    <3>4. Good(w, link)
      BY <3>1, <3>2, <3>3 DEF Good
    <3> HIDE DEF w
    <3> QED
      BY <2>1, <3>1, <3>4, HandlerSteps DEF RightPassword, Rest, Spent
  <2>2. ASSUME NEW h \in Handlers, EmailGate(h) PROVE TypeInv'
    <3>1. Good(at[h], link) /\ at[h].stop = "gate" /\ UNCHANGED <<account, link, signups, history>>
      BY <2>2, InParts DEF EmailGate, At
    <3>2. CASE Ends(h)
      BY <3>1, <3>2, IdleGood, HandlerSteps DEF Ends, Rest, Spent
    <3>3. CASE Goes(h, "session")
      BY <3>1, <3>3, GoesOn, HandlerSteps DEF Stops, Good, Rest, Spent, WillSign
    <3> QED
      BY <2>2, <3>2, <3>3 DEF EmailGate
  <2>3. ASSUME NEW h \in Handlers, CreateSession(h) PROVE TypeInv'
    <3>1. Good(at[h], link)
      BY InParts
    <3>2. at[h].password \in 1 .. MaxPassword /\ at[h].raced \in BOOLEAN
      BY <2>3, <3>1 DEF CreateSession, Good, Work, At, WillSign
    <3>3. Rest'
      BY <2>3, <3>2 DEF CreateSession, Rest
    <3> QED
      BY <2>3, <3>3, IdleGood, HandlerSteps DEF CreateSession, Ends, Spent
  <2>4. ASSUME NEW h \in Handlers, SetPassword(h) PROVE TypeInv'
    <3>1. Good(at[h], link) /\ at[h].stop = "set" /\ UNCHANGED link
      BY <2>4, InParts DEF SetPassword, At
    <3>2. Rest'
      BY <2>4 DEF SetPassword, Rest
    <3>3. CASE Ends(h)
      BY <3>1, <3>2, <3>3, IdleGood, HandlerSteps DEF Ends, Spent
    <3>4. CASE Goes(h, "revoke")
      BY <3>1, <3>2, <3>4, GoesOn, HandlerSteps DEF Stops, Good, Spent, WillSign
    <3> QED
      BY <2>4, <3>3, <3>4 DEF SetPassword
  <2>5. ASSUME NEW h \in Handlers, RevokeSessions(h) PROVE TypeInv'
    <3>1. Rest' /\ UNCHANGED link
      BY <2>5 DEF RevokeSessions, Rest
    <3>2. ASSUME NEW g \in Handlers PROVE Good(at'[g], link)
      <4>1. Good(at[g], link)
        BY InParts
      <4>2. at'[g] = IF g = h THEN Idle
                     ELSE IF at[g].stop \in {"gate", "token", "session"}
                          THEN [at[g] EXCEPT !.raced = TRUE] ELSE at[g]
        BY <2>5 DEF RevokeSessions
      <4>3. CASE at[g].stop \in {"gate", "token", "session"}
        BY <4>1, <4>2, <4>3, IdleGood DEF Good, Work
      <4>4. CASE at[g].stop \notin {"gate", "token", "session"}
        BY <4>1, <4>2, <4>4, IdleGood
      <4> QED
        BY <4>3, <4>4
    <3>3. at' \in [Handlers -> Work]
      <4>1. \A g \in Handlers : at'[g] \in Work
        BY <3>2 DEF Good
      <4>2. at' = [g \in Handlers |-> at'[g]]
        BY <2>5 DEF RevokeSessions
      <4> QED
        BY <4>1, <4>2
    <3> QED
      BY <3>1, <3>2, <3>3, InPartsNext
  <2>6. ASSUME NEW h \in Handlers, SignupThrottle(h) PROVE TypeInv'
    <3>1. Rest'
      BY <2>6 DEF SignupThrottle, Rest
    <3>2. CASE UNCHANGED at
      BY <2>6, <3>1, <3>2, LinksChange DEF SignupThrottle, Spent
    <3>3. CASE Starts(h, "signup", "create")
      <4> DEFINE w == [Idle EXCEPT !.op = "signup", !.stop = "create"]
      <4>3. w \in Work /\ w.stop = "create" /\ w.link = NoLink
        BY Idles DEF Work, Stops, Ops
      <4>1. Good(w, link)
        BY <4>3 DEF Good, WillSign
      <4>2. at' = [at EXCEPT ![h] = w]
        BY <3>3 DEF Starts
      <4> QED
        BY <2>6, <3>1, <4>1, <4>2, HandlerSteps DEF SignupThrottle, Spent
    <3> QED
      BY <2>6, <3>2, <3>3 DEF SignupThrottle
  <2>7. CASE ThrottleExpires
    BY <2>7, LinksChange DEF ThrottleExpires, Rest, Spent
  <2>8. ASSUME NEW h \in Handlers, CreateUser(h) PROVE TypeInv'
    <3>1. Rest' /\ UNCHANGED link
      BY <2>8 DEF CreateUser, Rest
    <3>2. CASE Ends(h)
      BY <3>1, <3>2, IdleGood, HandlerSteps DEF Ends, Spent
    <3>3. CASE at' = [at EXCEPT ![h].stop = "token", ![h].password = 1]
      <4> DEFINE w == [at[h] EXCEPT !.stop = "token", !.password = 1]
      <4>1. at[h] \in Work /\ at[h].stop = "create" /\ at[h].link = NoLink
        BY <2>8, InParts DEF CreateUser, At, Good
      <4>2. "token" \in Stops /\ 1 \in 0 .. MaxPassword
        BY DEF Stops
      <4>4. w \in Work /\ w.stop = "token" /\ w.password = 1 /\ w.link = NoLink
        BY <4>1, <4>2 DEF Work
      <4>5. Good(w, link)
        BY <4>4 DEF Good
      <4>3. at' = [at EXCEPT ![h] = w]
        BY <3>3
      <4> QED
        BY <3>1, <4>3, <4>5, HandlerSteps DEF Spent
    <3> QED
      BY <2>8, <3>2, <3>3 DEF CreateUser
  <2>9. ASSUME NEW h \in Handlers, NEW t \in Links, SignupLink(h, t) PROVE TypeInv'
    <3>1. Good(at[h], link) /\ at[h].stop = "token"
      BY <2>9, InParts DEF SignupLink, At
    <3>2. Rest' /\ Spent
      BY <2>9 DEF SignupLink, Mints, Rest, Spent
    <3>3. Goes(h, "session")
      BY <2>9 DEF SignupLink
    <3> QED
      BY <3>1, <3>2, <3>3, GoesOn, HandlerSteps DEF Stops, Good, WillSign
  <2>10. ASSUME NEW t \in Links, ResendVerification(t) \/ ForgotPassword(t) \/ LinkExpires(t)
         PROVE  TypeInv'
    <3>1. Rest' /\ Spent /\ UNCHANGED at
      BY <2>10 DEF ResendVerification, ForgotPassword, LinkExpires, Mints, Rest, Spent
    <3> QED
      BY <3>1, LinksChange
  <2>11. ASSUME NEW h \in Handlers, NEW op \in {"email_verify", "password_reset"}, NEW t \in Links,
                LookAt(h, op, t)
         PROVE  TypeInv'
    <3> DEFINE w == [Idle EXCEPT !.op = op, !.stop = "mark", !.link = t]
    <3>3. w \in Work /\ w.op = op /\ w.stop = "mark" /\ w.link = t
      BY Idles DEF Work, Stops, Ops
    <3>1. Good(w, link)
      BY <2>11, <3>3 DEF LookAt, Good, WillSign
    <3>2. at' = [at EXCEPT ![h] = w]
      BY <2>11 DEF LookAt
    <3> QED
      BY <2>11, <3>1, <3>2, HandlerSteps DEF LookAt, Rest, Spent
  <2>12. ASSUME NEW h \in Handlers, MarkUsed(h) PROVE TypeInv'
    <3> DEFINE w == [at[h] EXCEPT !.link = NoLink,
                                  !.stop = IF at[h].op = "email_verify" THEN "email" ELSE "set"]
    <3>1. at[h] \in Work
      BY InParts
    <3>2. Good(w, link')
      BY <3>1 DEF Good, Work, Stops, WillSign
    <3>3. at' = [at EXCEPT ![h] = w]
      BY <2>12 DEF MarkUsed
    <3>4. Rest' /\ Spent
      BY <2>12 DEF MarkUsed, Rest, Spent
    <3> QED
      BY <3>2, <3>3, <3>4, HandlerSteps
  <2>13. ASSUME NEW h \in Handlers, MarkEmailVerified(h) PROVE TypeInv'
    BY <2>13, IdleGood, HandlerSteps DEF MarkEmailVerified, Ends, Rest, Spent
  <2>14. ASSUME NEW h \in Handlers, BreakOff(h) PROVE TypeInv'
    <3>1. at[h].stop \in Stops
      BY InParts DEF Good, Work
    <3>2. Rest'
      BY <2>14, <3>1 DEF BreakOff, Rest
    <3> QED
      BY <2>14, <3>2, IdleGood, HandlerSteps DEF BreakOff, Ends, Spent
  <2>15. ASSUME NEW s \in sessions, DestroySession(s) PROVE TypeInv'
    BY <2>15, LinksChange DEF DestroySession, Rest, Spent
  <2>16. CASE UNCHANGED vars
    BY <2>16, LinksChange DEF vars, Rest, Spent
  <2> QED
    BY <2>1, <2>2, <2>3, <2>4, <2>5, <2>6, <2>7, <2>8, <2>9, <2>10, <2>11, <2>12, <2>13, <2>14,
       <2>15, <2>16 DEF Next, Requests, Proceed
<1> QED
  BY <1>1, <1>2, PTL DEF Spec

-----------------------------------------------------------------------------
(* A change of the password. *)

\* What holds for the sessions holds as well for those that handlers will make yet.
Excused    == "revoke" \in broken \/ \E h \in Handlers : At(h, "revoke")
SessionInv ==
  /\ \A s \in sessions : s.password < password => s.raced \/ Excused
  /\ \A h \in Handlers : at[h].stop \in WillSign /\ at[h].password < password =>
                         at[h].raced \/ Excused

\* A step that leaves the password and adds no session, of a handler that is not revoking.
LEMMA SessionsStay ==
  ASSUME TypeInv, SessionInv, NEW h \in Handlers, NEW w, at' = [at EXCEPT ![h] = w],
         ~At(h, "revoke"), password' = password, sessions' \subseteq sessions, broken \subseteq broken',
         w.stop \in WillSign /\ w.password < password => w.raced \/ Excused
  PROVE  SessionInv'
<1>1. at'[h] = w /\ \A g \in Handlers \ {h} : at'[g] = at[g]
  BY InParts
<1>2. Excused => Excused'
  BY <1>1 DEF Excused, At
<1> QED
  BY <1>1, <1>2 DEF SessionInv

LEMMA SessionsRest ==
  ASSUME SessionInv, UNCHANGED <<at, password, broken>>, sessions' \subseteq sessions
  PROVE  SessionInv'
BY DEF SessionInv, Excused, At

LEMMA SessionsKept == TypeInv /\ SessionInv /\ [Next]_vars => SessionInv'
<1> SUFFICES ASSUME TypeInv, SessionInv, [Next]_vars PROVE SessionInv'
  OBVIOUS
<1> USE DEF account, history
<1>0. \A links : Idle.stop \notin WillSign
  BY DEF Idle, WillSign
<1>1. ASSUME NEW h \in Handlers, NEW op \in {"login", "change"}, RightPassword(h, op)
      PROVE  SessionInv'
  <2> DEFINE stop == IF op = "change" THEN "set" ELSE "gate"
             w == [Idle EXCEPT !.op = op, !.password = password, !.stop = stop]
  <2>1. at' = [at EXCEPT ![h] = w] /\ password \in 0 .. MaxPassword /\ at[h] = Idle
    BY <1>1, InParts DEF RightPassword, Rest, Resting
  <2>2. w.password = password /\ ~At(h, "revoke") /\ ~(password < password)
    BY <2>1, Idles DEF Work, At, Idle
  <2> HIDE DEF w
  <2> QED
    BY <1>1, <2>1, <2>2, SessionsStay DEF RightPassword
<1>2. ASSUME NEW h \in Handlers, EmailGate(h) \/ SignupThrottle(h) PROVE SessionInv'
  <2>1. UNCHANGED <<password, sessions, broken>> /\ ~At(h, "revoke")
    BY <1>2 DEF EmailGate, SignupThrottle, At, Resting, Idle
  <2>2. CASE Ends(h)
    BY <2>1, <2>2, <1>0, SessionsStay DEF Ends
  <2>3. CASE Goes(h, "session") /\ At(h, "gate")
    <3>1. PICK w \in Work : /\ at' = [at EXCEPT ![h] = w]
                            /\ w.password = at[h].password /\ w.raced = at[h].raced
      BY <2>3, GoesOn DEF Stops
    <3> QED
      BY <2>1, <2>3, <3>1, SessionsStay DEF At, SessionInv, WillSign
  <2>4. CASE UNCHANGED at
    BY <2>1, <2>4, SessionsRest
  <2>5. CASE Starts(h, "signup", "create")
    <3> DEFINE w == [Idle EXCEPT !.op = "signup", !.stop = "create"]
    <3>1. w.stop = "create" /\ at' = [at EXCEPT ![h] = w]
      BY <2>5, Idles DEF Work, Starts
    <3> HIDE DEF w
    <3> QED
      BY <2>1, <3>1, SessionsStay DEF WillSign
  <2> QED
    BY <1>2, <2>2, <2>3, <2>4, <2>5 DEF EmailGate, SignupThrottle
<1>3. ASSUME NEW h \in Handlers, CreateSession(h) PROVE SessionInv'
  <2>1. at' = [at EXCEPT ![h] = Idle] /\ at[h].stop = "session" /\ UNCHANGED <<password, broken>>
    BY <1>3 DEF CreateSession, Ends, At
  <2>2. at'[h] = Idle /\ \A g \in Handlers \ {h} : at'[g] = at[g]
    BY <2>1, InParts
  <2>3. Excused => Excused'
    BY <2>1, <2>2 DEF Excused, At
  <2>4. at[h].password < password => at[h].raced \/ Excused'
    BY <2>1, <2>3 DEF SessionInv, WillSign
  <2>5. \A s \in sessions' : s.password < password' => s.raced \/ Excused'
    BY <1>3, <2>1, <2>3, <2>4 DEF CreateSession, SessionInv
  <2> QED
    BY <1>0, <2>1, <2>2, <2>3, <2>5 DEF SessionInv
<1>4. ASSUME NEW h \in Handlers, SetPassword(h) PROVE SessionInv'
  <2>1. CASE Ends(h) /\ UNCHANGED password
    BY <1>4, <2>1, <1>0, SessionsStay DEF SetPassword, Ends, At
  <2>2. CASE Goes(h, "revoke")
    <3>1. PICK w \in Work : at' = [at EXCEPT ![h] = w] /\ w.stop = "revoke"
      BY <2>2, GoesOn DEF Stops
    <3>2. at'[h].stop = "revoke"
      BY <3>1, InParts
    <3>3. Excused'
      BY <3>2 DEF Excused, At
    <3> QED
      BY <3>3 DEF SessionInv
  <2> QED
    BY <1>4, <2>1, <2>2 DEF SetPassword
<1>5. ASSUME NEW h \in Handlers, RevokeSessions(h) PROVE SessionInv'
  <2>1. sessions' = {} /\ at' = [g \in Handlers |->
           IF g = h THEN Idle
           ELSE IF at[g].stop \in {"gate", "token", "session"} THEN [at[g] EXCEPT !.raced = TRUE]
           ELSE at[g]]
    BY <1>5 DEF RevokeSessions
  <2>2. ASSUME NEW g \in Handlers, at'[g].stop \in WillSign PROVE at'[g].raced
    <3>1. at[g] \in Work /\ g # h
      BY <1>0, <2>1, <2>2, InParts
    <3>2. CASE at[g].stop \in {"gate", "token", "session"}
      BY <2>1, <3>1, <3>2 DEF Work
    <3>3. CASE at[g].stop \notin {"gate", "token", "session"}
      BY <2>1, <2>2, <3>1, <3>3 DEF WillSign
    <3> QED
      BY <3>2, <3>3
  <2> QED
    BY <2>1, <2>2 DEF SessionInv
<1>6. ASSUME NEW h \in Handlers, CreateUser(h) PROVE SessionInv'
  <2>1. CASE password > 0
    BY <1>6, <2>1, <1>0, SessionsStay DEF CreateUser, Ends, At
  <2>2. CASE ~(password > 0)
    <3>1. password' = 1 /\ UNCHANGED sessions /\ at' = [at EXCEPT ![h].stop = "token", ![h].password = 1]
      BY <1>6, <2>2 DEF CreateUser
    <3>2. \A s \in sessions' : ~(s.password < password')
      BY <3>1, InParts DEF Rest
    <3>3. \A g \in Handlers : at[g].stop \in WillSign => ~(at[g].password < 1)
      BY InParts DEF Good, Work
    <3>4. at'[h].password = 1 /\ \A g \in Handlers \ {h} : at'[g] = at[g]
      BY <3>1, InParts DEF Work
    <3>5. ASSUME NEW g \in Handlers, at'[g].stop \in WillSign PROVE ~(at'[g].password < password')
      <4>1. CASE g = h
        BY <3>1, <3>4, <4>1
      <4>2. CASE g # h
        BY <3>1, <3>3, <3>4, <3>5, <4>2
      <4> QED
        BY <4>1, <4>2
    <3> QED
      BY <3>2, <3>5 DEF SessionInv
  <2> QED
    BY <2>1, <2>2
<1>7. ASSUME NEW h \in Handlers, NEW t \in Links, SignupLink(h, t) PROVE SessionInv'
  <2>1. Goes(h, "session") /\ At(h, "token") /\ UNCHANGED <<password, sessions, broken>>
    BY <1>7 DEF SignupLink
  <2>2. PICK w \in Work : /\ at' = [at EXCEPT ![h] = w]
                          /\ w.password = at[h].password /\ w.raced = at[h].raced
    BY <2>1, GoesOn DEF Stops
  <2> QED
    BY <2>1, <2>2, SessionsStay DEF At, SessionInv, WillSign
<1>8. ASSUME NEW h \in Handlers, NEW op \in {"email_verify", "password_reset"}, NEW t \in Links,
             LookAt(h, op, t)
      PROVE  SessionInv'
  <2> DEFINE w == [Idle EXCEPT !.op = op, !.stop = "mark", !.link = t]
  <2>1. at' = [at EXCEPT ![h] = w] /\ w.stop = "mark" /\ ~At(h, "revoke")
    BY <1>8, Idles DEF LookAt, Work, Resting, At, Idle
  <2> HIDE DEF w
  <2> QED
    BY <1>8, <2>1, SessionsStay DEF LookAt, WillSign
<1>9. ASSUME NEW h \in Handlers, MarkUsed(h) PROVE SessionInv'
  <2> DEFINE w == [at[h] EXCEPT !.link = NoLink,
                                !.stop = IF at[h].op = "email_verify" THEN "email" ELSE "set"]
  <2>1. at' = [at EXCEPT ![h] = w] /\ ~At(h, "revoke") /\ at[h] \in Work
    BY <1>9, InParts DEF MarkUsed, At
  <2>2. w.stop \in {"email", "set"}
    BY <2>1 DEF Work
  <2> HIDE DEF w
  <2> QED
    BY <1>9, <2>1, <2>2, SessionsStay DEF MarkUsed, WillSign
<1>10. ASSUME NEW h \in Handlers, MarkEmailVerified(h) PROVE SessionInv'
  BY <1>0, <1>10, SessionsStay DEF MarkEmailVerified, Ends, At
<1>11. ASSUME NEW h \in Handlers, BreakOff(h) PROVE SessionInv'
  <2>1. CASE At(h, "revoke")
    BY <1>11, <2>1 DEF BreakOff, SessionInv, Excused, At
  <2>2. CASE ~At(h, "revoke")
    BY <1>0, <1>11, <2>2, SessionsStay DEF BreakOff, Ends
  <2> QED
    BY <2>1, <2>2
<1>12. ASSUME \/ ThrottleExpires \/ UNCHANGED vars \/ \E s \in sessions : DestroySession(s)
              \/ \E t \in Links : ResendVerification(t) \/ ForgotPassword(t) \/ LinkExpires(t)
       PROVE  SessionInv'
  BY <1>12, SessionsRest DEF ThrottleExpires, DestroySession, ResendVerification, ForgotPassword,
       LinkExpires, vars
<1> QED
  BY <1>1, <1>2, <1>3, <1>4, <1>5, <1>6, <1>7, <1>8, <1>9, <1>10, <1>11, <1>12
  DEF Next, Requests, Proceed

\* After a change of the password a session made with an older one is left only while the
\* change is under way, if its revocation broke off, or if the revocation overtook the
\* request that made the session.
THEOREM NoOldSessions == Spec => []OldSessionsRevoked
<1>1. Init => SessionInv
  BY DEF Init, SessionInv, Idle, WillSign
<1>2. SessionInv => OldSessionsRevoked
  BY DEF SessionInv, Excused, OldSessionsRevoked
<1> QED
  BY <1>1, <1>2, TypeCorrect, SessionsKept, PTL DEF Spec

-----------------------------------------------------------------------------
(* The way in of an account that is not verified. *)

\* A step after which no verification link is gone, of a handler that makes or has none.
LEMMA WayInStays ==
  ASSUME TypeInv, WayIn, NEW h \in Handlers, NEW w, at' = [at EXCEPT ![h] = w],
         at[h].stop \notin {"token", "email"},
         UNCHANGED <<password, verified, lapsed, mishaps>>,
         \A t \in Links : link[t] = "email_verify" => link'[t] = "email_verify"
  PROVE  WayIn'
<1>1. \A g \in Handlers \ {h} : at'[g] = at[g]
  BY InParts
<1> QED
  BY <1>1 DEF WayIn

LEMMA WayInRests ==
  ASSUME WayIn, UNCHANGED <<at, password, verified, lapsed, mishaps>>,
         \A t \in Links : link[t] = "email_verify" => link'[t] = "email_verify"
  PROVE  WayIn'
BY DEF WayIn

\* Before the account exists there is nothing but its signups.
Before ==
  password = 0 => /\ sessions = {} /\ \A t \in Links : link[t] = "none"
                  /\ \A h \in Handlers : at[h].stop \in {"idle", "create"}

LEMMA BeforeKept == TypeInv /\ Before /\ [Next]_vars => Before'
<1> SUFFICES ASSUME TypeInv, Before, [Next]_vars, password' = 0 PROVE Before'
  BY DEF Before
<1> USE DEF account, history
<1>1. password = 0
  <2>1. ASSUME NEW h \in Handlers, Proceed(h) PROVE password' \in {password, password + 1, 1}
    BY <2>1 DEF Proceed, EmailGate, CreateSession, SetPassword, RevokeSessions, CreateUser,
       MarkUsed, MarkEmailVerified, SignupLink
  <2>2. ASSUME NEW h \in Handlers, Requests(h) \/ BreakOff(h) PROVE password' = password
    BY <2>2 DEF Requests, SignupThrottle, RightPassword, LookAt, BreakOff
  <2>3. CASE \/ ThrottleExpires \/ UNCHANGED vars \/ \E s \in sessions : DestroySession(s)
            \/ \E t \in Links : ResendVerification(t) \/ ForgotPassword(t) \/ LinkExpires(t)
    BY <2>3 DEF ThrottleExpires, DestroySession, ResendVerification, ForgotPassword,
       LinkExpires, vars
  <2>4. password' \in {password, password + 1, 1}
    BY <2>1, <2>2, <2>3 DEF Next
  <2> QED
    BY <2>4, InParts DEF Rest
<1>2. /\ sessions = {} /\ \A t \in Links : link[t] = "none"
      /\ \A h \in Handlers : at[h].stop \in {"idle", "create"}
  BY <1>1 DEF Before
<1>3. ASSUME NEW h \in Handlers, SignupThrottle(h) \/ CreateUser(h) \/ BreakOff(h) PROVE Before'
  <2>1. UNCHANGED <<sessions, link>>
    BY <1>3 DEF SignupThrottle, CreateUser, BreakOff
  <2>2. UNCHANGED at \/ Ends(h) \/ Starts(h, "signup", "create")
    BY <1>1, <1>3 DEF SignupThrottle, CreateUser, BreakOff
  <2>3. Idle.stop = "idle" /\ [Idle EXCEPT !.op = "signup", !.stop = "create"].stop = "create"
    BY Idles DEF Work, Idle
  <2>4. \A g \in Handlers : at'[g].stop \in {"idle", "create"}
    BY <1>2, <2>2, <2>3, InParts DEF Ends, Starts
  <2> QED
    BY <1>2, <2>1, <2>4 DEF Before
<1>4. ASSUME NEW h \in Handlers,
             \/ EmailGate(h) \/ CreateSession(h) \/ SetPassword(h) \/ RevokeSessions(h)
             \/ MarkUsed(h) \/ MarkEmailVerified(h)
             \/ \E t \in Links : SignupLink(h, t)
      PROVE  FALSE
  BY <1>2, <1>4 DEF EmailGate, CreateSession, SetPassword, RevokeSessions, MarkUsed,
       MarkEmailVerified, SignupLink, At
<1>5. ASSUME NEW h \in Handlers,
             \/ \E op \in {"login", "change"} : RightPassword(h, op)
             \/ \E op \in {"email_verify", "password_reset"}, t \in Links : LookAt(h, op, t)
      PROVE  FALSE
  <2>1. ASSUME NEW op, RightPassword(h, op) PROVE FALSE
    BY <1>1, <2>1 DEF RightPassword
  <2>2. ASSUME NEW op \in {"email_verify", "password_reset"}, NEW t \in Links, LookAt(h, op, t)
        PROVE  FALSE
    BY <1>2, <2>2 DEF LookAt
  <2> QED
    BY <1>5, <2>1, <2>2
<1>6. ASSUME NEW t \in Links, ResendVerification(t) \/ ForgotPassword(t) \/ LinkExpires(t) PROVE FALSE
  BY <1>1, <1>2, <1>6 DEF ResendVerification, ForgotPassword, LinkExpires
<1>7. CASE ThrottleExpires \/ UNCHANGED vars \/ \E s \in sessions : DestroySession(s)
  BY <1>2, <1>7 DEF ThrottleExpires, DestroySession, vars, Before
<1> QED
  BY <1>3, <1>4, <1>5, <1>6, <1>7 DEF Next, Requests, Proceed

LEMMA WayInKept == TypeInv /\ Before /\ WayIn /\ [Next]_vars => WayIn'
<1> SUFFICES ASSUME TypeInv, Before, WayIn, [Next]_vars PROVE WayIn'
  OBVIOUS
<1> USE DEF account, history
<1>0. Idle.stop = "idle"
  BY DEF Idle
<1>1. ASSUME NEW h \in Handlers, NEW op \in {"login", "change"}, RightPassword(h, op)
      PROVE  WayIn'
  BY <1>0, <1>1, WayInStays DEF RightPassword, Resting
<1>2. ASSUME NEW h \in Handlers, EmailGate(h) \/ CreateSession(h) PROVE WayIn'
  <2>1. at[h].stop \in {"gate", "session"} /\ UNCHANGED <<password, verified, link, lapsed, mishaps>>
    BY <1>2 DEF EmailGate, CreateSession, At
  <2>2. CASE Ends(h)
    BY <2>1, <2>2, WayInStays DEF Ends
  <2>3. CASE Goes(h, "session")
    BY <2>1, <2>3, GoesOn, WayInStays DEF Stops
  <2> QED
    BY <1>2, <2>2, <2>3 DEF EmailGate, CreateSession
<1>3. ASSUME NEW h \in Handlers, SetPassword(h) PROVE WayIn'
  <2>1. /\ at[h].stop = "set" /\ UNCHANGED <<verified, link, lapsed, mishaps>>
        /\ password' > 0 => password > 0 \/ password' = password + 1
    BY <1>3 DEF SetPassword, At
  <2>2. PICK w : at' = [at EXCEPT ![h] = w]
    BY <1>3, GoesOn DEF SetPassword, Ends, Stops
  <2>3. \A g \in Handlers \ {h} : at'[g] = at[g]
    BY <2>2, InParts
  <2>4. password > 0
    BY <2>1, InParts DEF Before, Rest
  <2> QED
    BY <2>1, <2>3, <2>4 DEF WayIn
<1>4. ASSUME NEW h \in Handlers, RevokeSessions(h) PROVE WayIn'
  <2>1. at[h].stop = "revoke" /\ UNCHANGED <<password, verified, link, lapsed, mishaps>>
    BY <1>4 DEF RevokeSessions, At
  <2>2. ASSUME NEW g \in Handlers, g # h PROVE at'[g].stop = at[g].stop
    <3>1. at[g] \in Work
      BY InParts
    <3>2. at'[g] = IF at[g].stop \in {"gate", "token", "session"}
                   THEN [at[g] EXCEPT !.raced = TRUE] ELSE at[g]
      BY <1>4, <2>2 DEF RevokeSessions
    <3> QED
      BY <3>1, <3>2 DEF Work
  <2> QED
    BY <2>1, <2>2 DEF WayIn
<1>5. ASSUME NEW h \in Handlers, SignupThrottle(h) PROVE WayIn'
  <2>1. at[h].stop = "idle" /\ UNCHANGED <<password, verified, link, lapsed, mishaps>>
    BY <1>0, <1>5 DEF SignupThrottle, Resting
  <2>2. CASE UNCHANGED at
    BY <2>1, <2>2, WayInRests
  <2>3. CASE Starts(h, "signup", "create")
    BY <2>1, <2>3, WayInStays DEF Starts
  <2> QED
    BY <1>5, <2>2, <2>3 DEF SignupThrottle
<1>6. ASSUME NEW h \in Handlers, CreateUser(h) PROVE WayIn'
  <2>1. at[h].stop = "create" /\ UNCHANGED <<verified, link, lapsed, mishaps>>
    BY <1>6 DEF CreateUser, At
  <2>2. CASE Ends(h) /\ UNCHANGED password
    BY <2>1, <2>2, WayInStays DEF Ends
  <2>3. CASE at' = [at EXCEPT ![h].stop = "token", ![h].password = 1]
    <3>1. at[h] \in Work /\ at \in [Handlers -> Work]
      BY InParts
    <3>2. at'[h].stop = "token"
      BY <2>3, <3>1 DEF Work
    <3> QED
      BY <3>2 DEF WayIn
  <2> QED
    BY <1>6, <2>2, <2>3 DEF CreateUser
<1>7. ASSUME NEW h \in Handlers, NEW t \in Links, SignupLink(h, t) PROVE WayIn'
  <2>1. link'[t] = "email_verify"
    BY <1>7, InParts DEF SignupLink, Mints, Rest
  <2> QED
    BY <2>1 DEF WayIn
<1>8. ASSUME NEW h \in Handlers, NEW op \in {"email_verify", "password_reset"}, NEW t \in Links,
             LookAt(h, op, t)
      PROVE  WayIn'
  BY <1>0, <1>8, WayInStays DEF LookAt, Resting
<1>9. ASSUME NEW h \in Handlers, MarkUsed(h) PROVE WayIn'
  <2> DEFINE w == [at[h] EXCEPT !.link = NoLink,
                                !.stop = IF at[h].op = "email_verify" THEN "email" ELSE "set"]
  <2>1. /\ at' = [at EXCEPT ![h] = w] /\ at[h] \in Work /\ at[h].stop = "mark"
        /\ UNCHANGED <<password, verified, lapsed, mishaps>>
        /\ link' = [link EXCEPT ![at[h].link] = "none"]
    BY <1>9, InParts DEF MarkUsed, At
  <2>2. CASE at[h].op = "email_verify"
    <3>1. w.stop = "email"
      BY <2>1, <2>2 DEF Work
    <3>2. at'[h] = w
      BY <2>1, InParts
    <3> QED
      BY <3>1, <3>2 DEF WayIn
  <2>3. CASE at[h].op # "email_verify"
    <3>1. link[at[h].link] # "email_verify"
      BY <2>1, <2>3, InParts DEF Good
    <3>2. \A t \in Links : link[t] = "email_verify" => link'[t] = "email_verify"
      BY <2>1, <3>1, InParts DEF Rest
    <3> HIDE DEF w
    <3> QED
      BY <2>1, <3>2, WayInStays
  <2> QED
    BY <2>2, <2>3
<1>10. ASSUME NEW h \in Handlers, MarkEmailVerified(h) PROVE WayIn'
  BY <1>10 DEF MarkEmailVerified, WayIn
<1>11. ASSUME NEW h \in Handlers, BreakOff(h) PROVE WayIn'
  <2>1. mishaps' # 0
    BY <1>11, InParts DEF BreakOff, Rest
  <2> QED
    BY <2>1 DEF WayIn
<1>12. ASSUME NEW t \in Links, ResendVerification(t) \/ ForgotPassword(t) PROVE WayIn'
  <2>1. \A u \in Links : link[u] = "email_verify" => link'[u] = "email_verify"
    BY <1>12, InParts DEF ResendVerification, ForgotPassword, Mints, Rest
  <2> QED
    BY <1>12, <2>1, WayInRests DEF ResendVerification, ForgotPassword
<1>13. ASSUME NEW t \in Links, LinkExpires(t) PROVE WayIn'
  <2>1. CASE link[t] = "email_verify"
    BY <1>13, <2>1 DEF LinkExpires, WayIn
  <2>2. CASE link[t] # "email_verify"
    <3>1. \A u \in Links : link[u] = "email_verify" => link'[u] = "email_verify"
      BY <1>13, <2>2, InParts DEF LinkExpires, Rest
    <3>2. lapsed' = lapsed
      BY <1>13, <2>2, InParts DEF LinkExpires, Rest
    <3> QED
      BY <1>13, <3>1, <3>2, WayInRests DEF LinkExpires
  <2> QED
    BY <2>1, <2>2
<1>14. CASE ThrottleExpires \/ UNCHANGED vars \/ \E s \in sessions : DestroySession(s)
  BY <1>14, WayInRests DEF ThrottleExpires, DestroySession, vars
<1> QED
  BY <1>1, <1>2, <1>3, <1>4, <1>5, <1>6, <1>7, <1>8, <1>9, <1>10, <1>11, <1>12, <1>13, <1>14
  DEF Next, Requests, Proceed

\* An unverified account has a verification link that works, until one expires or a
\* handler breaks off.
THEOREM AWayIn == Spec => []WayIn
<1>1. Init => WayIn /\ Before
  BY DEF Init, WayIn, Before, Idle
<1> QED
  BY <1>1, TypeCorrect, BeforeKept, WayInKept, PTL DEF Spec
==============================================================================
