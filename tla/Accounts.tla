------------------------------ MODULE Accounts ------------------------------
(***************************************************************************)
(* One account (auth/auth.service.ts, auth.controller.ts): its password,   *)
(* sessions and one-time links.  What a login does before it creates its   *)
(* session, the lockout and the second factor, is the module Login.  The   *)
(* requests of the pages login, signup, verify-email, forgot- and          *)
(* reset-password run in handlers of several statements each.              *)
(***************************************************************************)
EXTENDS Integers, FiniteSets

CONSTANTS
  Handlers,
  Links, NoLink,   \* ids of auth_tokens rows
  MaxSignups,      \* signups for one address in an hour (2)
  MaxPassword,     \* bound of the passwords the account has one after the other
  MaxMishaps       \* bound of the handlers that break off

ASSUME ConstantsOK ==
  /\ IsFiniteSet(Handlers) /\ NoLink \notin Links
  /\ MaxSignups \in Nat /\ MaxPassword \in Nat \ {0} /\ MaxMishaps \in Nat

VARIABLES
  password,   \* the number of the account's password, 0 before the account exists
  verified,   \* users.email_verified
  sessions,   \* sessions rows: the password each was made with
  link,       \* auth_tokens: the kind of a row that can be used, else "none"
  signups,    \* signup:em:<email>
  at,         \* handler -> what it is doing
  lapsed,     \* history: whether a verification link has expired
  broken,     \* history: the stops at which handlers broke off
  mishaps

account == <<password, verified, sessions>>
history == <<lapsed, broken, mishaps>>
vars    == <<account, link, signups, at, history>>

Stops == {"idle", "gate", "session", "create", "token", "mark", "set", "revoke", "email"}
Ops   == {"none", "login", "change", "signup", "email_verify", "password_reset"}
Idle  == [stop |-> "idle", op |-> "none", password |-> 0, link |-> NoLink, raced |-> FALSE]

Resting(h) == at[h] = Idle
At(h, stop) == at[h].stop = stop
Goes(h, stop) == at' = [at EXCEPT ![h].stop = stop]
Starts(h, op, stop) == at' = [at EXCEPT ![h] = [Idle EXCEPT !.op = op, !.stop = stop]]
Ends(h) == at' = [at EXCEPT ![h] = Idle]

Init ==
  /\ password = 0 /\ verified = FALSE /\ sessions = {}
  /\ link = [t \in Links |-> "none"]
  /\ signups = 0
  /\ at = [h \in Handlers |-> Idle]
  /\ lapsed = FALSE /\ broken = {} /\ mishaps = 0

-----------------------------------------------------------------------------
(* Passwords and sessions. *)

\* login and changePassword begin with the account's password (module Login).
RightPassword(h, op) ==
  /\ Resting(h)
  /\ password > 0 /\ (op = "change" => sessions # {})
  /\ at' = [at EXCEPT ![h] = [Idle EXCEPT !.op = op, !.password = password,
                                          !.stop = IF op = "change" THEN "set" ELSE "gate"]]
  /\ UNCHANGED <<account, link, signups, history>>

\* An unverified account is refused; the second factor may be, too.
EmailGate(h) ==
  /\ At(h, "gate")
  /\ IF verified THEN Goes(h, "session") \/ Ends(h) ELSE Ends(h)
  /\ UNCHANGED <<account, link, signups, history>>

CreateSession(h) ==
  /\ At(h, "session")
  /\ sessions' = sessions \cup {[password |-> at[h].password, raced |-> at[h].raced]}
  /\ Ends(h)
  /\ UNCHANGED <<password, verified, link, signups, history>>

DestroySession(s) ==  \* logout, or the session's end
  /\ sessions' = sessions \ {s}
  /\ UNCHANGED <<password, verified, link, signups, at, history>>

\* setPassword: a short password is refused, with the link already spent.
SetPassword(h) ==
  /\ At(h, "set")
  /\ \/ /\ password < MaxPassword
        /\ password' = password + 1
        /\ Goes(h, "revoke")
     \/ Ends(h) /\ UNCHANGED password
  /\ UNCHANGED <<verified, sessions, link, signups, history>>

\* (slip: the session that asked for the change is kept)
RevokeOthers(h) ==
  /\ At(h, "revoke")
  /\ \E kept \in SUBSET sessions : Cardinality(kept) <= 1 /\ sessions' = kept
  /\ Ends(h)
  /\ UNCHANGED <<password, verified, link, signups, history>>

\* The DELETE, which a handler that will yet insert a session outruns.
RevokeSessions(h) ==
  /\ At(h, "revoke")
  /\ sessions' = {}
  /\ at' = [g \in Handlers |->
       IF g = h THEN Idle
       ELSE IF at[g].stop \in {"gate", "token", "session"} THEN [at[g] EXCEPT !.raced = TRUE]
       ELSE at[g]]
  /\ UNCHANGED <<password, verified, link, signups, history>>

-----------------------------------------------------------------------------
(* Signup and one-time links. *)

\* Both counters go up before they are compared, by refused signups as well.
SignupThrottle(h) ==
  /\ Resting(h)
  /\ signups' = IF signups > MaxSignups THEN signups ELSE signups + 1
  /\ IF signups' <= MaxSignups THEN Starts(h, "signup", "create") ELSE UNCHANGED at
  /\ UNCHANGED <<account, link, history>>

ThrottleExpires ==
  /\ signups > 0
  /\ signups' = 0
  /\ UNCHANGED <<account, link, at, history>>

CreateUser(h) ==  \* the address is unique: a second signup ends here
  /\ At(h, "create")
  /\ IF password > 0 THEN Ends(h) /\ UNCHANGED password
     ELSE /\ password' = 1
          /\ at' = [at EXCEPT ![h].stop = "token", ![h].password = 1]
  /\ UNCHANGED <<verified, sessions, link, signups, history>>

\* A used or expired row is as good as none, once no handler holds it.
Mints(t, kind) ==
  /\ link[t] = "none" /\ \A h \in Handlers : at[h].link # t
  /\ link' = [link EXCEPT ![t] = kind]

SignupLink(h, t) ==
  /\ At(h, "token")
  /\ Mints(t, "email_verify")
  /\ Goes(h, "session")
  /\ UNCHANGED <<account, signups, history>>

ResendVerification(t) ==
  /\ sessions # {} /\ ~verified
  /\ Mints(t, "email_verify")
  /\ UNCHANGED <<account, signups, at, history>>

ForgotPassword(t) ==
  /\ password > 0
  /\ Mints(t, "password_reset")
  /\ UNCHANGED <<account, signups, at, history>>

LinkExpires(t) ==
  /\ link[t] # "none"
  /\ link' = [link EXCEPT ![t] = "none"]
  /\ lapsed' = (lapsed \/ link[t] = "email_verify")
  /\ UNCHANGED <<account, signups, at, broken, mishaps>>

\* (slip: the kind of the link is not looked at)
LookAtAny(h, op, t) ==
  /\ Resting(h)
  /\ link[t] # "none"
  /\ at' = [at EXCEPT ![h] = [Idle EXCEPT !.op = op, !.stop = "mark", !.link = t]]
  /\ UNCHANGED <<account, link, signups, history>>

\* consumeAuthToken reads, then marks, with no condition on the row.
LookAt(h, op, t) ==
  /\ Resting(h)
  /\ link[t] = op
  /\ at' = [at EXCEPT ![h] = [Idle EXCEPT !.op = op, !.stop = "mark", !.link = t]]
  /\ UNCHANGED <<account, link, signups, history>>

MarkUsed(h) ==
  /\ At(h, "mark")
  /\ link' = [link EXCEPT ![at[h].link] = "none"]
  /\ at' = [at EXCEPT ![h].link = NoLink,
                      ![h].stop = IF at[h].op = "email_verify" THEN "email" ELSE "set"]
  /\ UNCHANGED <<account, signups, history>>

MarkEmailVerified(h) ==
  /\ At(h, "email")
  /\ verified' = TRUE
  /\ Ends(h)
  /\ UNCHANGED <<password, sessions, link, signups, history>>

BreakOff(h) ==  \* a statement raises, or the process dies
  /\ ~Resting(h)
  /\ mishaps < MaxMishaps
  /\ mishaps' = mishaps + 1
  /\ broken' = broken \cup {at[h].stop}
  /\ Ends(h)
  /\ UNCHANGED <<account, link, signups, lapsed>>

-----------------------------------------------------------------------------

Proceed(h) ==
  \/ EmailGate(h) \/ CreateSession(h) \/ SetPassword(h) \/ RevokeSessions(h)
  \/ CreateUser(h) \/ MarkUsed(h) \/ MarkEmailVerified(h)
  \/ \E t \in Links : SignupLink(h, t)

Requests(h) ==
  \/ SignupThrottle(h)
  \/ \E op \in {"login", "change"} : RightPassword(h, op)
  \/ \E op \in {"email_verify", "password_reset"}, t \in Links : LookAt(h, op, t)

Next ==
  \/ \E h \in Handlers : Requests(h) \/ Proceed(h) \/ BreakOff(h)
  \/ \E t \in Links : ResendVerification(t) \/ ForgotPassword(t) \/ LinkExpires(t)
  \/ \E s \in sessions : DestroySession(s)
  \/ ThrottleExpires

Spec == Init /\ [][Next]_vars

-----------------------------------------------------------------------------
(* What must hold. *)

\* Types; a handler holds a link only before it has spent it.
TypeOK ==
  /\ password \in 0 .. MaxPassword /\ verified \in BOOLEAN
  /\ sessions \subseteq [password : 1 .. MaxPassword, raced : BOOLEAN]
  /\ link \in [Links -> {"none", "email_verify", "password_reset"}]
  /\ signups \in 0 .. MaxSignups + 1
  /\ at \in [Handlers -> [stop : Stops, op : Ops, password : 0 .. MaxPassword,
                          link : Links \cup {NoLink}, raced : BOOLEAN]]
  /\ \A h \in Handlers : /\ At(h, "idle") => Resting(h)
                         /\ at[h].link # NoLink <=> At(h, "mark")
  /\ lapsed \in BOOLEAN /\ broken \subseteq Stops /\ mishaps \in 0 .. MaxMishaps

\* After a change of the password a session made with an older one is left only
\* while the change is under way, if its revocation broke off, or if the request
\* that made the session was overtaken by the revocation.
OldSessionsRevoked ==
  \A s \in sessions : s.password < password =>
    s.raced \/ "revoke" \in broken \/ \E h \in Handlers : At(h, "revoke")

\* An unverified account, which cannot sign in, has a verification link that
\* works, until one expires or a handler breaks off: no other request uses it up.
WayIn ==
  password > 0 /\ ~verified /\ ~lapsed /\ mishaps = 0 =>
    \/ \E t \in Links : link[t] = "email_verify"
    \/ \E h \in Handlers : at[h].stop \in {"token", "email"}
==============================================================================
