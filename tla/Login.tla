-------------------------------- MODULE Login --------------------------------
(***************************************************************************)
(* What stands between a password and a session of one account: the        *)
(* lockout after failed passwords (verifyPassword, auth/auth.service.ts)   *)
(* and the second factor (auth/mfa.service.ts), which the account's owner  *)
(* enrols, confirms and disables in other tabs meanwhile.                  *)
(***************************************************************************)
EXTENDS Integers, FiniteSets

CONSTANTS
  Handlers,
  MaxFails,        \* failed passwords before the lockout (5)
  RecoveryCodes,   \* the codes one confirmation returns (8)
  MaxSecret,       \* bound of the enrolments
  MaxMishaps       \* bound of the handlers that break off

ASSUME ConstantsOK ==
  /\ IsFiniteSet(Handlers)
  /\ MaxFails \in Nat \ {0} /\ MaxSecret \in Nat /\ MaxMishaps \in Nat

VARIABLES
  fails,     \* lockout:<email>, 0 when the key is not there
  ttl,       \* whether that key has an expiry
  secret,    \* the number of users.totp_secret_enc, 0 for NULL
  enabled,   \* users.totp_enabled
  recovery,  \* the codes whose joined list totp_recovery_hash is of, {} for NULL
  phone,     \* the secret the owner scanned last
  paper,     \* the recovery codes the owner was given and has not used
  at,        \* handler -> what it is doing
  tries,     \* history: wrong passwords compared since the key was last cleared
  refused,   \* history: the codes of the paper that were not accepted
  broken,    \* history: the stops at which handlers broke off
  mishaps

lock    == <<fails, ttl, tries>>
factor  == <<secret, enabled, recovery, phone, paper, refused>>
history == <<broken, mishaps>>
vars    == <<lock, factor, at, history>>

Stops == {"idle", "compare", "count", "expire", "factor", "session", "begin", "enable", "disable"}
\* What a handler keeps: whether the factor was on when its request came, and
\* whether it has been shown the factor.
Idle == [stop |-> "idle", met |-> FALSE, shown |-> FALSE]

Resting(h) == at[h] = Idle
At(h, stop) == at[h].stop = stop
Goes(h, stop) == at' = [at EXCEPT ![h].stop = stop]
Starts(h, stop) == at' = [at EXCEPT ![h] = [Idle EXCEPT !.stop = stop, !.met = enabled]]
Ends(h) == at' = [at EXCEPT ![h] = Idle]
Counting == {h \in Handlers : At(h, "count")}

Init ==
  /\ fails = 0 /\ ttl = FALSE /\ tries = 0
  /\ secret = 0 /\ enabled = FALSE /\ recovery = {}
  /\ phone = 0 /\ paper = {} /\ refused = {}
  /\ at = [h \in Handlers |-> Idle]
  /\ broken = {} /\ mishaps = 0

-----------------------------------------------------------------------------
(* The password and the lockout. *)

\* (slip: the lockout is not looked at)
CheckUnlocked(h) ==
  /\ Resting(h)
  /\ tries < MaxFails + Cardinality(Handlers) + MaxMishaps
  /\ Starts(h, "compare")
  /\ UNCHANGED <<lock, factor, history>>

\* login and changePassword both begin in verifyPassword: the counter is read.
Check(h) ==
  /\ Resting(h)
  /\ fails < MaxFails
  /\ Starts(h, "compare")
  /\ UNCHANGED <<lock, factor, history>>

\* The key is gone; a failure still to be counted will make it again.
Clear == fails' = 0 /\ ttl' = FALSE /\ tries' = Cardinality(Counting)

RightPassword(h) ==
  /\ At(h, "compare")
  /\ Clear
  /\ Goes(h, "factor") \/ Ends(h)   \* an account that is not verified stops here
  /\ UNCHANGED <<factor, history>>

WrongPassword(h) ==
  /\ At(h, "compare")
  /\ tries' = tries + 1
  /\ Goes(h, "count")
  /\ UNCHANGED <<fails, ttl, factor, history>>

\* (slip: the first failure sets no expiry)
RecordFailForever(h) ==
  /\ At(h, "count")
  /\ fails' = fails + 1
  /\ Ends(h)
  /\ UNCHANGED <<ttl, tries, factor, history>>

RecordFail(h) ==
  /\ At(h, "count")
  /\ fails' = fails + 1
  /\ IF fails' = 1 THEN Goes(h, "expire") ELSE Ends(h)
  /\ UNCHANGED <<ttl, tries, factor, history>>

SetExpiry(h) ==
  /\ At(h, "expire")
  /\ ttl' = (fails > 0)
  /\ Ends(h)
  /\ UNCHANGED <<fails, tries, factor, history>>

LockoutExpires ==
  /\ ttl
  /\ Clear
  /\ UNCHANGED <<factor, at, history>>

-----------------------------------------------------------------------------
(* The second factor. *)

\* A code of the authenticator is right if it has the secret that is stored.
CodeMatches == secret # 0 /\ phone = secret

\* A recovery code is hashed alone and compared with the hash of the joined list.
RecoveryMatches(code) == recovery = {code}

\* Login: not asked for, or a code of the authenticator, or one of the paper.
NotAsked(h) ==
  /\ At(h, "factor")
  /\ ~enabled
  /\ Goes(h, "session")
  /\ UNCHANGED <<lock, factor, history>>

ShowCode(h) ==
  /\ At(h, "factor")
  /\ enabled
  /\ \/ CodeMatches /\ at' = [at EXCEPT ![h].stop = "session", ![h].shown = TRUE]
     \/ Ends(h)   \* a wrong code, or none
  /\ UNCHANGED <<lock, factor, history>>

ShowRecovery(h, code) ==
  /\ At(h, "factor")
  /\ enabled /\ code \in paper
  /\ IF RecoveryMatches(code)
     THEN /\ at' = [at EXCEPT ![h].stop = "session", ![h].shown = TRUE]
          /\ recovery' = {} /\ paper' = paper \ {code}
          /\ UNCHANGED refused
     ELSE Ends(h) /\ refused' = refused \cup {code} /\ UNCHANGED <<recovery, paper>>
  /\ UNCHANGED <<lock, secret, enabled, phone, history>>

SessionMade(h) ==
  /\ At(h, "session")
  /\ Ends(h)
  /\ UNCHANGED <<lock, factor, history>>

\* (slip: an enrolment does not ask whether the factor is on)
EnrollAnyway(h) ==
  /\ Resting(h)
  /\ Starts(h, "begin")
  /\ UNCHANGED <<lock, factor, history>>

\* mfaEnroll: a look first, then a new secret, which turns the factor off.
Enroll(h) ==
  /\ Resting(h)
  /\ ~enabled
  /\ Starts(h, "begin")
  /\ UNCHANGED <<lock, factor, history>>

BeginEnrollment(h) ==
  /\ At(h, "begin") /\ phone < MaxSecret /\ secret < MaxSecret
  /\ secret' = IF phone > secret THEN phone + 1 ELSE secret + 1
  /\ enabled' = FALSE
  /\ phone' \in {phone, secret'}   \* the owner scans it, or not
  /\ Ends(h)
  /\ UNCHANGED <<lock, recovery, paper, refused, history>>

Confirm(h) ==
  /\ Resting(h)
  /\ CodeMatches
  /\ Starts(h, "enable")
  /\ UNCHANGED <<lock, factor, history>>

ConfirmEnrollment(h) ==
  /\ At(h, "enable")
  /\ enabled' = TRUE
  /\ recovery' = RecoveryCodes /\ paper' = RecoveryCodes
  /\ Ends(h)
  /\ UNCHANGED <<lock, secret, phone, refused, history>>

\* mfaDisable wants the factor like a login, and nothing when it is off.
Disable(h) ==
  /\ Resting(h)
  /\ enabled => CodeMatches \/ \E code \in paper : RecoveryMatches(code)
  /\ at' = [at EXCEPT ![h] = [stop |-> "disable", met |-> enabled, shown |-> enabled]]
  /\ UNCHANGED <<lock, factor, history>>

TurnOff(h) ==
  /\ At(h, "disable")
  /\ enabled' = FALSE /\ secret' = 0 /\ recovery' = {}
  /\ Ends(h)
  /\ UNCHANGED <<lock, phone, paper, refused, history>>

BreakOff(h) ==  \* a statement raises, or the process dies
  /\ ~Resting(h)
  /\ mishaps < MaxMishaps
  /\ mishaps' = mishaps + 1
  /\ broken' = broken \cup {at[h].stop}
  /\ Ends(h)
  /\ UNCHANGED <<lock, factor>>

-----------------------------------------------------------------------------

Proceed(h) ==
  \/ RightPassword(h) \/ WrongPassword(h) \/ RecordFail(h) \/ SetExpiry(h)
  \/ NotAsked(h) \/ ShowCode(h) \/ SessionMade(h)
  \/ \E code \in RecoveryCodes : ShowRecovery(h, code)
  \/ BeginEnrollment(h) \/ ConfirmEnrollment(h) \/ TurnOff(h)

Requests(h) == Check(h) \/ Enroll(h) \/ Confirm(h) \/ Disable(h)

Next ==
  \/ \E h \in Handlers : Requests(h) \/ Proceed(h) \/ BreakOff(h)
  \/ LockoutExpires

Spec == Init /\ [][Next]_vars

\* Valkey expires a key, and a statement is answered.
FairSpec == Spec /\ WF_vars(LockoutExpires) /\ \A h \in Handlers : WF_vars(Proceed(h))

-----------------------------------------------------------------------------
(* What must hold. *)

\* Types; a key that is not there has no expiry.
TypeOK ==
  /\ fails \in Nat /\ ttl \in BOOLEAN /\ tries \in Nat
  /\ ttl => fails > 0
  /\ secret \in 0 .. MaxSecret /\ phone \in 0 .. MaxSecret /\ enabled \in BOOLEAN
  /\ recovery \in {{}, RecoveryCodes}
  /\ paper \subseteq RecoveryCodes /\ refused \subseteq RecoveryCodes
  /\ at \in [Handlers -> [stop : Stops, met : BOOLEAN, shown : BOOLEAN]]
  /\ broken \subseteq Stops /\ mishaps \in 0 .. MaxMishaps

\* Parallel attempts get a few passwords past the lockout, but no more than one
\* for each further handler and for each that breaks off before it has counted.
TriesBounded == tries <= MaxFails - 1 + Cardinality(Handlers) + mishaps

\* A second factor that is on is turned off only by a request that was shown it
\* or that came while it was off and was overtaken by its confirmation.
FactorKept ==
  [][enabled /\ ~enabled' =>
       \E h \in Handlers : at[h].stop \in {"begin", "disable"} /\ (at[h].met => at[h].shown)]_vars

\* A locked account opens again, unless the handler of the first failure breaks
\* off between the counter and its expiry.
LockOpens ==
  []("expire" \notin broken) => (fails >= MaxFails ~> fails = 0)
==============================================================================
