----------------------------- MODULE BackOffice ------------------------------
(***************************************************************************)
(* Handlers of the control plane behind the workbench: the token broker    *)
(* (oauth/internal-oauth.controller.ts), the arena (arena.controller.ts),  *)
(* the key the workbench calls the gateway with, the registry of provider  *)
(* accounts (admin/admin.service.ts) and the judge's policy                *)
(* (judge-admin.controller.ts).  A token, a battle or a secret is the call *)
(* that made it.                                                           *)
(***************************************************************************)
EXTENDS Calls

CONSTANT Accounts  \* the names an administrator gives accounts

VARIABLES
  cred,       \* the stored credential: its refresh token, an access token, the flag
  good,       \* the refresh token that the provider takes
  trouble,    \* history: a refresh met an error, or two refreshes overlapped
  battles,    \* Redis: the battles there are
  voted,      \* Redis: the battles marked as voted
  counted,    \* battle -> the vote the rank engine counted
  told,       \* history: the votes answered with ok
  crossed,    \* history: battles with two votes at once, or whose mark expired under a vote
  gatewayKey, \* app_settings: the key of the workbench
  minted,     \* client_api_keys: the keys made for it
  registry,   \* account -> what the registry has of it
  chain       \* app_settings: the accounts of the judge's policy

credential == <<cred, good, trouble>>
arena      == <<battles, voted, counted, told, crossed>>
keys       == <<gatewayKey, minted>>
admin      == <<registry, chain>>
officeVars == <<credential, arena, keys, admin>>

Absent == [stored |-> FALSE, secret |-> {}, model |-> "none"]
Stored == {a \in Accounts : registry[a].stored}

\* An access token that has expired; the workbench may have its key already.  A credential
\* that came without a refresh token is answered as it is, and left out.
OfficeInit ==
  /\ cred = [refresh |-> Seed, fresh |-> FALSE, flagged |-> FALSE]
  /\ good = Seed /\ trouble = FALSE
  /\ battles = {} /\ voted = {} /\ counted = [c \in Calls |-> {}] /\ told = {} /\ crossed = {}
  /\ gatewayKey \in {{}, {Seed}} /\ minted = gatewayKey
  /\ registry = [a \in Accounts |-> Absent] /\ chain = {}

-----------------------------------------------------------------------------
(* The token broker: what the gateway asks for an account's access token. *)

Refreshing(c) == UnderWay(c) /\ call[c].at \in {"refresh", "persist", "flag"}

AskToken(c) == Makes(c, "token", "credential", Seed, {}) /\ UNCHANGED officeVars

ReadCredential(c) ==
  /\ At(c, "credential")
  /\ IF cred.fresh \/ cred.flagged
     THEN Ends(c) /\ UNCHANGED trouble
     ELSE /\ GoesWith(c, "refresh", {cred.refresh})
          /\ trouble' = (trouble \/ \E d \in Calls : Refreshing(d))
  /\ UNCHANGED <<cred, good, arena, keys, admin>>

\* The provider answers with an access token, and with another refresh token or none.
Refresh(c) ==
  /\ At(c, "refresh") /\ good \in call[c].got
  /\ \E token \in {good, c} : good' = token /\ GoesWith(c, "persist", {token})
  /\ UNCHANGED <<cred, trouble, arena, keys, admin>>

Refused(c) ==
  /\ At(c, "refresh") /\ good \notin call[c].got
  /\ Goes(c, "flag")
  /\ UNCHANGED officeVars

\* The provider is not reached, or its answer is not, or is not an answer.
Unanswered(c) ==
  /\ At(c, "refresh")
  /\ Goes(c, "flag") /\ trouble' = TRUE
  /\ good' \in {good} \cup (IF good \in call[c].got THEN {c} ELSE {})
  /\ UNCHANGED <<cred, arena, keys, admin>>

\* (slip: the refresh token is stored once and for all)
PersistAccess(c) ==
  /\ At(c, "persist")
  /\ cred' = [cred EXCEPT !.fresh = TRUE, !.flagged = FALSE]
  /\ Ends(c)
  /\ UNCHANGED <<good, trouble, arena, keys, admin>>

Persist(c) ==
  /\ At(c, "persist")
  /\ \E token \in call[c].got : cred' = [refresh |-> token, fresh |-> TRUE, flagged |-> FALSE]
  /\ Ends(c)
  /\ UNCHANGED <<good, trouble, arena, keys, admin>>

PersistFails(c) ==
  /\ At(c, "persist")
  /\ Goes(c, "flag") /\ trouble' = TRUE
  /\ UNCHANGED <<cred, good, arena, keys, admin>>

FlagCredential(c) ==
  /\ At(c, "flag")
  /\ cred' = [cred EXCEPT !.flagged = TRUE]
  /\ Ends(c)
  /\ UNCHANGED <<good, trouble, arena, keys, admin>>

AccessExpires ==
  /\ cred.fresh
  /\ cred' = [cred EXCEPT !.fresh = FALSE]
  /\ UNCHANGED <<call, good, trouble, arena, keys, admin>>

-----------------------------------------------------------------------------
(* The arena: two models answer, somebody votes, the rank engine counts. *)

\* It takes the workbench's key, two models, and then an answer of both.
Battle(c) ==
  /\ gatewayKey # {}
  /\ Makes(c, "battle", "answers", Seed, {})
  /\ UNCHANGED officeVars

StoreBattle(c) ==
  /\ At(c, "answers")
  /\ battles' = battles \cup {c}
  /\ Ends(c)
  /\ UNCHANGED <<credential, voted, counted, told, crossed, keys, admin>>

Voting(b) == \E d \in Calls : UnderWay(d) /\ Does(d, "vote") /\ call[d].row = b
Crossed(b) == IF Voting(b) THEN crossed \cup {b} ELSE crossed

\* Each is kept for an hour; the mark is the younger of the two.
BattleExpires(b) ==
  /\ b \in battles
  /\ battles' = battles \ {b}
  /\ UNCHANGED <<call, credential, voted, counted, told, crossed, keys, admin>>

MarkExpires(b) ==
  /\ b \in voted \ battles
  /\ voted' = voted \ {b} /\ crossed' = Crossed(b)
  /\ UNCHANGED <<call, credential, battles, counted, told, keys, admin>>

Vote(c, b) ==
  /\ b \in battles
  /\ crossed' = Crossed(b)
  /\ Makes(c, "vote", "voted", b, {})
  /\ UNCHANGED <<credential, battles, voted, counted, told, keys, admin>>

\* (slip: every vote is taken)
TakeAnyVote(c) == At(c, "voted") /\ Goes(c, "mark") /\ UNCHANGED officeVars

CheckVoted(c) ==
  /\ At(c, "voted")
  /\ IF call[c].row \in voted THEN Ends(c) ELSE Goes(c, "mark")
  /\ UNCHANGED officeVars

MarkVoted(c) ==
  /\ At(c, "mark")
  /\ voted' = voted \cup {call[c].row}
  /\ Goes(c, "record")
  /\ UNCHANGED <<credential, battles, counted, told, crossed, keys, admin>>

\* The engine counts the first vote of a battle, and answers to any other as well.
Count(c) == counted' = [counted EXCEPT ![call[c].row] = IF @ = {} THEN {c} ELSE @]

Record(c) ==
  /\ At(c, "record")
  /\ Count(c) /\ told' = told \cup {c}
  /\ Ends(c)
  /\ UNCHANGED <<credential, battles, voted, crossed, keys, admin>>

\* "Could not record the vote", which may have been counted.
RecordFails(c) ==
  /\ At(c, "record")
  /\ Count(c) \/ UNCHANGED counted
  /\ Ends(c)
  /\ UNCHANGED <<credential, battles, voted, told, crossed, keys, admin>>

-----------------------------------------------------------------------------
(* The key the workbench calls the gateway with: made by the first question. *)

FirstQuestion(c) ==
  /\ gatewayKey = {}
  /\ Makes(c, "question", "insert key", Seed, {})
  /\ UNCHANGED officeVars

InsertKey(c) ==
  /\ At(c, "insert key")
  /\ minted' = minted \cup {c}
  /\ Goes(c, "store key")
  /\ UNCHANGED <<credential, arena, gatewayKey, admin>>

StoreKey(c) ==
  /\ At(c, "store key")
  /\ gatewayKey' = {c}
  /\ Ends(c)
  /\ UNCHANGED <<credential, arena, minted, admin>>

-----------------------------------------------------------------------------
(* The registry.  A change is one statement; the audit log, which nothing reads back,
   is left out, and the gateway is asked for a pass that nobody waits for. *)

Changes(c, a, entry) ==
  /\ Makes(c, "registry", "ended", a, {})
  /\ registry' = [registry EXCEPT ![a] = entry]
  /\ UNCHANGED <<credential, arena, keys, chain>>

\* What the form leaves empty keeps its stored value.
Secrets(a, c) == {registry[a].secret, {c}}

AddAccount(c, a) ==
  \E s \in Secrets(a, c) : Changes(c, a, [registry[a] EXCEPT !.stored = TRUE, !.secret = s])

ModifyAccount(c, a) ==
  \E s \in Secrets(a, c) :
    Changes(c, a, IF a \in Stored THEN [registry[a] EXCEPT !.secret = s] ELSE Absent)

SetProviderModel(c, a) ==
  /\ registry[a].model # "none"
  /\ \E m \in {"on", "off"} : Changes(c, a, [registry[a] EXCEPT !.model = m])

\* Its models are deleted with the account, and once more by name.
RemoveAccount(c, a) ==
  /\ Makes(c, "registry", "forget", a, {})
  /\ registry' = [registry EXCEPT ![a] = Absent]
  /\ UNCHANGED <<credential, arena, keys, chain>>

ForgetModels(c) ==
  /\ At(c, "forget")
  /\ registry' = [registry EXCEPT ![call[c].row].model = "none"]
  /\ Ends(c)
  /\ UNCHANGED <<credential, arena, keys, chain>>

\* A pass of the gateway finds the model of every account.
Discover ==
  /\ \E a \in Stored : registry[a].model = "none"
  /\ registry' = [a \in Accounts |-> IF a \in Stored /\ registry[a].model = "none"
                                     THEN [registry[a] EXCEPT !.model = "on"] ELSE registry[a]]
  /\ UNCHANGED <<call, credential, arena, keys, chain>>

SavePolicy(c, hops) == Makes(c, "judge", "check", Seed, hops) /\ UNCHANGED officeVars

CheckHops(c) ==
  /\ At(c, "check")
  /\ IF call[c].got \subseteq Stored THEN Goes(c, "save") ELSE Ends(c)
  /\ UNCHANGED officeVars

SaveChain(c) ==
  /\ At(c, "save")
  /\ chain' = call[c].got
  /\ Ends(c)
  /\ UNCHANGED <<credential, arena, keys, registry>>

-----------------------------------------------------------------------------

\* Any statement may fail, and the handler with it; a battle has more ways to.
Fails(c) ==
  /\ call[c].at \in {"credential", "flag", "answers", "voted", "mark", "insert key",
                     "store key", "forget", "check", "save"}
  /\ Ends(c)
  /\ trouble' = (trouble \/ Does(c, "token"))
  /\ UNCHANGED <<cred, good, arena, keys, admin>>

OfficeNext ==
  \/ AccessExpires \/ Discover
  \/ \E c \in Calls :
       \/ AskToken(c) \/ ReadCredential(c) \/ Refresh(c) \/ Refused(c) \/ Unanswered(c)
       \/ Persist(c) \/ PersistFails(c) \/ FlagCredential(c)
       \/ Battle(c) \/ StoreBattle(c) \/ BattleExpires(c) \/ MarkExpires(c)
       \/ \E b \in Calls : Vote(c, b)
       \/ CheckVoted(c) \/ MarkVoted(c) \/ Record(c) \/ RecordFails(c)
       \/ FirstQuestion(c) \/ InsertKey(c) \/ StoreKey(c)
       \/ \E a \in Accounts : \/ AddAccount(c, a) \/ ModifyAccount(c, a)
                              \/ SetProviderModel(c, a) \/ RemoveAccount(c, a)
       \/ ForgetModels(c)
       \/ \E hops \in SUBSET Accounts : SavePolicy(c, hops)
       \/ CheckHops(c) \/ SaveChain(c) \/ Fails(c)

-----------------------------------------------------------------------------
(* What must hold. *)

\* As long as no refresh meets an error and no two overlap, the credential is not
\* flagged for an administrator, and between refreshes its refresh token is one that the
\* provider takes, whether or not it hands out another each time.
RefreshWorks ==
  ~trouble => /\ ~cred.flagged
              /\ (\A c \in Calls : ~Refreshing(c)) => cred.refresh = good

\* A voter who is told that his vote is recorded has it counted, and no other vote of
\* the battle, unless two of its votes were under way at once or its mark expired under one.
VotesCounted ==
  \A c \in told : call[c].row \notin crossed => counted[call[c].row] = {c}
==============================================================================
