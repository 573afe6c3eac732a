------------------------------- MODULE Failover -------------------------------
(***************************************************************************)
(* What the gateway promises a client request, without the how: it is      *)
(* offered a set of accounts once, takes each of them at most once, and is *)
(* answered exactly once.  It is given up only after at least half of the  *)
(* offer was taken, and then a kept refusal is what the client sees.       *)
(* Module Forward implements this specification.                           *)
(***************************************************************************)
EXTENDS Naturals, FiniteSets

CONSTANTS Requests, Accounts

VARIABLES
  offered,   \* the accounts a request may be served by
  left,      \* those of them it has not taken yet
  refused,   \* whether some account refused its credentials
  reply      \* "none" until the client is answered

vars == <<offered, left, refused, reply>>

Taken(r) == offered[r] \ left[r]

Init ==
  /\ offered = [r \in Requests |-> {}]
  /\ left = [r \in Requests |-> {}]
  /\ refused = [r \in Requests |-> FALSE]
  /\ reply = [r \in Requests |-> "none"]

Pending(r) == reply[r] = "none"

\* A request that nothing can serve is turned away at once.
TurnAway(r) ==
  /\ Pending(r) /\ offered[r] = {}
  /\ \E what \in {"unknown_model", "no_account"} :
       reply' = [reply EXCEPT ![r] = what]
  /\ UNCHANGED <<offered, left, refused>>

Open(r, accounts) ==
  /\ Pending(r) /\ offered[r] = {}
  /\ accounts # {}
  /\ offered' = [offered EXCEPT ![r] = accounts]
  /\ left' = [left EXCEPT ![r] = accounts]
  /\ UNCHANGED <<refused, reply>>

Take(r, a) ==
  /\ Pending(r) /\ a \in left[r]
  /\ left' = [left EXCEPT ![r] = @ \ {a}]
  /\ UNCHANGED <<offered, refused, reply>>

Refuse(r) ==
  /\ Pending(r) /\ Taken(r) # {}
  /\ refused' = [refused EXCEPT ![r] = TRUE]
  /\ UNCHANGED <<offered, left, reply>>

\* Only an account that was taken can answer, or fail in a way that ends all.
Answer(r) ==
  /\ Pending(r) /\ Taken(r) # {}
  /\ \E what \in {"answer", "cut_answer", "aborted"} :
       reply' = [reply EXCEPT ![r] = what]
  /\ UNCHANGED <<offered, left, refused>>

GiveUp(r) ==
  /\ Pending(r) /\ offered[r] # {}
  /\ Cardinality(Taken(r)) >= Cardinality(left[r])
  /\ reply' = [reply EXCEPT ![r] = IF refused[r] THEN "auth" ELSE "no_account"]
  /\ UNCHANGED <<offered, left, refused>>

Next == \E r \in Requests :
  \/ TurnAway(r) \/ Refuse(r) \/ Answer(r) \/ GiveUp(r)
  \/ \E accounts \in SUBSET Accounts : Open(r, accounts)
  \/ \E a \in Accounts : Take(r, a)

Spec == Init /\ [][Next]_vars
===============================================================================
