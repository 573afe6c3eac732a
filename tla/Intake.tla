------------------------------- MODULE Intake --------------------------------
(***************************************************************************)
(* What the workbench promises of an upload, without the how: its space is *)
(* taken once, before it is stored, and given back when it is refused; it  *)
(* is accepted only when it is stored; only what is stored is read, and    *)
(* what has been read stays read as long as nothing breaks off.            *)
(* Module Uploads implements this specification.                           *)
(***************************************************************************)
EXTENDS Naturals

CONSTANT Uploads

VARIABLES
  quota, used,   \* the space there is, and how much of it is taken
  stage,         \* upload -> how far it has come
  kept,          \* the uploads that are stored
  read,          \* the uploads whose text can be used
  mishaps        \* how often something broke off or failed

vars == <<quota, used, stage, kept, read, mishaps>>

Init ==
  /\ quota \in Nat \ {0} /\ used = 0
  /\ stage = [u \in Uploads |-> "open"]
  /\ kept = {} /\ read = {} /\ mishaps = 0

Moves(u, from, to) == stage[u] = from /\ stage' = [stage EXCEPT ![u] = to]

TurnAway(u) ==
  /\ Moves(u, "open", "refused")
  /\ UNCHANGED <<quota, used, kept, read, mishaps>>

Take(u) ==
  /\ used < quota
  /\ Moves(u, "open", "held") /\ used' = used + 1
  /\ UNCHANGED <<quota, kept, read, mishaps>>

Keep(u) ==
  /\ u \notin kept
  /\ Moves(u, "held", "stored") /\ kept' = kept \cup {u}
  /\ UNCHANGED <<quota, used, read, mishaps>>

GiveBack(u) ==
  /\ used > 0
  /\ Moves(u, "held", "refused") /\ used' = used - 1
  /\ UNCHANGED <<quota, kept, read, mishaps>>

Accept(u) ==
  /\ u \in kept
  /\ Moves(u, "stored", "accepted")
  /\ UNCHANGED <<quota, used, kept, read, mishaps>>

Read(u) ==
  /\ u \in kept
  /\ read' = read \cup {u}
  /\ UNCHANGED <<quota, used, stage, kept, mishaps>>

\* A request breaks off without an answer, and its space stays as it is; or the worker
\* does, and a file that it had read before may be marked as failed.
BreakOff ==
  /\ mishaps' = mishaps + 1
  /\ \/ /\ UNCHANGED read
        /\ \E u \in Uploads, from \in {"open", "held", "stored"} : Moves(u, from, "lost")
     \/ UNCHANGED stage /\ read' \in {read} \cup {read \ {u} : u \in Uploads}
  /\ UNCHANGED <<quota, used, kept>>

Next ==
  \/ \E u \in Uploads : TurnAway(u) \/ Take(u) \/ Keep(u) \/ GiveBack(u) \/ Accept(u) \/ Read(u)
  \/ BreakOff

Spec == Init /\ [][Next]_vars
==============================================================================
