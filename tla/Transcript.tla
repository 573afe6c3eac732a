----------------------------- MODULE Transcript ------------------------------
(***************************************************************************)
(* What the workbench promises of a conversation's rows, without the how:  *)
(* rows are added and never changed; a question is stored before anything  *)
(* is asked; an answer is stored whole, when all of it has come, and once, *)
(* unless a statement failed meanwhile; and nobody is done with a run      *)
(* whose answer has begun to come and is not stored.                       *)
(* Module Workbench implements this specification.                         *)
(***************************************************************************)
EXTENDS Naturals, Sequences

CONSTANT Runs

VARIABLES
  rows,     \* the messages that are stored
  stage,    \* run -> how far it has come
  text,     \* run -> how much of its answer has come
  mishaps   \* how many statements failed

vars == <<rows, stage, text, mishaps>>

Answer(r)  == [role |-> "assistant", run |-> r]
Answers(r) == {k \in DOMAIN rows : rows[k] = Answer(r)}

Init ==
  /\ rows = <<>> /\ mishaps = 0
  /\ stage = [r \in Runs |-> "none"] /\ text = [r \in Runs |-> 0]

Moves(r, from, to) == stage[r] = from /\ stage' = [stage EXCEPT ![r] = to]

Ask(r) ==
  /\ Moves(r, "none", "asked")
  /\ UNCHANGED <<rows, text, mishaps>>

\* The question of this run, or again the one of a run it repeats.
KeepQuestion(r) ==
  /\ Moves(r, "asked", "open")
  /\ \E q \in Runs : /\ stage[q] # "none"
                     /\ rows' = Append(rows, [role |-> "user", run |-> q])
  /\ UNCHANGED <<text, mishaps>>

Stream(r) ==
  /\ stage[r] = "open" /\ Answers(r) = {}
  /\ text' = [text EXCEPT ![r] = @ + 1]
  /\ UNCHANGED <<rows, stage, mishaps>>

KeepAnswer(r) ==
  /\ stage[r] = "open" /\ text[r] > 0
  /\ Answers(r) = {} \/ (mishaps > 0 /\ \A j, k \in Answers(r) : j = k)
  /\ rows' = Append(rows, Answer(r))
  /\ UNCHANGED <<stage, text, mishaps>>

Close(r) ==
  /\ text[r] = 0 \/ Answers(r) # {}
  /\ Moves(r, "open", "closed")
  /\ UNCHANGED <<rows, text, mishaps>>

\* A statement fails, and perhaps the run it belongs to is given up.
Fail ==
  /\ mishaps' = mishaps + 1
  /\ UNCHANGED stage \/ \E r \in Runs : Moves(r, "asked", "closed") \/ Moves(r, "open", "closed")
  /\ UNCHANGED <<rows, text>>

Next == Fail \/ \E r \in Runs : \/ Ask(r) \/ KeepQuestion(r) \/ Stream(r)
                                \/ KeepAnswer(r) \/ Close(r)

Spec == Init /\ [][Next]_vars
==============================================================================
