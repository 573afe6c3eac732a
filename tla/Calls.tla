-------------------------------- MODULE Calls --------------------------------
(***************************************************************************)
(* Calls of the control plane's handlers, as processes: a call is made     *)
(* once, goes from one await to the next, and may end anywhere.  The       *)
(* components that answer calls share this module; a row that a call       *)
(* inserts has the call for its id, as a serial id is never used again.    *)
(***************************************************************************)
EXTENDS Integers, FiniteSets

CONSTANTS Calls, Seed  \* the calls made in all (a bound), and the rows there from the start

ASSUME SeedIsNoCall == Seed \notin Calls

VARIABLE call  \* call -> what it does, the await it has reached, its row, what it read

Ids   == Calls \cup {Seed}
Fresh == [does |-> "nothing", at |-> "start", row |-> Seed, got |-> {}]

CallsInit == call = [c \in Calls |-> Fresh]

Made(c)       == call[c] # Fresh
UnderWay(c)   == Made(c) /\ call[c].at # "ended"
At(c, where)  == call[c].at = where
Does(c, what) == call[c].does = what

Makes(c, what, where, row, got) ==
  /\ ~Made(c)
  /\ call' = [call EXCEPT ![c] = [does |-> what, at |-> where, row |-> row, got |-> got]]

Goes(c, where)       == call' = [call EXCEPT ![c].at = where]
GoesWith(c, where, got) == call' = [call EXCEPT ![c].at = where, ![c].got = got]
Ends(c)              == Goes(c, "ended")
==============================================================================
