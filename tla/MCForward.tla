------------------------------ MODULE MCForward ------------------------------
(* Small instances of Forward.  Account a1 may take one request a minute and *)
(* two a day, the others two a minute.                                        *)
EXTENDS Forward, TLC

CONSTANTS a1, m1

MCSpan == [w \in Windows |-> IF w = "minute" THEN 1 ELSE 2]
MCLimit == [a \in Accounts |-> [w \in Windows |->
              IF w = "minute" THEN IF a = a1 THEN 1 ELSE 2
              ELSE IF a = a1 THEN 2 ELSE 0]]
MCServed == [m \in Models |-> Accounts]
MCFilters == {Accounts}
MCSymmetry == Permutations(Requests)
MCAnyFilter == SUBSET Accounts
==============================================================================
