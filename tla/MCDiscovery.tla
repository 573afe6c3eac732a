----------------------------- MODULE MCDiscovery -----------------------------
(* Small instances of Discovery: a ticker and a triggered pass, in two         *)
(* replicas.                                                                   *)
EXTENDS Discovery, TLC

CONSTANTS a1, m1, m2, t1, w1, g1, g2

MCAt == t1 :> g1 @@ w1 :> g2
MCServes == [a \in Accounts |-> Models]
==============================================================================
