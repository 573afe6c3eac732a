------------------------------ MODULE MCBilling ------------------------------
(* Small instances of Billing: handlers are interchangeable. *)
EXTENDS Billing, TLC

Symmetric == Permutations(Handlers)
==============================================================================
