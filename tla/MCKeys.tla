------------------------------- MODULE MCKeys -------------------------------
(* Small instances of Keys: handlers and row ids are interchangeable. *)
EXTENDS Keys, TLC

Symmetric == Permutations(Handlers) \cup Permutations(Keys)
=============================================================================
