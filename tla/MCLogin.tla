------------------------------- MODULE MCLogin -------------------------------
(* A small instance of Login. *)
EXTENDS Login
==============================================================================
