----------------------------- MODULE MCWorkbench -----------------------------
(* Small instances of Workbench. *)
EXTENDS Workbench
==============================================================================
