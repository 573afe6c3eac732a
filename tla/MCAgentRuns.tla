---------------------------- MODULE MCAgentRuns ----------------------------
(* Small instances of AgentRuns: two runs, one of which may ask for approval. *)
EXTENDS AgentRuns, TLC

MCMaxSteps == 1 :> 3 @@ 2 :> 2
============================================================================
