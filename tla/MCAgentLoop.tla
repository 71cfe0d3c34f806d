---------------------------- MODULE MCAgentLoop ----------------------------
(* Model values for AgentLoop come from the configurations. *)
EXTENDS AgentLoop, TLC
CONSTANTS t1, t2
============================================================================
