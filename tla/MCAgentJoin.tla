------------------------------ MODULE MCAgentJoin ------------------------------
(* Instances of AgentJoin for TLC. *)
EXTENDS AgentJoin
=============================================================================
