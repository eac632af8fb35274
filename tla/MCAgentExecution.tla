-------------------------- MODULE MCAgentExecution --------------------------
(***************************************************************************)
(* AgentExecution with every adapter, for TLC. The model is finite as it   *)
(* stands.                                                                 *)
(***************************************************************************)
EXTENDS AgentExecution

AllAdapters == AdapterName

=============================================================================
