-------------------------- MODULE MCAgentCredentials -------------------------
(***************************************************************************)
(* Instances of AgentCredentials, and with it of AgentAuth, for TLC. No    *)
(* symmetry: the run checks liveness.                                      *)
(***************************************************************************)
EXTENDS AgentCredentials
=============================================================================
