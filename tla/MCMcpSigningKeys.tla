-------------------------- MODULE MCMcpSigningKeys --------------------------
(***************************************************************************)
(* McpSigningKeys for TLC.  The calls are interchangeable.                 *)
(***************************************************************************)
EXTENDS McpSigningKeys, TLC

Symmetric == Permutations(Calls)

=============================================================================
