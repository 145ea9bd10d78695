----------------------------- MODULE MCMcpOAuth -----------------------------
(***************************************************************************)
(* McpOAuth for TLC.  Requests, clients and scopes are each                *)
(* interchangeable.                                                        *)
(***************************************************************************)
EXTENDS McpOAuth, TLC

Symmetric ==
    Permutations(Requests) \cup Permutations(Clients) \cup Permutations(Scopes)

=============================================================================
