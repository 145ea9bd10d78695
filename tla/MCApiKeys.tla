------------------------------ MODULE MCApiKeys ------------------------------
(***************************************************************************)
(* An instance of ApiKeys for TLC.                                         *)
(***************************************************************************)
EXTENDS ApiKeys, TLC

CONSTANTS s1, s2, s3

\* s1 and s2 have one prefix, s3 has another.
MCSecrets == {s1, s2, s3}
MCPrefixOf == (s1 :> 1) @@ (s2 :> 1) @@ (s3 :> 2)
MCLimitChoices == {{"rate"}, {"quota", "refill"}}

\* Bound: only the first key has limits, which are counted per key.
LimitedFirst == \A k \in KeyIds : keys[k].limits # {} => k = 1

Symmetric == Permutations({s1, s2})
==============================================================================
