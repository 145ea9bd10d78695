------------------------------ MODULE MCAuthMd ------------------------------
(***************************************************************************)
(* AuthMd for TLC.  The calls are interchangeable.                         *)
(***************************************************************************)
EXTENDS AuthMd, TLC

Symmetric == Permutations(Calls)

=============================================================================
