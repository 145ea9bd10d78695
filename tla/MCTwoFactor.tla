---------------------------- MODULE MCTwoFactor ----------------------------
(***************************************************************************)
(* TwoFactor for TLC.  The calls are interchangeable.                      *)
(***************************************************************************)
EXTENDS TwoFactor, TLC

Symmetric == Permutations(Calls)

=============================================================================
