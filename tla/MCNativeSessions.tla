-------------------------- MODULE MCNativeSessions --------------------------
(***************************************************************************)
(* NativeSessions for TLC.  The calls are interchangeable, and so are the  *)
(* users: no action compares two of them.                                  *)
(***************************************************************************)
EXTENDS NativeSessions, TLC

Symmetric == Permutations(Calls) \cup Permutations(Users)

=============================================================================
