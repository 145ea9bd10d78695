--------------------------- MODULE MCOrganizations ---------------------------
(***************************************************************************)
(* An instance of Organizations for TLC.                                   *)
(***************************************************************************)
EXTENDS Organizations, TLC

Symmetric == Permutations(Users)
=============================================================================
