---------------------------- MODULE MCEmailFlows ----------------------------
(* EmailFlows for TLC: users, addresses and calls are interchangeable. *)
EXTENDS EmailFlows, TLC

Symmetry == Permutations(Users) \cup Permutations(Emails) \cup Permutations(Calls)

=============================================================================
