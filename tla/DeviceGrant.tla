----------------------------- MODULE DeviceGrant -----------------------------
(***************************************************************************)
(* What a device authorization promises the two sides: a client asks, a    *)
(* user approves or the request is refused, and an approval is told to the *)
(* client once. It may be withdrawn until then. No agents, codes or times. *)
(***************************************************************************)
EXTENDS Naturals

CONSTANT Clients

VARIABLES
    state,   \* "none", "asked", "approved" or "refused"
    told     \* how often the approval was told

grantVars == <<state, told>>

GrantInit ==
    /\ state = [c \in Clients |-> "none"]
    /\ told = [c \in Clients |-> 0]

Ask(c) ==
    /\ state[c] = "none"
    /\ state' = [state EXCEPT ![c] = "asked"]
    /\ UNCHANGED told

Approve(c) ==
    /\ state[c] = "asked"
    /\ state' = [state EXCEPT ![c] = "approved"]
    /\ UNCHANGED told

Tell(c) ==
    /\ state[c] = "approved"
    /\ told[c] = 0
    /\ told' = [told EXCEPT ![c] = 1]
    /\ UNCHANGED state

\* One revocation may withdraw the requests of many clients.
Refuse(C) ==
    /\ \A c \in C : state[c] \in {"asked", "approved"} /\ told[c] = 0
    /\ state' = [c \in Clients |-> IF c \in C THEN "refused" ELSE state[c]]
    /\ UNCHANGED told

GrantNext ==
    \/ \E c \in Clients : Ask(c) \/ Approve(c) \/ Tell(c)
    \/ \E C \in SUBSET Clients : Refuse(C)

GrantSpec == GrantInit /\ [][GrantNext]_grantVars

=============================================================================
