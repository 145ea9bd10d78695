------------------------------ MODULE AgentAuth ------------------------------
(***************************************************************************)
(* Hosts, the agents they register, the capabilities granted to an agent,  *)
(* and the device authorization by which a user approves it.               *)
(*                                                                         *)
(* Every mutation of component/agentAuth.ts that writes one of these is an *)
(* action. The revocation of a host ends its agents in scheduled batches,  *)
(* one mutation each, so whatever else the component does may come between *)
(* two of them.                                                            *)
(*                                                                         *)
(* Times are flags: the two expiries of an agent are its "life", and a     *)
(* device authorization is or is not "lapsed". An expiry that is not set   *)
(* is one that is not reached. Of the keys of a host or an agent only that *)
(* of the active generation can be live; the others are rotated.           *)
(***************************************************************************)
EXTENDS Naturals, FiniteSets

CONSTANTS
    Hosts, Agents, Capabilities,
    Users,
    NoUser,
    NoHost,
    BatchSize,       \* HOST_REVOCATION_BATCH_SIZE
    MaxGeneration,   \* bound: key generations of a host or an agent
    Owners,          \* bound: owners of agents, NoUser for an autonomous one
    DeviceFlows      \* bound: registrations without and with an authorization

ASSUME AgentAuthAssumption ==
    /\ IsFiniteSet(Agents)
    /\ NoUser \notin Users
    /\ NoHost \notin Hosts
    /\ BatchSize \in Nat \ {0}
    /\ MaxGeneration \in Nat \ {0}
    /\ Owners \subseteq Users \cup {NoUser}
    /\ DeviceFlows \subseteq BOOLEAN

VARIABLES
    hosts,           \* agent_hosts, the active key, and the scheduled cascade
    agents,          \* agents and the active key
    grants,          \* agent_capability_grants
    authorizations,  \* agent_device_authorizations
    organization,    \* status of the organization
    members,         \* active users with an active membership
    answers          \* history: approvals handed to the agent, up to two

vars == <<hosts, agents, grants, authorizations, organization, members, answers>>

Phases == {"pending", "active", "expired"}

Host == [status : {"none", "pending", "active", "rejected", "revoked"},
         gen : 1 .. MaxGeneration, keyLive : BOOLEAN,
         cascade : Phases \cup {"none", "done"}]

\* "lapsed": expiresAt has passed; "ended": absoluteExpiresAt has as well.
Lives == {"current", "lapsed", "ended"}

Agent == [status : Phases \cup {"none", "rejected", "revoked"},
          host : Hosts \cup {NoHost}, owner : Users \cup {NoUser},
          gen : 1 .. MaxGeneration, keyLive : BOOLEAN, life : Lives]

GrantStates == {"none", "pending", "active", "denied", "revoked"}

Authorization == [status : {"none", "pending", "approved", "denied", "expired"},
                  consumed : BOOLEAN, lapsed : BOOLEAN]

TypeOK ==
    /\ hosts \in [Hosts -> Host]
    /\ agents \in [Agents -> Agent]
    /\ grants \in [Agents -> [Capabilities -> GrantStates]]
    /\ authorizations \in [Agents -> Authorization]
    /\ organization \in {"active", "suspended"}
    /\ members \in SUBSET Users
    /\ answers \in [Agents -> 0 .. 2]

NoAgent == [status |-> "none", host |-> NoHost, owner |-> NoUser,
            gen |-> 1, keyLive |-> FALSE, life |-> "current"]

NoAuthorization == [status |-> "none", consumed |-> FALSE, lapsed |-> FALSE]

Init ==
    /\ hosts = [h \in Hosts |-> [status |-> "none", gen |-> 1, keyLive |-> FALSE,
                                 cascade |-> "none"]]
    /\ agents = [a \in Agents |-> NoAgent]
    /\ grants = [a \in Agents |-> [c \in Capabilities |-> "none"]]
    /\ authorizations = [a \in Agents |-> NoAuthorization]
    /\ organization = "active"
    /\ members = Users
    /\ answers = [a \in Agents |-> 0]

-----------------------------------------------------------------------------
(* Who may act                                                             *)

\* requireActiveOperator
Operator(u) == organization = "active" /\ u \in members

\* requireStoredModeOwner
OwnerActive(owner) == owner = NoUser \/ Operator(owner)

\* Organizations suspend and resume, members come and go elsewhere.
SetOrganization(status) ==
    /\ organization # status
    /\ organization' = status
    /\ UNCHANGED <<hosts, agents, grants, authorizations, members, answers>>

SetMembers(M) ==
    /\ members # M
    /\ members' = M
    /\ UNCHANGED <<hosts, agents, grants, authorizations, organization, answers>>

-----------------------------------------------------------------------------
(* Hosts                                                                   *)

RegisterAgentHost(h, u) ==
    /\ Operator(u)
    /\ hosts[h].status = "none"
    /\ hosts' = [hosts EXCEPT ![h] = [@ EXCEPT !.status = "pending", !.keyLive = TRUE]]
    /\ UNCHANGED <<agents, grants, authorizations, organization, members, answers>>

\* requireHostStatusTransition
HostMayBecome(current, next) ==
    \/ current = "pending" /\ next \in {"active", "rejected", "revoked"}
    \/ current = "active" /\ next \in {"rejected", "revoked"}

\* Only a revocation takes the key and schedules the cascade.
SetAgentHostStatus(h, status, u) ==
    /\ Operator(u)
    /\ HostMayBecome(hosts[h].status, status)
    /\ hosts' = [hosts EXCEPT ![h] =
                   IF status = "revoked"
                   THEN [@ EXCEPT !.status = status, !.keyLive = FALSE, !.cascade = "pending"]
                   ELSE [@ EXCEPT !.status = status]]
    /\ UNCHANGED <<agents, grants, authorizations, organization, members, answers>>

RevokeAgentHostAsHost(h) ==
    /\ hosts[h].status = "active"
    /\ hosts' = [hosts EXCEPT ![h] = [@ EXCEPT !.status = "revoked", !.keyLive = FALSE,
                                               !.cascade = "pending"]]
    /\ UNCHANGED <<agents, grants, authorizations, organization, members, answers>>

\* rotateHostKey, by an operator or by the host itself.
RotateHostKey(h) ==
    /\ hosts[h].status = "active"
    /\ hosts[h].gen < MaxGeneration
    /\ hosts' = [hosts EXCEPT ![h] = [@ EXCEPT !.gen = hosts[h].gen + 1, !.keyLive = TRUE]]
    /\ UNCHANGED <<agents, grants, authorizations, organization, members, answers>>

-----------------------------------------------------------------------------
(* What revocation takes from agents                                       *)

RevokedGrants(a) == [c \in Capabilities |->
                       IF grants[a][c] \in {"pending", "active"} THEN "revoked" ELSE grants[a][c]]

\* Mutant: an approval that was not yet fetched survives the revocation.
DeniedIfPending(auth) ==
    IF auth.status = "pending" THEN [auth EXCEPT !.status = "denied"] ELSE auth

Denied(auth) ==
    IF auth.status = "pending" \/ (auth.status = "approved" /\ ~auth.consumed)
    THEN [auth EXCEPT !.status = "denied"]
    ELSE auth

\* revokeAgentDependents and the patch of the row, for a set of agents. Nothing
\* reads the expiries of a revoked agent again.
Revoke(A) ==
    /\ agents' = [a \in Agents |->
                    IF a \in A
                    THEN [agents[a] EXCEPT !.status = "revoked", !.keyLive = FALSE, !.life = "ended"]
                    ELSE agents[a]]
    /\ grants' = [a \in Agents |-> IF a \in A THEN RevokedGrants(a) ELSE grants[a]]
    /\ authorizations' = [a \in Agents |->
                            IF a \in A THEN Denied(authorizations[a]) ELSE authorizations[a]]

AgentsOf(h, status) == {a \in Agents : agents[a].host = h /\ agents[a].status = status}

\* Mutants: the expired agents come before the active ones; no page is the last.
ExpiredFirst(phase) ==
    CASE phase = "pending" -> "expired" [] phase = "expired" -> "active" [] OTHER -> "done"

NeverLast(n) == n > BatchSize

NextPhase(phase) ==
    CASE phase = "pending" -> "active" [] phase = "active" -> "expired" [] OTHER -> "done"

LastPage(n) == n # BatchSize

\* cascadeRevokedAgentHost: one page of the phase; a full page is followed by
\* another, the last one by the next phase.
CascadeRevokedAgentHost(h) ==
    /\ hosts[h].status = "revoked"
    /\ hosts[h].cascade \in Phases
    /\ \E page \in SUBSET AgentsOf(h, hosts[h].cascade) :
          /\ \/ Cardinality(page) = BatchSize
             \/ Cardinality(page) < BatchSize /\ page = AgentsOf(h, hosts[h].cascade)
          /\ Revoke(page)
          /\ hosts' = IF LastPage(Cardinality(page))
                      THEN [hosts EXCEPT ![h].cascade = NextPhase(@)]
                      ELSE hosts
    /\ UNCHANGED <<organization, members, answers>>

-----------------------------------------------------------------------------
(* Agents                                                                  *)

\* insertPendingAgent, with a device authorization or without.
RegisterAgent(a, h, owner, device) ==
    /\ agents[a].status = "none"
    /\ hosts[h].status = "active"
    /\ organization = "active"
    /\ OwnerActive(owner)
    /\ agents' = [agents EXCEPT ![a] = [NoAgent EXCEPT !.status = "pending", !.host = h,
                                                       !.owner = owner, !.keyLive = TRUE]]
    /\ grants' = [grants EXCEPT ![a] = [c \in Capabilities |-> "pending"]]
    /\ authorizations' = IF device
                         THEN [authorizations EXCEPT ![a].status = "pending"]
                         ELSE authorizations
    /\ UNCHANGED <<hosts, organization, members, answers>>

\* requireAgentStatusTransition
AgentMayBecome(current, next) ==
    \/ current = "pending" /\ next \in {"active", "rejected", "revoked"}
    \/ current = "active" /\ next \in {"expired", "revoked"}
    \/ current = "expired" /\ next = "revoked"

\* What the arguments expiresAt and absoluteExpiresAt may make of the life: an
\* absolute expiry is never extended, and bounds the other one. Those of a
\* rejected agent are never read.
LifeMayBecome(life, next) == life = "ended" => next = "ended"

SetAgentStatus(a, status, life, u) ==
    /\ Operator(u)
    /\ AgentMayBecome(agents[a].status, status)
    /\ LifeMayBecome(agents[a].life, life)
    /\ status = "rejected" => life = agents[a].life
    /\ status = "active" =>
          /\ hosts[agents[a].host].status = "active"
          /\ OwnerActive(agents[a].owner)
          /\ life = "current"
    /\ IF status = "revoked"
       THEN Revoke({a})
       ELSE /\ agents' = [agents EXCEPT ![a] = [@ EXCEPT !.status = status, !.life = life]]
            /\ UNCHANGED <<grants, authorizations>>
    /\ UNCHANGED <<hosts, organization, members, answers>>

\* requireHostOwnedAgent: the host acts for itself.
HostActs(a) == agents[a].host \in Hosts /\ hosts[agents[a].host].status = "active"

RevokeAgentAsHost(a) ==
    /\ HostActs(a)
    /\ agents[a].status \in Phases
    /\ Revoke({a})
    /\ UNCHANGED <<hosts, organization, members, answers>>

\* Mutant: an expired agent comes back whatever its absolute expiry.
MayLiveOn(a) == TRUE

MayLive(a) == agents[a].life # "ended"

\* reactivateStoredAgent, by an operator or by the host: an agent beyond its
\* absolute expiry is revoked instead.
ReactivateAgent(a) ==
    /\ agents[a].status = "expired"
    /\ HostActs(a)
    /\ OwnerActive(agents[a].owner)
    /\ \/ /\ ~MayLive(a)
          /\ Revoke({a})
       \/ /\ MayLive(a)
          /\ agents' = [agents EXCEPT ![a] = [@ EXCEPT !.status = "active", !.life = "current"]]
          /\ grants' = [grants EXCEPT ![a] = RevokedGrants(a)]
          /\ UNCHANGED authorizations
    /\ UNCHANGED <<hosts, organization, members, answers>>

\* rotateStoredAgentKey, by an operator, the host or the agent.
RotateAgentKey(a) ==
    /\ agents[a].status = "active"
    /\ agents[a].gen < MaxGeneration
    /\ agents' = [agents EXCEPT ![a] = [@ EXCEPT !.gen = agents[a].gen + 1, !.keyLive = TRUE]]
    /\ UNCHANGED <<hosts, grants, authorizations, organization, members, answers>>

SetAgentCapabilityGrantStatus(a, c, status, u) ==
    /\ Operator(u)
    /\ \/ grants[a][c] = "pending" /\ status \in {"active", "denied"}
       \/ grants[a][c] = "active" /\ status = "revoked"
    /\ grants' = [grants EXCEPT ![a][c] = status]
    /\ UNCHANGED <<hosts, agents, authorizations, organization, members, answers>>

\* expiresAt passes, then absoluteExpiresAt.
TimePasses(a, life) ==
    /\ agents[a].status \in Phases \ {"pending"}
    /\ \/ agents[a].life = "current" /\ life = "lapsed"
       \/ agents[a].life = "lapsed" /\ life = "ended"
    /\ agents' = [agents EXCEPT ![a].life = life]
    /\ UNCHANGED <<hosts, grants, authorizations, organization, members, answers>>

-----------------------------------------------------------------------------
(* Device authorizations                                                   *)

\* expirePendingDeviceAuthorization
Expire(a) ==
    /\ authorizations' = [authorizations EXCEPT ![a].status = "expired"]
    /\ agents' = IF agents[a].status = "pending"
                 THEN [agents EXCEPT ![a].status = "rejected"]
                 ELSE agents

\* It does not ask whether the host is active, nor for the owner of the agent.
DecideAgentDeviceAuthorization(a, u, decision) ==
    /\ Operator(u)
    /\ authorizations[a].status = "pending"
    /\ \/ authorizations[a].lapsed /\ Expire(a)
       \/ /\ ~authorizations[a].lapsed
          /\ agents[a].status = "pending"
          /\ authorizations' = [authorizations EXCEPT ![a].status = decision]
          /\ agents' = [agents EXCEPT ![a].status =
                          IF decision = "approved" THEN "active" ELSE "rejected"]
    /\ UNCHANGED <<hosts, grants, organization, members, answers>>

\* Mutant: the approval is handed out again.
Fetchable(auth) == auth.status = "approved"

Deliverable(auth) == auth.status = "approved" /\ ~auth.consumed

\* A poll that finds the authorization pending only moves the next poll.
PollAgentDeviceAuthorization(a) ==
    /\ \/ /\ authorizations[a].lapsed
          /\ authorizations[a].status = "pending"
          /\ Expire(a)
          /\ UNCHANGED answers
       \/ /\ ~authorizations[a].lapsed
          /\ Deliverable(authorizations[a])
          /\ authorizations' = [authorizations EXCEPT ![a].consumed = TRUE]
          /\ answers' = [answers EXCEPT ![a] = IF @ < 2 THEN @ + 1 ELSE @]
          /\ UNCHANGED agents
    /\ UNCHANGED <<hosts, grants, organization, members>>

\* Its expiresAt is reached; nothing reads it of one that was consumed or refused.
AuthorizationLapses(a) ==
    /\ authorizations[a].status = "pending" \/ Deliverable(authorizations[a])
    /\ ~authorizations[a].lapsed
    /\ authorizations' = [authorizations EXCEPT ![a].lapsed = TRUE]
    /\ UNCHANGED <<hosts, agents, grants, organization, members, answers>>

-----------------------------------------------------------------------------

HostStep(h) ==
    \/ \E u \in Users : RegisterAgentHost(h, u)
    \/ \E u \in Users, status \in {"active", "rejected", "revoked"} : SetAgentHostStatus(h, status, u)
    \/ RevokeAgentHostAsHost(h)
    \/ RotateHostKey(h)
    \/ CascadeRevokedAgentHost(h)

AgentStep(a) ==
    \/ \E h \in Hosts, owner \in Owners, device \in DeviceFlows : RegisterAgent(a, h, owner, device)
    \/ \E u \in Users, life \in Lives, status \in {"active", "rejected", "revoked", "expired"} :
          SetAgentStatus(a, status, life, u)
    \/ RevokeAgentAsHost(a)
    \/ ReactivateAgent(a)
    \/ RotateAgentKey(a)
    \/ \E c \in Capabilities, u \in Users, status \in {"active", "denied", "revoked"} :
          SetAgentCapabilityGrantStatus(a, c, status, u)
    \/ \E life \in {"lapsed", "ended"} : TimePasses(a, life)
    \/ \E u \in Users, decision \in {"approved", "denied"} :
          DecideAgentDeviceAuthorization(a, u, decision)
    \/ PollAgentDeviceAuthorization(a)
    \/ AuthorizationLapses(a)

Next ==
    \/ \E status \in {"active", "suspended"} : SetOrganization(status)
    \/ \E M \in SUBSET Users : SetMembers(M)
    \/ \E h \in Hosts : HostStep(h)
    \/ \E a \in Agents : AgentStep(a)

Spec == Init /\ [][Next]_vars

\* A mutation that was scheduled is run. Nothing else has to happen.
FairSpec == Spec /\ \A h \in Hosts : WF_vars(CascadeRevokedAgentHost(h))

-----------------------------------------------------------------------------
(* Properties                                                              *)

(* Once the cascade of a revoked host has run through, none of its agents  *)
(* is left with a status to act in, whatever was registered, approved,     *)
(* expired or rotated between its batches.                                 *)
CascadeReachesAll ==
    \A h \in Hosts : hosts[h].cascade = "done" =>
        \A a \in Agents : agents[a].host = h => agents[a].status \in {"revoked", "rejected"}

(* A revoked agent holds nothing: no live key, no capability granted or    *)
(* asked for, no authorization to decide, and no approval to fetch.        *)
RevokedHoldsNothing ==
    \A a \in Agents : agents[a].status = "revoked" =>
        /\ ~agents[a].keyLive
        /\ \A c \in Capabilities : grants[a][c] \notin {"pending", "active"}
        /\ authorizations[a].status # "pending"
        /\ authorizations[a].status = "approved" => authorizations[a].consumed

(* What has ended stays ended: no reactivation, approval or rotation       *)
(* brings back a revoked or rejected agent, or one of a revoked host, or   *)
(* one that has outlived its absolute expiry.                              *)
Ended(a) ==
    \/ agents[a].status \in {"revoked", "rejected"}
    \/ agents[a].status = "expired" /\ agents[a].life = "ended"
    \/ /\ agents[a].status = "expired"
       /\ agents[a].host \in Hosts
       /\ hosts[agents[a].host].status \in {"revoked", "rejected"}

EndedStaysEnded ==
    [][\A a \in Agents : Ended(a) => Ended(a)']_vars

(* Every cascade comes to its end, also when each batch is full and agents *)
(* move on to a later phase meanwhile.                                     *)
CascadeEnds == \A h \in Hosts : hosts[h].status = "revoked" ~> hosts[h].cascade = "done"

-----------------------------------------------------------------------------
(* A device authorization as its promise.                                  *)

GrantState ==
    [a \in Agents |->
       CASE authorizations[a].status = "none" -> "none"
         [] authorizations[a].status = "pending" -> "asked"
         [] authorizations[a].status = "approved" -> "approved"
         [] OTHER -> "refused"]

Promise == INSTANCE DeviceGrant WITH Clients <- Agents, state <- GrantState, told <- answers

(* The authorizations implement DeviceGrant: an approval follows one       *)
(* request, is fetched at most once, and never after a refusal.            *)
ImplementsDeviceGrant == Promise!GrantSpec

=============================================================================
