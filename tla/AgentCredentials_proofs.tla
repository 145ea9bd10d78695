----------------------- MODULE AgentCredentials_proofs -----------------------
(***************************************************************************)
(* What AgentAuth and AgentCredentials promise for every set of hosts,     *)
(* agents, signed requests and every size of a batch.                      *)
(*                                                                         *)
(* Each action is read once, for what it may do to a host and to an agent  *)
(* (HostMoves, AgentMoves), and for the step of DeviceGrant it stands for;  *)
(* the invariants and properties are about these moves.                    *)
(*                                                                         *)
(* The last part is about the other way in for an agent: what AuthMd       *)
(* promises of registrations and of their chains of credentials, for every *)
(* set of users, organizations and calls and any number of rows.           *)
(***************************************************************************)
EXTENDS AgentCredentials, AuthMd, FiniteSetTheorems, TLAPS

-----------------------------------------------------------------------------
(* The inductive invariant                                                 *)

\* An agent that was registered has a host; one that was not has nothing.
AgentsPlaced ==
    \A a \in Agents :
        /\ agents[a].status = "none" => authorizations[a].status = "none" /\ answers[a] = 0
        /\ agents[a].status = "none" => agents[a].host = NoHost
        /\ agents[a].status # "none" => agents[a].host \in Hosts

\* The cascade runs for a revoked host; where it is, no agent of an earlier
\* phase is left.
CascadeGood ==
    \A h \in Hosts :
        /\ hosts[h].cascade # "none" <=> hosts[h].status = "revoked"
        /\ \A a \in Agents : agents[a].host = h =>
              /\ hosts[h].cascade \in {"active", "expired", "done"} => agents[a].status # "pending"
              /\ hosts[h].cascade \in {"expired", "done"} => agents[a].status # "active"
              /\ hosts[h].cascade = "done" => agents[a].status # "expired"

\* An approval that was handed out is marked, and was handed out once.
AnswersGood ==
    \A a \in Agents :
        /\ answers[a] <= 1
        /\ answers[a] # 0 => authorizations[a].status = "approved" /\ authorizations[a].consumed

IInv == TypeOK /\ AgentsPlaced /\ CascadeGood /\ RevokedHoldsNothing /\ AnswersGood

-----------------------------------------------------------------------------
(* What a step may do                                                      *)

HostMove(h) ==
    /\ hosts'[h].gen >= hosts[h].gen
    /\ hosts[h].status \in {"rejected", "revoked"} => hosts'[h].status = hosts[h].status
    /\ hosts'[h].status = "revoked" => hosts[h].status = "revoked" \/ hosts'[h].cascade = "pending"
    /\ \/ hosts'[h].cascade = hosts[h].cascade
       \/ hosts'[h].cascade = "pending" /\ hosts[h].status # "revoked" /\ hosts'[h].status = "revoked"
       \/ /\ hosts[h].cascade \in Phases
          /\ hosts'[h].cascade = NextPhase(hosts[h].cascade)
          /\ \A a \in AgentsOf(h, hosts[h].cascade) : agents'[a].status = "revoked"

HostMoves == \A h \in Hosts : HostMove(h)

ActiveHost(h) == h \in Hosts /\ hosts[h].status = "active"

Registered(a) ==
    /\ agents[a].status = "none"
    /\ agents'[a].status = "pending"
    /\ ActiveHost(agents'[a].host)

Moved(a) ==
    /\ agents[a].status \in Phases
    /\ agents'[a].status \in Phases \cup {"rejected", "revoked"}
    /\ agents'[a].host = agents[a].host
    /\ agents'[a].gen >= agents[a].gen
    /\ agents[a].life = "ended" => agents'[a].life = "ended"
    /\ agents'[a].status = "pending" => agents[a].status = "pending"
    /\ agents'[a].status = "expired" => agents[a].status \in {"active", "expired"}
    /\ agents'[a].status = "active" =>
          \/ agents[a].status \in {"pending", "active"}
          \/ agents[a].life # "ended" /\ ActiveHost(agents[a].host)

AgentMove(a) == agents'[a] = agents[a] \/ Registered(a) \/ Moved(a)

AgentMoves == \A a \in Agents : AgentMove(a)

Moves == HostMoves /\ AgentMoves

PromiseStep == [Promise!GrantNext]_Promise!grantVars

Kept == IInv' /\ Moves /\ PromiseStep

-----------------------------------------------------------------------------
(* Types                                                                   *)

LEMMA Numbers ==
    /\ BatchSize \in Nat \ {0} /\ MaxGeneration \in Nat \ {0} /\ 1 \in 1 .. MaxGeneration
    /\ IsFiniteSet(Agents) /\ NoUser \notin Users /\ NoHost \notin Hosts
    /\ Owners \subseteq Users \cup {NoUser} /\ DeviceFlows \subseteq BOOLEAN
  BY AgentAuthAssumption DEF AgentAuthAssumption

LEMMA NoAgentType ==
    /\ NoAgent \in Agent /\ NoAgent.status = "none" /\ NoAgent.host = NoHost
    /\ NoAgent.gen = 1 /\ NoAgent.life = "current"
  BY Numbers DEF NoAgent, Agent, Lives, Phases

LEMMA GrantStateOf ==
    ASSUME NEW a \in Agents, authorizations[a] \in Authorization
    PROVE  GrantState[a] = IF authorizations[a].status = "none" THEN "none"
                           ELSE IF authorizations[a].status = "pending" THEN "asked"
                           ELSE IF authorizations[a].status = "approved" THEN "approved"
                           ELSE "refused"
  BY DEF GrantState, Authorization

-----------------------------------------------------------------------------
(* The invariant follows from the moves                                    *)

LEMMA PlacedKept ==
    ASSUME IInv, TypeOK', AgentMoves,
           \A a \in Agents : agents'[a].status = "none" =>
              authorizations'[a].status = "none" /\ answers'[a] = 0
    PROVE  AgentsPlaced'
  BY DEF IInv, AgentsPlaced, AgentMoves, AgentMove, Registered, Moved, ActiveHost, Phases

LEMMA CascadeKept ==
    ASSUME IInv, TypeOK', Moves
    PROVE  CascadeGood'
  <1> SUFFICES ASSUME NEW h \in Hosts
               PROVE  /\ hosts'[h].cascade # "none" <=> hosts'[h].status = "revoked"
                      /\ \A a \in Agents : agents'[a].host = h =>
                            /\ hosts'[h].cascade \in {"active", "expired", "done"} =>
                                  agents'[a].status # "pending"
                            /\ hosts'[h].cascade \in {"expired", "done"} => agents'[a].status # "active"
                            /\ hosts'[h].cascade = "done" => agents'[a].status # "expired"
    BY DEF CascadeGood
  <1>1. HostMove(h)
    BY DEF Moves, HostMoves
  <1>2. hosts[h].cascade # "none" <=> hosts[h].status = "revoked"
    BY DEF IInv, CascadeGood
  <1>3. hosts'[h].cascade # "none" <=> hosts'[h].status = "revoked"
    BY <1>1, <1>2 DEF HostMove, Phases, NextPhase
  <1>4. ASSUME NEW a \in Agents, agents'[a].host = h
        PROVE  /\ hosts'[h].cascade \in {"active", "expired", "done"} => agents'[a].status # "pending"
               /\ hosts'[h].cascade \in {"expired", "done"} => agents'[a].status # "active"
               /\ hosts'[h].cascade = "done" => agents'[a].status # "expired"
    <2>1. AgentMove(a)
      BY DEF Moves, AgentMoves
    <2>2. CASE Registered(a)
      <3>1. hosts[h].status = "active" /\ hosts[h].cascade = "none"
        BY <1>2, <1>4, <2>2 DEF Registered, ActiveHost
      <3>2. hosts'[h].cascade \in {"none", "pending"}
        BY <1>1, <3>1 DEF HostMove, Phases
      <3> QED BY <3>2
    <2>3. CASE agents'[a] = agents[a] \/ Moved(a)
      <3>1. /\ agents[a].host = h
            /\ agents[a].status \notin {"pending"} => agents'[a].status # "pending"
            /\ agents[a].status \notin {"pending", "active"} /\ hosts[h].status # "active" =>
                  agents'[a].status # "active"
            /\ agents[a].status \notin {"active", "expired"} => agents'[a].status # "expired"
        BY <1>4, <2>3 DEF Moved, ActiveHost, Phases
      <3>2. /\ hosts[h].cascade \in {"active", "expired", "done"} => agents[a].status # "pending"
            /\ hosts[h].cascade \in {"expired", "done"} => agents[a].status # "active"
            /\ hosts[h].cascade = "done" => agents[a].status # "expired"
        BY <3>1 DEF IInv, CascadeGood
      <3>3. CASE hosts'[h].cascade = hosts[h].cascade
        BY <1>2, <3>1, <3>2, <3>3
      <3>4. CASE hosts'[h].cascade = "pending"
        BY <3>4
      <3>5. CASE /\ hosts[h].cascade \in Phases
                 /\ hosts'[h].cascade = NextPhase(hosts[h].cascade)
                 /\ \A b \in AgentsOf(h, hosts[h].cascade) : agents'[b].status = "revoked"
        <4>1. agents[a].status = hosts[h].cascade => agents'[a].status = "revoked"
          BY <3>1, <3>5 DEF AgentsOf
        <4>2. hosts[h].status = "revoked"
          BY <1>2, <3>5 DEF Phases
        <4> QED BY <3>1, <3>2, <3>5, <4>1, <4>2 DEF Phases, NextPhase
      <3> QED BY <1>1, <3>3, <3>4, <3>5 DEF HostMove
    <2> QED BY <2>1, <2>2, <2>3 DEF AgentMove
  <1> QED BY <1>3, <1>4

LEMMA PromiseStutters ==
    ASSUME UNCHANGED <<authorizations, answers>> PROVE PromiseStep
  <1>1. GrantState' = GrantState
    BY DEF GrantState
  <1> QED BY <1>1 DEF PromiseStep, Promise!grantVars

-----------------------------------------------------------------------------
(* The steps that leave agents alone                                       *)

LEMMA Untouched ==
    ASSUME IInv, TypeOK', UNCHANGED <<agents, grants, authorizations, answers>>, HostMoves
    PROVE  Kept
  <1>1. AgentMoves /\ Moves
    BY DEF AgentMoves, AgentMove, Moves
  <1>2. AgentsPlaced' /\ RevokedHoldsNothing' /\ AnswersGood'
    BY DEF IInv, AgentsPlaced, RevokedHoldsNothing, AnswersGood
  <1>3. CascadeGood'
    BY <1>1, CascadeKept
  <1> QED BY <1>1, <1>2, <1>3, PromiseStutters DEF Kept, IInv

LEMMA OrganizationStep ==
    ASSUME IInv, (\E status \in {"active", "suspended"} : SetOrganization(status))
                 \/ (\E M \in SUBSET Users : SetMembers(M))
    PROVE  Kept
  <1>1. UNCHANGED <<hosts, agents, grants, authorizations, answers>>
    BY DEF SetOrganization, SetMembers
  <1>2. TypeOK'
    BY <1>1 DEF SetOrganization, SetMembers, IInv, TypeOK
  <1>3. HostMoves
    BY <1>1, Numbers DEF HostMoves, HostMove, IInv, TypeOK, Host
  <1> QED BY <1>1, <1>2, <1>3, Untouched

\* One host is written.
LEMMA HostPut ==
    ASSUME IInv, NEW h \in Hosts, NEW row \in Host, hosts' = [hosts EXCEPT ![h] = row]
    PROVE  /\ hosts' \in [Hosts -> Host] /\ hosts'[h] = row
           /\ \A g \in Hosts : g # h => hosts'[g] = hosts[g]
  BY DEF IInv, TypeOK

LEMMA OneHost ==
    ASSUME IInv, NEW h \in Hosts, hosts' \in [Hosts -> Host],
           \A g \in Hosts : g # h => hosts'[g] = hosts[g],
           hosts'[h].gen >= hosts[h].gen,
           hosts[h].status \in {"rejected", "revoked"} => hosts'[h].status = hosts[h].status,
           hosts'[h].status = "revoked" =>
              hosts[h].status = "revoked" \/ hosts'[h].cascade = "pending",
           \/ hosts'[h].cascade = hosts[h].cascade
           \/ /\ hosts'[h].cascade = "pending"
              /\ hosts[h].status # "revoked" /\ hosts'[h].status = "revoked",
           UNCHANGED <<agents, grants, authorizations, organization, members, answers>>
    PROVE  Kept
  <1>1. TypeOK'
    BY DEF IInv, TypeOK
  <1>2. \A g \in Hosts : hosts[g].gen \in Nat
    BY Numbers DEF IInv, TypeOK, Host
  <1>3. HostMoves
    BY <1>2 DEF HostMoves, HostMove
  <1> QED BY <1>1, <1>3, Untouched

LEMMA RegisterAgentHostStep ==
    ASSUME IInv, NEW h \in Hosts, NEW u \in Users, RegisterAgentHost(h, u)
    PROVE  Kept
  <1> DEFINE row == [hosts[h] EXCEPT !.status = "pending", !.keyLive = TRUE]
  <1>1. hosts[h] \in Host /\ hosts[h].gen \in Nat /\ hosts[h].status = "none"
    BY Numbers DEF RegisterAgentHost, IInv, TypeOK, Host
  <1>2. /\ row \in Host /\ row.gen = hosts[h].gen /\ row.cascade = hosts[h].cascade
        /\ row.status = "pending" /\ hosts' = [hosts EXCEPT ![h] = row]
    BY <1>1 DEF RegisterAgentHost, Host
  <1> HIDE DEF row
  <1>3. /\ hosts' \in [Hosts -> Host] /\ hosts'[h] = row
        /\ \A g \in Hosts : g # h => hosts'[g] = hosts[g]
    BY ONLY IInv, h \in Hosts, <1>2, HostPut
  <1>4. UNCHANGED <<agents, grants, authorizations, organization, members, answers>>
    BY DEF RegisterAgentHost
  <1> QED BY ONLY IInv, h \in Hosts, <1>1, <1>2, <1>3, <1>4, OneHost

\* By an operator or by the host itself.
LEMMA RevokeHost ==
    ASSUME IInv, NEW h \in Hosts, hosts[h].status \notin {"rejected", "revoked"},
           hosts' = [hosts EXCEPT ![h] = [@ EXCEPT !.status = "revoked", !.keyLive = FALSE,
                                                   !.cascade = "pending"]],
           UNCHANGED <<agents, grants, authorizations, organization, members, answers>>
    PROVE  Kept
  <1> DEFINE row == [hosts[h] EXCEPT !.status = "revoked", !.keyLive = FALSE,
                                     !.cascade = "pending"]
  <1>1. hosts[h] \in Host /\ hosts[h].gen \in Nat
    BY Numbers DEF IInv, TypeOK, Host
  <1>2. /\ row \in Host /\ row.gen = hosts[h].gen /\ row.cascade = "pending"
        /\ row.status = "revoked" /\ hosts' = [hosts EXCEPT ![h] = row]
    BY <1>1 DEF Host, Phases
  <1> HIDE DEF row
  <1>3. /\ hosts' \in [Hosts -> Host] /\ hosts'[h] = row
        /\ \A g \in Hosts : g # h => hosts'[g] = hosts[g]
    BY ONLY IInv, h \in Hosts, <1>2, HostPut
  <1>4. UNCHANGED <<agents, grants, authorizations, organization, members, answers>>
    OBVIOUS
  <1>5. hosts[h].status \notin {"rejected", "revoked"}
    OBVIOUS
  <1> QED BY ONLY IInv, h \in Hosts, <1>1, <1>2, <1>3, <1>4, <1>5, OneHost

LEMMA SetAgentHostStatusStep ==
    ASSUME IInv, NEW h \in Hosts, NEW status \in {"active", "rejected", "revoked"}, NEW u \in Users,
           SetAgentHostStatus(h, status, u)
    PROVE  Kept
  <1>1. hosts[h].status \notin {"rejected", "revoked"}
    BY DEF SetAgentHostStatus, HostMayBecome
  <1>2. CASE status = "revoked"
    BY <1>1, <1>2, RevokeHost DEF SetAgentHostStatus
  <1>3. CASE status # "revoked"
    <2> DEFINE row == [hosts[h] EXCEPT !.status = status]
    <2>1. hosts[h] \in Host /\ hosts[h].gen \in Nat
      BY Numbers DEF IInv, TypeOK, Host
    <2>2. /\ row \in Host /\ row.gen = hosts[h].gen /\ row.cascade = hosts[h].cascade
          /\ row.status # "revoked" /\ hosts' = [hosts EXCEPT ![h] = row]
      BY <1>3, <2>1 DEF Host, SetAgentHostStatus
    <2> HIDE DEF row
    <2>3. /\ hosts' \in [Hosts -> Host] /\ hosts'[h] = row
          /\ \A g \in Hosts : g # h => hosts'[g] = hosts[g]
      BY ONLY IInv, h \in Hosts, <2>2, HostPut
    <2>4. UNCHANGED <<agents, grants, authorizations, organization, members, answers>>
      BY DEF SetAgentHostStatus
    <2> QED BY ONLY IInv, h \in Hosts, <1>1, <2>1, <2>2, <2>3, <2>4, OneHost
  <1> QED BY <1>2, <1>3

LEMMA RevokeAgentHostAsHostStep ==
    ASSUME IInv, NEW h \in Hosts, RevokeAgentHostAsHost(h)
    PROVE  Kept
  BY RevokeHost DEF RevokeAgentHostAsHost

LEMMA RotateHostKeyStep ==
    ASSUME IInv, NEW h \in Hosts, RotateHostKey(h)
    PROVE  Kept
  <1>1. /\ hosts[h] \in Host /\ hosts[h].gen \in Nat /\ hosts[h].status = "active"
        /\ hosts[h].gen + 1 \in 1 .. MaxGeneration
    BY Numbers DEF RotateHostKey, IInv, TypeOK, Host
  <1>2. PICK row \in Host :
           /\ row.gen = hosts[h].gen + 1 /\ row.cascade = hosts[h].cascade
           /\ row.status = "active" /\ hosts' = [hosts EXCEPT ![h] = row]
    <2> DEFINE row == [hosts[h] EXCEPT !.gen = hosts[h].gen + 1, !.keyLive = TRUE]
    <2>1. row \in Host
      BY <1>1 DEF Host
    <2>2. row.gen = hosts[h].gen + 1 /\ row.cascade = hosts[h].cascade /\ row.status = "active"
      BY <1>1 DEF Host
    <2>3. hosts' = [hosts EXCEPT ![h] = row]
      BY DEF RotateHostKey
    <2> HIDE DEF row
    <2> QED BY <2>1, <2>2, <2>3
  <1>3. /\ hosts' \in [Hosts -> Host] /\ hosts'[h] = row
        /\ \A g \in Hosts : g # h => hosts'[g] = hosts[g]
    BY ONLY IInv, h \in Hosts, <1>2, HostPut
  <1>4. UNCHANGED <<agents, grants, authorizations, organization, members, answers>>
    BY DEF RotateHostKey
  <1> QED BY ONLY IInv, h \in Hosts, <1>1, <1>2, <1>3, <1>4, OneHost

-----------------------------------------------------------------------------
(* Revocation                                                              *)

HoldsNothing(a) ==
    /\ ~agents[a].keyLive
    /\ \A c \in Capabilities : grants[a][c] \notin {"pending", "active"}
    /\ authorizations[a].status # "pending"
    /\ authorizations[a].status = "approved" => authorizations[a].consumed

LEMMA DeniedType ==
    ASSUME NEW auth \in Authorization
    PROVE  /\ Denied(auth) \in Authorization
           /\ Denied(auth).status # "pending"
           /\ Denied(auth).status = "approved" => Denied(auth).consumed
           /\ Denied(auth) = auth \/
                 (/\ Denied(auth).status = "denied"
                  /\ auth.status = "pending" \/ (auth.status = "approved" /\ ~auth.consumed))
  BY DEF Denied, Authorization

\* What Revoke does to every agent, in or out of the set.
LEMMA Revoked ==
    ASSUME TypeOK, NEW A \in SUBSET Agents, Revoke(A)
    PROVE  /\ agents' \in [Agents -> Agent]
           /\ grants' \in [Agents -> [Capabilities -> GrantStates]]
           /\ authorizations' \in [Agents -> Authorization]
           /\ \A a \in A : /\ agents'[a].status = "revoked" /\ agents'[a].life = "ended"
                           /\ agents'[a].host = agents[a].host /\ agents'[a].gen = agents[a].gen
                           /\ authorizations'[a] = Denied(authorizations[a])
                           /\ HoldsNothing(a)'
           /\ \A a \in Agents \ A : /\ agents'[a] = agents[a] /\ grants'[a] = grants[a]
                                     /\ authorizations'[a] = authorizations[a]
  <1> DEFINE row(a) == [agents[a] EXCEPT !.status = "revoked", !.keyLive = FALSE, !.life = "ended"]
  <1>1. ASSUME NEW a \in Agents
        PROVE  /\ row(a) \in Agent /\ row(a).status = "revoked" /\ row(a).life = "ended"
               /\ ~row(a).keyLive /\ row(a).host = agents[a].host /\ row(a).gen = agents[a].gen
    <2>1. agents[a] \in Agent
      BY DEF TypeOK
    <2> QED BY <2>1 DEF Agent, Lives
  <1>2. agents' = [a \in Agents |-> IF a \in A THEN row(a) ELSE agents[a]]
    BY DEF Revoke
  <1>3. ASSUME NEW a \in Agents
        PROVE  /\ RevokedGrants(a) \in [Capabilities -> GrantStates]
               /\ \A c \in Capabilities : RevokedGrants(a)[c] \notin {"pending", "active"}
    <2>1. grants[a] \in [Capabilities -> GrantStates]
      BY DEF TypeOK
    <2> QED BY <2>1 DEF RevokedGrants, GrantStates
  <1>4. grants' = [a \in Agents |-> IF a \in A THEN RevokedGrants(a) ELSE grants[a]]
    BY DEF Revoke
  <1>5. \A a \in Agents : authorizations[a] \in Authorization
    BY DEF TypeOK
  <1>6. authorizations' = [a \in Agents |-> IF a \in A THEN Denied(authorizations[a])
                                           ELSE authorizations[a]]
    BY DEF Revoke
  <1> HIDE DEF row
  <1>7. agents' \in [Agents -> Agent]
    BY <1>1, <1>2 DEF TypeOK
  <1>8. grants' \in [Agents -> [Capabilities -> GrantStates]]
    BY <1>3, <1>4 DEF TypeOK
  <1>9. authorizations' \in [Agents -> Authorization]
    BY <1>5, <1>6, DeniedType
  <1>10. ASSUME NEW a \in A
         PROVE  /\ agents'[a] = row(a) /\ grants'[a] = RevokedGrants(a)
                /\ authorizations'[a] = Denied(authorizations[a])
    BY <1>2, <1>4, <1>6
  <1>11. \A a \in Agents \ A : /\ agents'[a] = agents[a] /\ grants'[a] = grants[a]
                                /\ authorizations'[a] = authorizations[a]
    BY <1>2, <1>4, <1>6
  <1>12. ASSUME NEW a \in A PROVE HoldsNothing(a)'
    BY <1>1, <1>3, <1>5, <1>10, DeniedType DEF HoldsNothing
  <1> QED BY <1>1, <1>7, <1>8, <1>9, <1>10, <1>11, <1>12

\* For DeviceGrant it refuses the clients that wait, and those that have not
\* heard of their approval.
LEMMA RevokedPromise ==
    ASSUME IInv, NEW A \in SUBSET Agents, Revoke(A), UNCHANGED answers
    PROVE  PromiseStep
  <1> DEFINE C == {a \in A : authorizations[a].status = "pending"
                               \/ (authorizations[a].status = "approved" /\ ~authorizations[a].consumed)}
  <1>1. /\ \A a \in Agents : authorizations[a] \in Authorization
        /\ authorizations' \in [Agents -> Authorization]
    BY Revoked DEF IInv, TypeOK
  <1>2. \A a \in C : GrantState[a] \in {"asked", "approved"} /\ answers[a] = 0
    BY <1>1, GrantStateOf DEF IInv, TypeOK, AnswersGood, Authorization
  <1>3. ASSUME NEW a \in Agents
        PROVE  GrantState'[a] = IF a \in C THEN "refused" ELSE GrantState[a]
    <2>1. authorizations'[a] = IF a \in A THEN Denied(authorizations[a]) ELSE authorizations[a]
      BY Revoked DEF IInv
    <2>2. authorizations'[a].status = IF a \in C THEN "denied" ELSE authorizations[a].status
      BY <1>1, <2>1 DEF Denied, Authorization
    <2> QED BY <1>1, <2>2, GrantStateOf DEF GrantState
  <1>4. GrantState' = [a \in Agents |-> IF a \in C THEN "refused" ELSE GrantState[a]]
    <2>1. GrantState' = [a \in Agents |-> GrantState'[a]]
      BY DEF GrantState
    <2> QED BY <1>3, <2>1
  <1>5. C \in SUBSET Agents
    OBVIOUS
  <1> HIDE DEF C
  <1>6. Promise!Refuse(C)
    BY <1>2, <1>4, <1>5 DEF Promise!Refuse
  <1> QED BY <1>5, <1>6 DEF PromiseStep, Promise!GrantNext

LEMMA RevokeStep ==
    ASSUME IInv, NEW A \in SUBSET Agents, Revoke(A), \A a \in A : agents[a].status \in Phases,
           hosts' \in [Hosts -> Host], HostMoves, UNCHANGED <<organization, members, answers>>
    PROVE  Kept
  <1>1. TypeOK'
    BY Revoked DEF IInv, TypeOK
  <1>2. ASSUME NEW a \in Agents PROVE AgentMove(a)
    <2>1. agents[a] \in Agent /\ agents[a].gen \in Nat
      BY Numbers DEF IInv, TypeOK, Agent
    <2>2. CASE a \in A
      <3>1. /\ agents'[a].status = "revoked" /\ agents'[a].life = "ended"
            /\ agents'[a].host = agents[a].host /\ agents'[a].gen = agents[a].gen
        BY <2>2, Revoked DEF IInv
      <3> QED BY <2>1, <2>2, <3>1 DEF AgentMove, Moved, Phases
    <2>3. CASE a \notin A
      BY <2>3, Revoked DEF AgentMove, IInv
    <2> QED BY <2>2, <2>3
  <1>3. Moves
    BY <1>2 DEF Moves, AgentMoves
  <1>4. CascadeGood'
    BY <1>1, <1>3, CascadeKept
  <1>5. RevokedHoldsNothing'
    <2> SUFFICES ASSUME NEW a \in Agents, agents'[a].status = "revoked" PROVE HoldsNothing(a)'
      BY DEF RevokedHoldsNothing, HoldsNothing
    <2>1. CASE a \in A
      BY <2>1, Revoked DEF IInv
    <2>2. CASE a \notin A
      BY <2>2, Revoked DEF IInv, RevokedHoldsNothing, HoldsNothing
    <2> QED BY <2>1, <2>2
  <1>6. \A a \in Agents : authorizations[a] \in Authorization
    BY DEF IInv, TypeOK
  <1>7. \A a \in Agents : /\ authorizations'[a] = authorizations[a] \/
                              authorizations'[a] = Denied(authorizations[a])
                          /\ agents'[a].status = "none" => authorizations'[a] = authorizations[a]
                          /\ agents'[a].status = "none" => agents[a].status = "none"
    BY Revoked DEF IInv
  <1>8. AnswersGood'
    BY <1>6, <1>7, DeniedType DEF IInv, AnswersGood
  <1>9. AgentsPlaced'
    <2>1. \A a \in Agents : agents'[a].status = "none" =>
             authorizations'[a].status = "none" /\ answers'[a] = 0
      BY <1>7 DEF IInv, AgentsPlaced
    <2> QED BY <1>1, <1>3, <2>1, PlacedKept DEF Moves
  <1>10. PromiseStep
    BY RevokedPromise
  <1> QED BY <1>1, <1>3, <1>4, <1>5, <1>8, <1>9, <1>10 DEF Kept, IInv

LEMMA HostsStay == ASSUME IInv, UNCHANGED hosts PROVE HostMoves /\ hosts' \in [Hosts -> Host]
  BY Numbers DEF HostMoves, HostMove, IInv, TypeOK, Host

LEMMA RevokeAgentAsHostStep ==
    ASSUME IInv, NEW a \in Agents, RevokeAgentAsHost(a)
    PROVE  Kept
  <1>1. Revoke({a}) /\ agents[a].status \in Phases /\ UNCHANGED <<hosts, organization, members, answers>>
    BY DEF RevokeAgentAsHost
  <1> QED BY <1>1, HostsStay, RevokeStep

(* The last page of a phase is all that is left of it.                     *)
LEMMA CascadeStep ==
    ASSUME IInv, NEW h \in Hosts, CascadeRevokedAgentHost(h)
    PROVE  Kept
  <1> DEFINE phase == hosts[h].cascade
  <1>1. PICK page \in SUBSET AgentsOf(h, phase) :
           /\ Cardinality(page) = BatchSize \/ page = AgentsOf(h, phase)
           /\ Revoke(page)
           /\ hosts' = IF LastPage(Cardinality(page))
                       THEN [hosts EXCEPT ![h].cascade = NextPhase(@)]
                       ELSE hosts
    BY DEF CascadeRevokedAgentHost
  <1>2. phase \in Phases /\ hosts[h] \in Host /\ hosts[h].status = "revoked"
    BY DEF CascadeRevokedAgentHost, IInv, TypeOK
  <1>3. page \in SUBSET Agents /\ \A a \in page : agents[a].status \in Phases
    BY <1>1, <1>2 DEF AgentsOf
  <1>4. \A a \in page : agents'[a].status = "revoked"
    BY <1>1, <1>3, Revoked DEF IInv
  <1>5. hosts' \in [Hosts -> Host] /\ HostMoves
    <2>1. CASE hosts' = hosts
      BY <2>1, HostsStay
    <2>2. CASE LastPage(Cardinality(page))
      <3> DEFINE row == [hosts[h] EXCEPT !.cascade = NextPhase(phase)]
      <3>1. /\ row \in Host /\ row.cascade = NextPhase(phase)
            /\ row.status = hosts[h].status /\ row.gen = hosts[h].gen
        BY <1>2 DEF Host, NextPhase, Phases
      <3>2. hosts' = [hosts EXCEPT ![h] = row]
        BY <1>1, <2>2
      <3> HIDE DEF row
      <3>3. /\ hosts' \in [Hosts -> Host] /\ hosts'[h] = row
            /\ \A g \in Hosts : g # h => hosts'[g] = hosts[g]
        BY <3>1, <3>2, HostPut
      <3>4. \A g \in Hosts : hosts[g].gen \in Nat
        BY Numbers DEF IInv, TypeOK, Host
      <3>5. page = AgentsOf(h, phase)
        BY <1>1, <2>2 DEF LastPage
      <3>6. \A g \in Hosts : HostMove(g)
        BY <1>2, <1>4, <3>1, <3>3, <3>4, <3>5 DEF HostMove
      <3> QED BY <3>3, <3>6 DEF HostMoves
    <2> QED BY <1>1, <2>1, <2>2
  <1> QED BY <1>1, <1>3, <1>5, RevokeStep DEF CascadeRevokedAgentHost

-----------------------------------------------------------------------------
(* One agent                                                               *)

LEMMA OneAgent ==
    ASSUME IInv, TypeOK', NEW a \in Agents, AgentMove(a), UNCHANGED hosts,
           \A b \in Agents : b # a => /\ agents'[b] = agents[b] /\ grants'[b] = grants[b]
                                    /\ authorizations'[b] = authorizations[b]
                                    /\ answers'[b] = answers[b],
           agents'[a].status = "revoked" => HoldsNothing(a)',
           agents'[a].status = "none" => authorizations'[a].status = "none" /\ answers'[a] = 0,
           answers'[a] <= 1,
           answers'[a] # 0 => authorizations'[a].status = "approved" /\ authorizations'[a].consumed,
           PromiseStep
    PROVE  Kept
  <1>1. AgentMoves /\ Moves
    BY HostsStay DEF AgentMoves, AgentMove, Moves
  <1>2. RevokedHoldsNothing'
    BY DEF IInv, RevokedHoldsNothing, HoldsNothing
  <1>3. AnswersGood'
    BY DEF IInv, AnswersGood
  <1>4. AgentsPlaced'
    <2>1. \A b \in Agents : agents'[b].status = "none" =>
             authorizations'[b].status = "none" /\ answers'[b] = 0
      BY DEF IInv, AgentsPlaced
    <2> QED BY <1>1, <2>1, PlacedKept
  <1>5. CascadeGood'
    BY <1>1, CascadeKept
  <1> QED BY <1>1, <1>2, <1>3, <1>4, <1>5 DEF Kept, IInv

\* The same, when only the row of the agent is written.
LEMMA AgentRow ==
    ASSUME IInv, NEW a \in Agents, NEW row \in Agent, agents' = [agents EXCEPT ![a] = row],
           agents[a].status \in Phases, row.status \in Phases \cup {"rejected"},
           row.host = agents[a].host, row.gen >= agents[a].gen,
           agents[a].life = "ended" => row.life = "ended",
           row.status = "pending" => agents[a].status = "pending",
           row.status = "expired" => agents[a].status \in {"active", "expired"},
           row.status = "active" =>
              \/ agents[a].status \in {"pending", "active"}
              \/ agents[a].life # "ended" /\ ActiveHost(agents[a].host),
           grants' \in [Agents -> [Capabilities -> GrantStates]],
           \A b \in Agents : b # a => grants'[b] = grants[b],
           UNCHANGED <<hosts, authorizations, organization, members, answers>>
    PROVE  Kept
  <1>1. /\ agents' \in [Agents -> Agent] /\ agents'[a] = row
        /\ \A b \in Agents : b # a => agents'[b] = agents[b]
    BY DEF IInv, TypeOK
  <1>2. TypeOK'
    BY <1>1 DEF IInv, TypeOK
  <1>3. AgentMove(a)
    BY <1>1 DEF AgentMove, Moved
  <1>4. /\ answers'[a] <= 1
        /\ answers'[a] # 0 => authorizations'[a].status = "approved" /\ authorizations'[a].consumed
    BY DEF IInv, AnswersGood
  <1>5. agents'[a].status \notin {"none", "revoked"}
    BY <1>1 DEF Phases
  <1> QED BY <1>1, <1>2, <1>3, <1>4, <1>5, PromiseStutters, OneAgent

LEMMA AgentTyped ==
    ASSUME IInv, NEW a \in Agents
    PROVE  /\ agents[a] \in Agent /\ agents[a].gen \in Nat /\ agents[a].gen >= 1
           /\ authorizations[a] \in Authorization
           /\ grants[a] \in [Capabilities -> GrantStates]
           /\ answers[a] \in 0 .. 2
           /\ RevokedGrants(a) \in [Capabilities -> GrantStates]
  <1>1. /\ agents[a] \in Agent /\ authorizations[a] \in Authorization
        /\ grants[a] \in [Capabilities -> GrantStates] /\ answers[a] \in 0 .. 2
    BY DEF IInv, TypeOK
  <1>2. agents[a].gen \in Nat /\ agents[a].gen >= 1
    BY <1>1, Numbers DEF Agent
  <1>3. RevokedGrants(a) \in [Capabilities -> GrantStates]
    BY <1>1 DEF RevokedGrants, GrantStates
  <1> QED BY <1>1, <1>2, <1>3

LEMMA SetAgentStatusStep ==
    ASSUME IInv, NEW a \in Agents, NEW u \in Users, NEW life \in Lives,
           NEW status \in {"active", "rejected", "revoked", "expired"},
           SetAgentStatus(a, status, life, u)
    PROVE  Kept
  <1>1. /\ AgentMayBecome(agents[a].status, status) /\ LifeMayBecome(agents[a].life, life)
        /\ UNCHANGED <<hosts, organization, members, answers>>
    BY DEF SetAgentStatus
  <1>2. agents[a].status \in Phases
    BY <1>1 DEF AgentMayBecome, Phases
  <1>3. CASE status = "revoked"
    <2>1. Revoke({a})
      BY <1>3 DEF SetAgentStatus
    <2> QED BY <1>1, <1>2, <2>1, HostsStay, RevokeStep
  <1>4. CASE status # "revoked"
    <2>1. PICK row \in Agent :
             /\ row.status = status /\ row.life = life /\ row.host = agents[a].host
             /\ row.gen = agents[a].gen /\ agents' = [agents EXCEPT ![a] = row]
      <3> DEFINE row == [agents[a] EXCEPT !.status = status, !.life = life]
      <3>1. /\ row \in Agent /\ row.status = status /\ row.life = life
            /\ row.host = agents[a].host /\ row.gen = agents[a].gen
        BY AgentTyped DEF Agent, Phases
      <3>2. agents' = [agents EXCEPT ![a] = row]
        BY <1>4 DEF SetAgentStatus
      <3> HIDE DEF row
      <3> QED BY <3>1, <3>2
    <2>2. UNCHANGED <<grants, authorizations>> /\ grants \in [Agents -> [Capabilities -> GrantStates]]
      BY <1>4 DEF SetAgentStatus, IInv, TypeOK
    <2>3. /\ status \in Phases \cup {"rejected"} /\ status # "pending"
          /\ status = "expired" => agents[a].status = "active"
          /\ status = "active" => agents[a].status = "pending"
          /\ agents[a].life = "ended" => life = "ended"
          /\ agents[a].gen >= agents[a].gen
      BY <1>1, <1>4, AgentTyped DEF AgentMayBecome, LifeMayBecome, Phases
    <2> QED BY ONLY IInv, a \in Agents, <1>1, <1>2, <2>1, <2>2, <2>3, AgentRow
  <1> QED BY <1>3, <1>4

LEMMA ReactivateAgentStep ==
    ASSUME IInv, NEW a \in Agents, ReactivateAgent(a)
    PROVE  Kept
  <1>1. /\ agents[a].status = "expired" /\ HostActs(a)
        /\ UNCHANGED <<hosts, organization, members, answers>>
    BY DEF ReactivateAgent
  <1>2. agents[a].status \in Phases
    BY <1>1 DEF Phases
  <1>3. CASE Revoke({a})
    BY <1>1, <1>2, <1>3, HostsStay, RevokeStep
  <1>4. CASE ~Revoke({a})
    <2>1. /\ agents[a].life # "ended" /\ UNCHANGED authorizations
          /\ grants' = [grants EXCEPT ![a] = RevokedGrants(a)]
      BY <1>4 DEF ReactivateAgent, MayLive
    <2>2. PICK row \in Agent :
             /\ row.status = "active" /\ row.host = agents[a].host
             /\ row.gen = agents[a].gen /\ agents' = [agents EXCEPT ![a] = row]
      <3> DEFINE row == [agents[a] EXCEPT !.status = "active", !.life = "current"]
      <3>1. /\ row \in Agent /\ row.status = "active"
            /\ row.host = agents[a].host /\ row.gen = agents[a].gen
        BY AgentTyped DEF Agent, Phases, Lives
      <3>2. agents' = [agents EXCEPT ![a] = row]
        BY <1>4 DEF ReactivateAgent
      <3> HIDE DEF row
      <3> QED BY <3>1, <3>2
    <2>3. /\ grants' \in [Agents -> [Capabilities -> GrantStates]]
          /\ \A b \in Agents : b # a => grants'[b] = grants[b]
      <3>1. grants \in [Agents -> [Capabilities -> GrantStates]]
        BY DEF IInv, TypeOK
      <3> QED BY <2>1, <3>1, AgentTyped
    <2>4. ActiveHost(agents[a].host) /\ agents[a].gen >= agents[a].gen /\ "active" \in Phases
      BY <1>1, AgentTyped DEF HostActs, ActiveHost, Phases
    <2> QED BY ONLY IInv, a \in Agents, <1>1, <1>2, <2>1, <2>2, <2>3, <2>4, AgentRow
  <1> QED BY <1>3, <1>4

LEMMA RotateAgentKeyStep ==
    ASSUME IInv, NEW a \in Agents, RotateAgentKey(a)
    PROVE  Kept
  <1>1. /\ agents[a].status = "active" /\ agents[a].gen + 1 \in 1 .. MaxGeneration
        /\ UNCHANGED <<hosts, grants, authorizations, organization, members, answers>>
    BY AgentTyped, Numbers DEF RotateAgentKey
  <1>2. PICK row \in Agent :
           /\ row.status = "active" /\ row.host = agents[a].host /\ row.life = agents[a].life
           /\ row.gen = agents[a].gen + 1 /\ agents' = [agents EXCEPT ![a] = row]
    <2> DEFINE row == [agents[a] EXCEPT !.gen = agents[a].gen + 1, !.keyLive = TRUE]
    <2>1. /\ row \in Agent /\ row.status = "active" /\ row.life = agents[a].life
          /\ row.host = agents[a].host /\ row.gen = agents[a].gen + 1
      BY <1>1, AgentTyped DEF Agent
    <2>2. agents' = [agents EXCEPT ![a] = row]
      BY DEF RotateAgentKey
    <2> HIDE DEF row
    <2> QED BY <2>1, <2>2
  <1>3. agents[a].gen + 1 >= agents[a].gen /\ "active" \in Phases
    BY AgentTyped DEF Phases
  <1>4. grants \in [Agents -> [Capabilities -> GrantStates]]
    BY DEF IInv, TypeOK
  <1> QED BY ONLY IInv, a \in Agents, <1>1, <1>2, <1>3, <1>4, AgentRow

LEMMA TimePassesStep ==
    ASSUME IInv, NEW a \in Agents, NEW life \in {"lapsed", "ended"}, TimePasses(a, life)
    PROVE  Kept
  <1>1. /\ agents[a].status \in Phases
        /\ agents[a].life = "ended" => life = "ended"
        /\ UNCHANGED <<hosts, grants, authorizations, organization, members, answers>>
    BY DEF TimePasses
  <1>2. PICK row \in Agent :
           /\ row.status = agents[a].status /\ row.host = agents[a].host /\ row.life = life
           /\ row.gen = agents[a].gen /\ agents' = [agents EXCEPT ![a] = row]
    <2> DEFINE row == [agents[a] EXCEPT !.life = life]
    <2>1. /\ row \in Agent /\ row.status = agents[a].status /\ row.life = life
          /\ row.host = agents[a].host /\ row.gen = agents[a].gen
      BY AgentTyped DEF Agent, Lives
    <2>2. agents' = [agents EXCEPT ![a] = row]
      BY DEF TimePasses
    <2> HIDE DEF row
    <2> QED BY <2>1, <2>2
  <1>3. agents[a].gen >= agents[a].gen
    BY AgentTyped
  <1>4. grants \in [Agents -> [Capabilities -> GrantStates]]
    BY DEF IInv, TypeOK
  <1>5. /\ row.status = "pending" => agents[a].status = "pending"
        /\ row.status = "expired" => agents[a].status \in {"active", "expired"}
        /\ row.status = "active" => agents[a].status \in {"pending", "active"}
        /\ row.status \in Phases \cup {"rejected"}
    BY <1>1, <1>2
  <1> QED BY ONLY IInv, a \in Agents, <1>1, <1>2, <1>3, <1>4, <1>5, AgentRow

LEMMA SetAgentCapabilityGrantStatusStep ==
    ASSUME IInv, NEW a \in Agents, NEW c \in Capabilities, NEW u \in Users,
           NEW status \in {"active", "denied", "revoked"},
           SetAgentCapabilityGrantStatus(a, c, status, u)
    PROVE  Kept
  <1>1. /\ grants[a][c] \in {"pending", "active"}
        /\ grants' = [grants EXCEPT ![a][c] = status]
        /\ UNCHANGED <<hosts, agents, authorizations, organization, members, answers>>
    BY DEF SetAgentCapabilityGrantStatus
  <1>2. /\ grants' \in [Agents -> [Capabilities -> GrantStates]]
        /\ \A b \in Agents : b # a => grants'[b] = grants[b]
    BY <1>1 DEF IInv, TypeOK, GrantStates
  <1>3. TypeOK'
    BY <1>1, <1>2 DEF IInv, TypeOK
  <1>4. agents[a].status # "revoked"
    BY <1>1 DEF IInv, RevokedHoldsNothing
  <1>5. /\ agents'[a].status = "none" => authorizations'[a].status = "none" /\ answers'[a] = 0
        /\ answers'[a] <= 1
        /\ answers'[a] # 0 => authorizations'[a].status = "approved" /\ authorizations'[a].consumed
    BY <1>1 DEF IInv, AgentsPlaced, AnswersGood
  <1>6. AgentMove(a)
    BY <1>1 DEF AgentMove
  <1>7. agents'[a].status # "revoked"
    BY <1>1, <1>4
  <1> QED BY <1>1, <1>2, <1>3, <1>5, <1>6, <1>7, PromiseStutters, OneAgent

-----------------------------------------------------------------------------
(* Registration and device authorizations                                  *)

\* One authorization is written: GrantState changes there.
LEMMA GrantStatePut ==
    ASSUME IInv, NEW a \in Agents, NEW auth \in Authorization,
           authorizations' = [authorizations EXCEPT ![a] = auth]
    PROVE  /\ authorizations' \in [Agents -> Authorization] /\ authorizations'[a] = auth
           /\ \A b \in Agents : b # a => authorizations'[b] = authorizations[b]
           /\ GrantState' = [GrantState EXCEPT ![a] = GrantState'[a]]
           /\ GrantState'[a] = IF auth.status = "none" THEN "none"
                              ELSE IF auth.status = "pending" THEN "asked"
                              ELSE IF auth.status = "approved" THEN "approved"
                              ELSE "refused"
  <1>1. /\ authorizations' \in [Agents -> Authorization] /\ authorizations'[a] = auth
        /\ \A b \in Agents : b # a => authorizations'[b] = authorizations[b]
    BY DEF IInv, TypeOK
  <1>2. \A b \in Agents : b # a => GrantState'[b] = GrantState[b]
    BY <1>1 DEF GrantState
  <1>3. /\ GrantState' = [b \in Agents |-> GrantState'[b]]
        /\ GrantState = [b \in Agents |-> GrantState[b]]
    BY DEF GrantState
  <1>4. GrantState' = [GrantState EXCEPT ![a] = GrantState'[a]]
    BY <1>2, <1>3
  <1>5. GrantState'[a] = IF auth.status = "none" THEN "none"
                         ELSE IF auth.status = "pending" THEN "asked"
                         ELSE IF auth.status = "approved" THEN "approved"
                         ELSE "refused"
    BY <1>1 DEF GrantState, Authorization
  <1> QED BY <1>1, <1>4, <1>5

LEMMA RegisterAgentStep ==
    ASSUME IInv, NEW a \in Agents, NEW h \in Hosts, NEW owner \in Owners,
           NEW device \in DeviceFlows, RegisterAgent(a, h, owner, device)
    PROVE  Kept
  <1>1. /\ agents[a].status = "none" /\ ActiveHost(h)
        /\ UNCHANGED <<hosts, organization, members, answers>>
    BY DEF RegisterAgent, ActiveHost
  <1>2. authorizations[a].status = "none" /\ answers[a] = 0
    BY <1>1 DEF IInv, AgentsPlaced
  <1>3. PICK row \in Agent :
           row.status = "pending" /\ row.host = h /\ agents' = [agents EXCEPT ![a] = row]
    <2> DEFINE row == [NoAgent EXCEPT !.status = "pending", !.host = h,
                                      !.owner = owner, !.keyLive = TRUE]
    <2>1. row \in Agent /\ row.status = "pending" /\ row.host = h
      BY NoAgentType, Numbers DEF Agent, Phases
    <2>2. agents' = [agents EXCEPT ![a] = row]
      BY DEF RegisterAgent
    <2> HIDE DEF row
    <2> QED BY <2>1, <2>2
  <1>4. /\ agents' \in [Agents -> Agent] /\ agents'[a] = row
        /\ \A b \in Agents : b # a => agents'[b] = agents[b]
    BY <1>3 DEF IInv, TypeOK
  <1>5. /\ grants' \in [Agents -> [Capabilities -> GrantStates]]
        /\ \A b \in Agents : b # a => grants'[b] = grants[b]
    BY DEF RegisterAgent, IInv, TypeOK, GrantStates
  <1>6. /\ authorizations' \in [Agents -> Authorization]
        /\ \A b \in Agents : b # a => authorizations'[b] = authorizations[b]
        /\ PromiseStep
    <2>1. CASE ~device
      <3>1. authorizations' = authorizations
        BY <2>1 DEF RegisterAgent
      <3> QED BY <1>1, <3>1, PromiseStutters DEF IInv, TypeOK
    <2>2. CASE device
      <3>1. PICK auth \in Authorization :
               auth.status = "pending" /\ authorizations' = [authorizations EXCEPT ![a] = auth]
        <4> DEFINE auth == [authorizations[a] EXCEPT !.status = "pending"]
        <4>1. auth \in Authorization /\ auth.status = "pending"
          BY AgentTyped DEF Authorization
        <4>2. authorizations' = [authorizations EXCEPT ![a] = auth]
          BY <2>2 DEF RegisterAgent
        <4> HIDE DEF auth
        <4> QED BY <4>1, <4>2
      <3>2. /\ authorizations' \in [Agents -> Authorization]
            /\ \A b \in Agents : b # a => authorizations'[b] = authorizations[b]
            /\ GrantState' = [GrantState EXCEPT ![a] = "asked"]
        BY <3>1, GrantStatePut
      <3>3. GrantState[a] = "none"
        BY <1>2, AgentTyped, GrantStateOf
      <3>4. Promise!Ask(a)
        BY <1>1, <3>2, <3>3 DEF Promise!Ask
      <3> QED BY <3>2, <3>4 DEF PromiseStep, Promise!GrantNext
    <2> QED BY <2>1, <2>2
  <1>7. TypeOK'
    BY <1>1, <1>4, <1>5, <1>6 DEF IInv, TypeOK
  <1>8. AgentMove(a)
    BY <1>1, <1>3, <1>4 DEF AgentMove, Registered
  <1>9. agents'[a].status \notin {"none", "revoked"}
    BY <1>3, <1>4
  <1>10. \A b \in Agents : answers'[b] = answers[b]
    BY <1>1
  <1> QED BY <1>1, <1>2, <1>4, <1>5, <1>6, <1>7, <1>8, <1>9, <1>10, OneAgent

LEMMA ExpireStep ==
    ASSUME IInv, NEW a \in Agents, Expire(a), authorizations[a].status = "pending",
           UNCHANGED <<hosts, grants, organization, members, answers>>
    PROVE  Kept
  <1>1. answers[a] = 0 /\ agents[a].status \notin {"none", "revoked"}
    BY DEF IInv, AnswersGood, AgentsPlaced, RevokedHoldsNothing
  <1>2. PICK auth \in Authorization :
           auth.status = "expired" /\ authorizations' = [authorizations EXCEPT ![a] = auth]
    <2> DEFINE auth == [authorizations[a] EXCEPT !.status = "expired"]
    <2>1. auth \in Authorization /\ auth.status = "expired"
      BY AgentTyped DEF Authorization
    <2>2. authorizations' = [authorizations EXCEPT ![a] = auth]
      BY DEF Expire
    <2> HIDE DEF auth
    <2> QED BY <2>1, <2>2
  <1>3. /\ authorizations' \in [Agents -> Authorization]
        /\ \A b \in Agents : b # a => authorizations'[b] = authorizations[b]
        /\ GrantState' = [GrantState EXCEPT ![a] = "refused"]
    BY <1>2, GrantStatePut
  <1>4. GrantState[a] = "asked"
    BY AgentTyped, GrantStateOf
  <1>5. PromiseStep
    <2>1. GrantState = [b \in Agents |-> GrantState[b]]
      BY DEF GrantState
    <2>2. GrantState' = [b \in Agents |-> IF b \in {a} THEN "refused" ELSE GrantState[b]]
      BY <1>3, <2>1
    <2>3. Promise!Refuse({a})
      BY <1>1, <1>4, <2>2 DEF Promise!Refuse
    <2>4. {a} \in SUBSET Agents
      OBVIOUS
    <2> QED BY <2>3, <2>4 DEF PromiseStep, Promise!GrantNext
  <1>6. /\ agents' \in [Agents -> Agent] /\ AgentMove(a)
        /\ \A b \in Agents : b # a => agents'[b] = agents[b]
        /\ agents'[a].status \notin {"none", "revoked"}
    <2>1. CASE agents[a].status # "pending"
      BY <1>1, <2>1 DEF Expire, AgentMove, IInv, TypeOK
    <2>2. CASE agents[a].status = "pending"
      <3>1. PICK row \in Agent :
               /\ row.status = "rejected" /\ row.host = agents[a].host
               /\ row.gen = agents[a].gen /\ row.life = agents[a].life
               /\ agents' = [agents EXCEPT ![a] = row]
        <4> DEFINE row == [agents[a] EXCEPT !.status = "rejected"]
        <4>1. /\ row \in Agent /\ row.status = "rejected" /\ row.host = agents[a].host
              /\ row.gen = agents[a].gen /\ row.life = agents[a].life
          BY AgentTyped DEF Agent
        <4>2. agents' = [agents EXCEPT ![a] = row]
          BY <2>2 DEF Expire
        <4> HIDE DEF row
        <4> QED BY <4>1, <4>2
      <3>2. /\ agents' \in [Agents -> Agent] /\ agents'[a] = row
            /\ \A b \in Agents : b # a => agents'[b] = agents[b]
        BY <3>1 DEF IInv, TypeOK
      <3>3. AgentMove(a)
        BY <2>2, <3>1, <3>2, AgentTyped DEF AgentMove, Moved, Phases
      <3> QED BY <3>1, <3>2, <3>3
    <2> QED BY <2>1, <2>2
  <1>7. TypeOK'
    BY <1>3, <1>6 DEF IInv, TypeOK
  <1>8. /\ \A b \in Agents : grants'[b] = grants[b] /\ answers'[b] = answers[b]
        /\ UNCHANGED hosts
    OBVIOUS
  <1> QED BY ONLY IInv, a \in Agents, <1>1, <1>3, <1>5, <1>6, <1>7, <1>8, OneAgent

LEMMA DecideAgentDeviceAuthorizationStep ==
    ASSUME IInv, NEW a \in Agents, NEW u \in Users, NEW decision \in {"approved", "denied"},
           DecideAgentDeviceAuthorization(a, u, decision)
    PROVE  Kept
  <1>1. /\ authorizations[a].status = "pending"
        /\ UNCHANGED <<hosts, grants, organization, members, answers>>
    BY DEF DecideAgentDeviceAuthorization
  <1>2. CASE Expire(a)
    BY <1>1, <1>2, ExpireStep
  <1>3. CASE ~Expire(a)
    <2>1. agents[a].status = "pending" /\ answers[a] = 0
      BY <1>1, <1>3 DEF DecideAgentDeviceAuthorization, IInv, AnswersGood
    <2>2. PICK auth \in Authorization :
             auth.status = decision /\ authorizations' = [authorizations EXCEPT ![a] = auth]
      <3> DEFINE auth == [authorizations[a] EXCEPT !.status = decision]
      <3>1. auth \in Authorization /\ auth.status = decision
        BY AgentTyped DEF Authorization
      <3>2. authorizations' = [authorizations EXCEPT ![a] = auth]
        BY <1>3 DEF DecideAgentDeviceAuthorization
      <3> HIDE DEF auth
      <3> QED BY <3>1, <3>2
    <2>3. /\ authorizations' \in [Agents -> Authorization]
          /\ \A b \in Agents : b # a => authorizations'[b] = authorizations[b]
          /\ GrantState' = [GrantState EXCEPT ![a] = IF decision = "approved" THEN "approved"
                                                     ELSE "refused"]
      BY <2>2, GrantStatePut
    <2>4. GrantState[a] = "asked"
      BY <1>1, AgentTyped, GrantStateOf
    <2>5. PromiseStep
      <3>1. CASE decision = "approved"
        <4>1. Promise!Approve(a)
          BY <1>1, <2>3, <2>4, <3>1 DEF Promise!Approve
        <4> QED BY <4>1 DEF PromiseStep, Promise!GrantNext
      <3>2. CASE decision # "approved"
        <4>1. GrantState = [b \in Agents |-> GrantState[b]]
          BY DEF GrantState
        <4>2. GrantState' = [b \in Agents |-> IF b \in {a} THEN "refused" ELSE GrantState[b]]
          BY <2>3, <3>2, <4>1
        <4>3. Promise!Refuse({a})
          BY <1>1, <2>1, <2>4, <4>2 DEF Promise!Refuse
        <4>4. {a} \in SUBSET Agents
          OBVIOUS
        <4> QED BY <4>3, <4>4 DEF PromiseStep, Promise!GrantNext
      <3> QED BY <3>1, <3>2
    <2>6. PICK row \in Agent :
             /\ row.status \in {"active", "rejected"} /\ row.host = agents[a].host
             /\ row.gen = agents[a].gen /\ row.life = agents[a].life
             /\ agents' = [agents EXCEPT ![a] = row]
      <3> DEFINE row == [agents[a] EXCEPT !.status = IF decision = "approved" THEN "active"
                                                     ELSE "rejected"]
      <3>1. /\ row \in Agent /\ row.status \in {"active", "rejected"}
            /\ row.host = agents[a].host
            /\ row.gen = agents[a].gen /\ row.life = agents[a].life
        BY AgentTyped DEF Agent, Phases
      <3>2. agents' = [agents EXCEPT ![a] = row]
        BY <1>3 DEF DecideAgentDeviceAuthorization
      <3> HIDE DEF row
      <3> QED BY <3>1, <3>2
    <2>7. /\ agents' \in [Agents -> Agent] /\ agents'[a] = row
          /\ \A b \in Agents : b # a => agents'[b] = agents[b]
      BY <2>6 DEF IInv, TypeOK
    <2>8. AgentMove(a) /\ agents'[a].status \notin {"none", "revoked"}
      BY <2>1, <2>6, <2>7, AgentTyped DEF AgentMove, Moved, Phases
    <2>9. TypeOK'
      BY <1>1, <2>3, <2>7 DEF IInv, TypeOK
    <2>10. /\ \A b \in Agents : grants'[b] = grants[b] /\ answers'[b] = answers[b]
           /\ UNCHANGED hosts
      BY <1>1
    <2> QED BY ONLY IInv, a \in Agents, <2>1, <2>3, <2>5, <2>7, <2>8, <2>9, <2>10, OneAgent
  <1> QED BY <1>2, <1>3

LEMMA PollAgentDeviceAuthorizationStep ==
    ASSUME IInv, NEW a \in Agents, PollAgentDeviceAuthorization(a)
    PROVE  Kept
  <1>1. UNCHANGED <<hosts, grants, organization, members>>
    BY DEF PollAgentDeviceAuthorization
  <1>2. CASE Expire(a) /\ authorizations[a].status = "pending" /\ UNCHANGED answers
    BY <1>1, <1>2, ExpireStep
  <1>3. CASE ~(Expire(a) /\ authorizations[a].status = "pending" /\ UNCHANGED answers)
    <2>1. /\ authorizations[a].status = "approved" /\ ~authorizations[a].consumed
          /\ UNCHANGED agents /\ answers[a] = 0
      BY <1>3 DEF PollAgentDeviceAuthorization, Deliverable, IInv, AnswersGood
    <2>2. PICK auth \in Authorization :
             /\ auth.status = "approved" /\ auth.consumed
             /\ authorizations' = [authorizations EXCEPT ![a] = auth]
      <3> DEFINE auth == [authorizations[a] EXCEPT !.consumed = TRUE]
      <3>1. auth \in Authorization /\ auth.status = "approved" /\ auth.consumed
        BY <2>1, AgentTyped DEF Authorization
      <3>2. authorizations' = [authorizations EXCEPT ![a] = auth]
        BY <1>3 DEF PollAgentDeviceAuthorization
      <3> HIDE DEF auth
      <3> QED BY <3>1, <3>2
    <2>3. /\ authorizations' \in [Agents -> Authorization] /\ authorizations'[a] = auth
          /\ \A b \in Agents : b # a => authorizations'[b] = authorizations[b]
          /\ GrantState' = [GrantState EXCEPT ![a] = "approved"]
      BY <2>2, GrantStatePut
    <2>4. GrantState[a] = "approved"
      BY <2>1, AgentTyped, GrantStateOf
    <2>5. GrantState' = GrantState
      <3>1. GrantState = [b \in Agents |-> GrantState[b]]
        BY DEF GrantState
      <3> QED BY <2>3, <2>4, <3>1
    <2>6. answers' = [answers EXCEPT ![a] = 1]
      <3>1. answers' = [answers EXCEPT ![a] = IF @ < 2 THEN @ + 1 ELSE @]
        BY <1>3 DEF PollAgentDeviceAuthorization
      <3> QED BY <2>1, <3>1 DEF IInv, TypeOK
    <2>7. PromiseStep
      <3>1. Promise!Tell(a)
        BY <2>1, <2>4, <2>5, <2>6 DEF Promise!Tell
      <3> QED BY <3>1 DEF PromiseStep, Promise!GrantNext
    <2>8. /\ answers' \in [Agents -> 0 .. 2] /\ answers'[a] = 1
          /\ \A b \in Agents : b # a => answers'[b] = answers[b]
      BY <2>6 DEF IInv, TypeOK
    <2>9. TypeOK'
      BY <1>1, <2>1, <2>3, <2>8 DEF IInv, TypeOK
    <2>10. agents'[a].status = "revoked" => HoldsNothing(a)'
      BY <1>1, <2>1, <2>2, <2>3 DEF HoldsNothing, IInv, RevokedHoldsNothing
    <2>11. AgentMove(a) /\ agents'[a].status # "none"
      BY <2>1 DEF AgentMove, IInv, AgentsPlaced
    <2> QED BY <1>1, <2>1, <2>2, <2>3, <2>7, <2>8, <2>9, <2>10, <2>11, OneAgent
  <1> QED BY <1>2, <1>3

LEMMA AuthorizationLapsesStep ==
    ASSUME IInv, NEW a \in Agents, AuthorizationLapses(a)
    PROVE  Kept
  <1>1. UNCHANGED <<hosts, agents, grants, organization, members, answers>>
    BY DEF AuthorizationLapses
  <1>2. PICK auth \in Authorization :
           /\ auth.status = authorizations[a].status /\ auth.consumed = authorizations[a].consumed
           /\ authorizations' = [authorizations EXCEPT ![a] = auth]
    <2> DEFINE auth == [authorizations[a] EXCEPT !.lapsed = TRUE]
    <2>1. /\ auth \in Authorization /\ auth.status = authorizations[a].status
          /\ auth.consumed = authorizations[a].consumed
      BY AgentTyped DEF Authorization
    <2>2. authorizations' = [authorizations EXCEPT ![a] = auth]
      BY DEF AuthorizationLapses
    <2> HIDE DEF auth
    <2> QED BY <2>1, <2>2
  <1>3. /\ authorizations' \in [Agents -> Authorization] /\ authorizations'[a] = auth
        /\ \A b \in Agents : b # a => authorizations'[b] = authorizations[b]
        /\ GrantState' = [GrantState EXCEPT ![a] = GrantState'[a]]
        /\ GrantState'[a] = IF auth.status = "none" THEN "none"
                           ELSE IF auth.status = "pending" THEN "asked"
                           ELSE IF auth.status = "approved" THEN "approved"
                           ELSE "refused"
    BY <1>2, GrantStatePut
  <1>4. GrantState' = GrantState
    <2>1. GrantState'[a] = GrantState[a]
      BY <1>2, <1>3, GrantStateOf, AgentTyped
    <2>2. GrantState = [b \in Agents |-> GrantState[b]]
      BY DEF GrantState
    <2> QED BY <1>3, <2>1, <2>2
  <1>5. PromiseStep
    BY <1>1, <1>4 DEF PromiseStep, Promise!grantVars
  <1>6. TypeOK'
    BY <1>1, <1>3 DEF IInv, TypeOK
  <1>7. agents'[a].status = "revoked" => HoldsNothing(a)'
    BY <1>1, <1>2, <1>3 DEF HoldsNothing, IInv, RevokedHoldsNothing
  <1>8. /\ agents'[a].status = "none" => authorizations'[a].status = "none" /\ answers'[a] = 0
        /\ answers'[a] <= 1
        /\ answers'[a] # 0 => authorizations'[a].status = "approved" /\ authorizations'[a].consumed
    BY <1>1, <1>2, <1>3 DEF IInv, AgentsPlaced, AnswersGood
  <1>9. AgentMove(a) /\ \A b \in Agents : agents'[b] = agents[b] /\ grants'[b] = grants[b]
                                          /\ answers'[b] = answers[b]
    BY <1>1 DEF AgentMove
  <1> QED BY <1>1, <1>3, <1>5, <1>6, <1>7, <1>8, <1>9, OneAgent

-----------------------------------------------------------------------------
(* Every step                                                              *)

LEMMA InvInit == Init => IInv /\ Promise!GrantInit
  <1> SUFFICES ASSUME Init PROVE IInv /\ Promise!GrantInit
    OBVIOUS
  <1>1. \A h \in Hosts : hosts[h] \in Host /\ hosts[h].cascade = "none" /\ hosts[h].status = "none"
    BY Numbers DEF Init, Host
  <1>2. \A a \in Agents : agents[a] = NoAgent /\ answers[a] = 0
    BY DEF Init
  <1>3. \A a \in Agents : authorizations[a] \in Authorization /\ authorizations[a].status = "none"
    BY DEF Init, NoAuthorization, Authorization
  <1>4. grants \in [Agents -> [Capabilities -> GrantStates]]
    BY DEF Init, GrantStates
  <1>5. TypeOK
    <2>1. hosts \in [Hosts -> Host]
      BY <1>1 DEF Init
    <2>2. agents \in [Agents -> Agent]
      BY NoAgentType DEF Init
    <2>3. authorizations \in [Agents -> Authorization]
      BY <1>3 DEF Init
    <2>4. /\ organization \in {"active", "suspended"} /\ members \in SUBSET Users
          /\ answers \in [Agents -> 0 .. 2]
      BY DEF Init
    <2> QED BY ONLY <1>4, <2>1, <2>2, <2>3, <2>4 DEF TypeOK
  <1>6. AgentsPlaced /\ CascadeGood /\ RevokedHoldsNothing /\ AnswersGood
    BY <1>1, <1>2, <1>3, NoAgentType
       DEF AgentsPlaced, CascadeGood, RevokedHoldsNothing, AnswersGood
  <1>7. GrantState = [a \in Agents |-> "none"]
    BY <1>3 DEF GrantState
  <1>8. Promise!GrantInit
    BY <1>7 DEF Promise!GrantInit, Init
  <1> QED BY <1>5, <1>6, <1>8 DEF IInv

LEMMA HostStepKept == ASSUME IInv, NEW h \in Hosts, HostStep(h) PROVE Kept
  BY RegisterAgentHostStep, SetAgentHostStatusStep, RevokeAgentHostAsHostStep, RotateHostKeyStep,
     CascadeStep DEF HostStep

LEMMA AgentStepKept == ASSUME IInv, NEW a \in Agents, AgentStep(a) PROVE Kept
  BY RegisterAgentStep, SetAgentStatusStep, RevokeAgentAsHostStep, ReactivateAgentStep,
     RotateAgentKeyStep, SetAgentCapabilityGrantStatusStep, TimePassesStep,
     DecideAgentDeviceAuthorizationStep, PollAgentDeviceAuthorizationStep,
     AuthorizationLapsesStep DEF AgentStep

LEMMA Stutter == ASSUME IInv, UNCHANGED vars PROVE Kept
  <1>1. UNCHANGED <<hosts, agents, grants, authorizations, organization, members, answers>>
    BY DEF vars
  <1>2. TypeOK'
    BY <1>1 DEF IInv, TypeOK
  <1> QED BY <1>1, <1>2, HostsStay, Untouched

LEMMA Step == IInv /\ [Next]_vars => Kept
  <1> SUFFICES ASSUME IInv, [Next]_vars PROVE Kept
    OBVIOUS
  <1>1. CASE UNCHANGED vars
    BY <1>1, Stutter
  <1>2. CASE Next
    BY <1>2, OrganizationStep, HostStepKept, AgentStepKept DEF Next
  <1> QED BY <1>1, <1>2

-----------------------------------------------------------------------------
(* Signed requests                                                         *)

\* A JWT names hosts and agents that exist; it was accepted at most once, and
\* then it is recorded or its time has passed; a request that is to be consumed
\* holds the generations of its JWT.
JwtGood(j) ==
    /\ jwts[j].state = "none" => uses[j] = 0
    /\ jwts[j].state # "none" =>
          /\ jwts[j].host \in Hosts
          /\ jwts[j].agent # "host" => agents[jwts[j].agent].host = jwts[j].host
    /\ uses[j] <= 1
    /\ uses[j] # 0 => jwts[j].recorded \/ jwts[j].state = "lapsed"

RequestGood(r) ==
    requests[r].op = "consume" =>
        /\ requests[r].jwt \in Jwts
        /\ jwts[requests[r].jwt].state # "none"
        /\ requests[r].gen = jwts[requests[r].jwt].gen
        /\ requests[r].hostGen = jwts[requests[r].jwt].hostGen

CredentialInv ==
    /\ IInv
    /\ CredentialTypeOK
    /\ \A j \in Jwts : JwtGood(j)
    /\ \A r \in Requests : RequestGood(r)

\* One step of SpentNeverAccepted
SpentKept ==
    \A j \in Jwts : jwts[j].state # "none" /\ Spent(j) => uses'[j] = uses[j] /\ Spent(j)'

LEMMA JwtTyped ==
    ASSUME CredentialInv, NEW j \in Jwts
    PROVE  /\ jwts[j] \in Jwt /\ uses[j] \in 0 .. 2
           /\ jwts[j].gen \in Nat /\ jwts[j].hostGen \in Nat
  BY Numbers DEF CredentialInv, CredentialTypeOK, Jwt, Generations

LEMMA RequestTyped ==
    ASSUME CredentialInv, NEW r \in Requests
    PROVE  requests[r] \in Request
  BY DEF CredentialInv, CredentialTypeOK

\* What was signed and is spent stays so: keys only move on, and nothing that has
\* ended comes back.
LEMMA SpentStays ==
    ASSUME CredentialInv, IInv', Moves, NEW j \in Jwts, jwts[j].state # "none", Spent(j),
           jwts'[j].host = jwts[j].host, jwts'[j].agent = jwts[j].agent,
           jwts'[j].gen = jwts[j].gen, jwts'[j].hostGen = jwts[j].hostGen
    PROVE  Spent(j)'
  <1> DEFINE h == jwts[j].host
             a == jwts[j].agent
  <1>1. h \in Hosts /\ (a # "host" => agents[a].host = h)
    BY DEF CredentialInv, JwtGood
  <1>2. /\ hosts[h] \in Host /\ hosts'[h] \in Host /\ jwts[j] \in Jwt
        /\ hosts[h].gen \in Nat /\ hosts'[h].gen \in Nat /\ jwts[j].hostGen \in Nat
        /\ jwts[j].gen \in Nat
    BY <1>1, JwtTyped, Numbers DEF CredentialInv, IInv, TypeOK, Host
  <1>3. HostMove(h)
    BY <1>1 DEF Moves, HostMoves
  <1>4. CASE hosts[h].status \in {"rejected", "revoked"} \/ hosts[h].gen > jwts[j].hostGen
    BY <1>2, <1>3, <1>4 DEF HostMove, Spent
  <1>5. CASE /\ a # "host"
             /\ \/ agents[a].gen > jwts[j].gen
                \/ agents[a].life = "ended"
                \/ agents[a].status \in {"revoked", "rejected"}
    <2>1. a \in Agents /\ agents[a].status # "none"
      BY <1>1, <1>2, <1>5, Numbers DEF Jwt, CredentialInv, IInv, AgentsPlaced
    <2>2. AgentMove(a) /\ agents[a].gen \in Nat /\ agents'[a].gen \in Nat
      BY <2>1, Numbers DEF Moves, AgentMoves, IInv, TypeOK, Agent, CredentialInv
    <2>3. CASE agents'[a] = agents[a]
      BY <1>5, <2>3 DEF Spent
    <2>4. CASE Moved(a)
      <3>1. agents[a].status \notin {"revoked", "rejected"}
        BY <2>4 DEF Moved, Phases
      <3> QED BY <1>2, <1>5, <2>2, <2>4, <3>1 DEF Moved, Spent
    <2> QED BY <2>1, <2>2, <2>3, <2>4 DEF AgentMove, Registered
  <1> QED BY <1>4, <1>5 DEF Spent

\* What the agents' own steps leave of a signed request
LEMMA JwtStays ==
    ASSUME CredentialInv, Moves, NEW j \in Jwts, jwts'[j] = jwts[j], uses'[j] = uses[j]
    PROVE  JwtGood(j)'
  <1> DEFINE a == jwts[j].agent
  <1>1. jwts[j].state # "none" /\ a # "host" => agents'[a].host = agents[a].host
    <2> SUFFICES ASSUME jwts[j].state # "none", a # "host" PROVE agents'[a].host = agents[a].host
      OBVIOUS
    <2>1. a \in Agents
      BY JwtTyped DEF Jwt
    <2>2. agents[a].status # "none"
      BY <2>1, Numbers DEF CredentialInv, JwtGood, IInv, AgentsPlaced
    <2> QED BY <2>1, <2>2 DEF Moves, AgentMoves, AgentMove, Registered, Moved
  <1> QED BY <1>1 DEF CredentialInv, JwtGood

CredentialKept == CredentialInv' /\ Kept /\ SpentKept

LEMMA AgentsMoveOn ==
    ASSUME CredentialInv, Kept, UNCHANGED <<jwts, requests, uses>>
    PROVE  CredentialKept
  <1>1. CredentialTypeOK'
    BY DEF CredentialInv, CredentialTypeOK, Kept, IInv
  <1>2. \A j \in Jwts : JwtGood(j)'
    BY JwtStays DEF Kept
  <1>3. \A r \in Requests : RequestGood(r)'
    BY DEF CredentialInv, RequestGood
  <1>4. SpentKept
    BY SpentStays DEF SpentKept, Kept
  <1> QED BY <1>1, <1>2, <1>3, <1>4 DEF CredentialKept, CredentialInv, Kept

\* One signed request is written, by a step that leaves the agents alone.
LEMMA JwtPut ==
    ASSUME CredentialInv, NEW j \in Jwts, NEW row \in Jwt, jwts' = [jwts EXCEPT ![j] = row],
           UNCHANGED vars, JwtGood(j)',
           jwts[j].state # "none" =>
              /\ row.host = jwts[j].host /\ row.agent = jwts[j].agent
              /\ row.gen = jwts[j].gen /\ row.hostGen = jwts[j].hostGen
              /\ row.state # "none",
           jwts[j].state # "none" /\ Spent(j) => uses'[j] = uses[j],
           uses' \in [Jwts -> 0 .. 2], \A i \in Jwts : i # j => uses'[i] = uses[i],
           requests' \in [Requests -> Request],
           \A r \in Requests : requests'[r] = requests[r] \/ requests'[r].op # "consume"
    PROVE  CredentialKept
  <1>1. Kept
    BY Stutter DEF CredentialInv
  <1>2. /\ jwts' \in [Jwts -> Jwt] /\ jwts'[j] = row
        /\ \A i \in Jwts : i # j => jwts'[i] = jwts[i]
    BY DEF CredentialInv, CredentialTypeOK
  <1>3. CredentialTypeOK'
    BY <1>1, <1>2 DEF CredentialTypeOK, Kept, IInv
  <1>4. \A i \in Jwts : JwtGood(i)'
    BY <1>1, <1>2, JwtStays DEF Kept
  <1>5. \A r \in Requests : RequestGood(r)'
    BY <1>2 DEF CredentialInv, RequestGood
  <1>6. \A i \in Jwts : jwts[i].state # "none" /\ Spent(i) => uses'[i] = uses[i] /\ Spent(i)'
    <2> SUFFICES ASSUME NEW i \in Jwts, jwts[i].state # "none", Spent(i)
                 PROVE  uses'[i] = uses[i] /\ Spent(i)'
      OBVIOUS
    <2>1. /\ jwts'[i].host = jwts[i].host /\ jwts'[i].agent = jwts[i].agent
          /\ jwts'[i].gen = jwts[i].gen /\ jwts'[i].hostGen = jwts[i].hostGen
      BY <1>2
    <2> QED BY <1>1, <2>1, SpentStays DEF Kept
  <1> QED BY <1>1, <1>3, <1>4, <1>5, <1>6 DEF CredentialKept, CredentialInv, SpentKept, Kept

LEMMA SignStep ==
    ASSUME CredentialInv, NEW j \in Jwts, NEW h \in Hosts, NEW agent \in Agents \cup {"host"},
           Sign(j, h, agent)
    PROVE  CredentialKept
  <1>1. /\ jwts[j].state = "none" /\ uses[j] = 0 /\ UNCHANGED <<vars, requests, uses>>
        /\ agent # "host" => agents[agent].host = h
    BY DEF Sign, CredentialInv, JwtGood
  <1>2. PICK row \in Jwt :
           /\ row.state = "fresh" /\ row.host = h /\ row.agent = agent
           /\ jwts' = [jwts EXCEPT ![j] = row]
    <2> DEFINE gen == IF agent = "host" THEN 1 ELSE agents[agent].gen
               hostGen == hosts[h].gen
    <2>1. gen \in Generations /\ hostGen \in Generations
      BY Numbers DEF CredentialInv, IInv, TypeOK, Agent, Host, Generations
    <2> DEFINE row == [jwts[j] EXCEPT !.state = "fresh", !.host = h, !.agent = agent,
                                      !.gen = gen, !.hostGen = hostGen]
    <2>2. jwts' = [jwts EXCEPT ![j] = row]
      BY DEF Sign
    <2> HIDE DEF gen, hostGen
    <2>3. row \in Jwt /\ row.state = "fresh" /\ row.host = h /\ row.agent = agent
      BY <2>1, JwtTyped DEF Jwt
    <2> HIDE DEF row
    <2> QED BY <2>2, <2>3
  <1>3. jwts'[j] = row
    BY <1>2 DEF CredentialInv, CredentialTypeOK
  <1>4. UNCHANGED <<hosts, agents>>
    BY <1>1 DEF vars
  <1>5. JwtGood(j)'
    BY <1>1, <1>2, <1>3, <1>4 DEF JwtGood
  <1>6. /\ uses' \in [Jwts -> 0 .. 2] /\ \A i \in Jwts : i # j => uses'[i] = uses[i]
        /\ requests' \in [Requests -> Request] /\ \A r \in Requests : requests'[r] = requests[r]
        /\ UNCHANGED vars
    BY <1>1 DEF CredentialInv, CredentialTypeOK
  <1> QED BY ONLY CredentialInv, j \in Jwts, <1>1, <1>2, <1>5, <1>6, JwtPut

LEMMA JwtLapsesStep ==
    ASSUME CredentialInv, NEW j \in Jwts, JwtLapses(j)
    PROVE  CredentialKept
  <1>1. jwts[j].state = "fresh" /\ UNCHANGED <<vars, requests, uses>>
    BY DEF JwtLapses
  <1>2. PICK row \in Jwt :
           /\ row.state = "lapsed" /\ row.host = jwts[j].host /\ row.agent = jwts[j].agent
           /\ row.gen = jwts[j].gen /\ row.hostGen = jwts[j].hostGen
           /\ jwts' = [jwts EXCEPT ![j] = row]
    <2> DEFINE row == [jwts[j] EXCEPT !.state = "lapsed"]
    <2>1. /\ row \in Jwt /\ row.state = "lapsed" /\ row.host = jwts[j].host
          /\ row.agent = jwts[j].agent /\ row.gen = jwts[j].gen /\ row.hostGen = jwts[j].hostGen
      BY JwtTyped DEF Jwt
    <2>2. jwts' = [jwts EXCEPT ![j] = row]
      BY DEF JwtLapses
    <2> HIDE DEF row
    <2> QED BY <2>1, <2>2
  <1>3. jwts'[j] = row
    BY <1>2 DEF CredentialInv, CredentialTypeOK
  <1>4. UNCHANGED <<hosts, agents>>
    BY <1>1 DEF vars
  <1>5. JwtGood(j)'
    BY <1>1, <1>2, <1>3, <1>4 DEF JwtGood, CredentialInv
  <1>6. /\ uses' \in [Jwts -> 0 .. 2] /\ \A i \in Jwts : uses'[i] = uses[i]
        /\ requests' \in [Requests -> Request] /\ \A r \in Requests : requests'[r] = requests[r]
        /\ UNCHANGED vars
    BY <1>1 DEF CredentialInv, CredentialTypeOK
  <1> QED BY ONLY CredentialInv, j \in Jwts, <1>1, <1>2, <1>5, <1>6, JwtPut

\* The record goes when its JWT can no longer be accepted.
LEMMA CleanupStep ==
    ASSUME CredentialInv, NEW j \in Jwts, CleanupExpiredReplayRecord(j)
    PROVE  CredentialKept
  <1>1. jwts[j].state = "lapsed" /\ UNCHANGED <<vars, requests, uses>>
    BY DEF CleanupExpiredReplayRecord
  <1>2. PICK row \in Jwt :
           /\ row.state = "lapsed" /\ row.host = jwts[j].host /\ row.agent = jwts[j].agent
           /\ row.gen = jwts[j].gen /\ row.hostGen = jwts[j].hostGen
           /\ jwts' = [jwts EXCEPT ![j] = row]
    <2> DEFINE row == [jwts[j] EXCEPT !.recorded = FALSE]
    <2>1. /\ row \in Jwt /\ row.state = "lapsed" /\ row.host = jwts[j].host
          /\ row.agent = jwts[j].agent /\ row.gen = jwts[j].gen /\ row.hostGen = jwts[j].hostGen
      BY <1>1, JwtTyped DEF Jwt
    <2>2. jwts' = [jwts EXCEPT ![j] = row]
      BY DEF CleanupExpiredReplayRecord
    <2> HIDE DEF row
    <2> QED BY <2>1, <2>2
  <1>3. jwts'[j] = row
    BY <1>2 DEF CredentialInv, CredentialTypeOK
  <1>4. UNCHANGED <<hosts, agents>>
    BY <1>1 DEF vars
  <1>5. JwtGood(j)'
    BY <1>1, <1>2, <1>3, <1>4 DEF JwtGood, CredentialInv
  <1>6. /\ uses' \in [Jwts -> 0 .. 2] /\ \A i \in Jwts : uses'[i] = uses[i]
        /\ requests' \in [Requests -> Request] /\ \A r \in Requests : requests'[r] = requests[r]
        /\ UNCHANGED vars
    BY <1>1 DEF CredentialInv, CredentialTypeOK
  <1> QED BY ONLY CredentialInv, j \in Jwts, <1>1, <1>2, <1>5, <1>6, JwtPut

LEMMA VerifyStep ==
    ASSUME CredentialInv, NEW r \in Requests, NEW j \in Jwts, Verify(r, j)
    PROVE  CredentialKept
  <1>1. jwts[j].state = "fresh" /\ UNCHANGED <<vars, jwts, uses>>
    BY DEF Verify
  <1>2. PICK request \in Request :
           /\ request.jwt = j /\ request.gen = jwts[j].gen /\ request.hostGen = jwts[j].hostGen
           /\ requests' = [requests EXCEPT ![r] = request]
    <2> DEFINE request == [op |-> "consume", jwt |-> j, gen |-> jwts[j].gen,
                           hostGen |-> jwts[j].hostGen]
    <2>1. /\ request \in Request /\ request.jwt = j /\ request.gen = jwts[j].gen
          /\ request.hostGen = jwts[j].hostGen
      BY JwtTyped DEF Request, Jwt
    <2>2. requests' = [requests EXCEPT ![r] = request]
      BY DEF Verify
    <2> HIDE DEF request
    <2> QED BY <2>1, <2>2
  <1>3. Kept
    BY <1>1, Stutter DEF CredentialInv
  <1>4. /\ requests' \in [Requests -> Request] /\ requests'[r] = request
        /\ \A s \in Requests : s # r => requests'[s] = requests[s]
    BY <1>2 DEF CredentialInv, CredentialTypeOK
  <1>5. CredentialTypeOK'
    BY <1>1, <1>3, <1>4 DEF CredentialInv, CredentialTypeOK, Kept, IInv
  <1>6. \A i \in Jwts : JwtGood(i)'
    BY <1>1, <1>3, JwtStays DEF Kept
  <1>7. \A s \in Requests : RequestGood(s)'
    BY <1>1, <1>2, <1>4 DEF CredentialInv, RequestGood
  <1>8. SpentKept
    BY <1>1, <1>3, SpentStays DEF SpentKept, Kept
  <1> QED BY <1>3, <1>5, <1>6, <1>7, <1>8 DEF CredentialKept, CredentialInv, Kept

\* What is spent is refused: the mutation reads the rows again.
LEMMA ConsumeStep ==
    ASSUME CredentialInv, NEW r \in Requests, Consume(r)
    PROVE  CredentialKept
  <1>1. /\ requests[r].op = "consume" /\ requests' = [requests EXCEPT ![r] = Idle]
        /\ UNCHANGED vars
    BY DEF Consume
  <1>2. PICK j \in Jwts :
           /\ requests[r].jwt = j /\ jwts[j].state # "none"
           /\ requests[r].gen = jwts[j].gen /\ requests[r].hostGen = jwts[j].hostGen
    BY <1>1 DEF CredentialInv, RequestGood
  <1>3. Idle \in Request /\ Idle.op = "idle"
    BY Numbers DEF Idle, Request, Generations
  <1>4. /\ requests' \in [Requests -> Request] /\ requests'[r] = Idle
        /\ \A s \in Requests : s # r => requests'[s] = requests[s]
    BY <1>1, <1>3 DEF CredentialInv, CredentialTypeOK
  <1>5. \A s \in Requests : requests'[s] = requests[s] \/ requests'[s].op # "consume"
    BY <1>3, <1>4
  <1>6. CASE UNCHANGED <<jwts, uses>>
    <2>1. Kept
      BY <1>1, Stutter DEF CredentialInv
    <2>2. CredentialTypeOK'
      BY <1>4, <1>6, <2>1 DEF CredentialInv, CredentialTypeOK, Kept, IInv
    <2>3. \A i \in Jwts : JwtGood(i)'
      BY <1>6, <2>1, JwtStays DEF Kept
    <2>4. \A s \in Requests : RequestGood(s)'
      BY <1>5, <1>6 DEF CredentialInv, RequestGood
    <2>5. SpentKept
      BY <1>6, <2>1, SpentStays DEF SpentKept, Kept
    <2> QED BY <2>1, <2>2, <2>3, <2>4, <2>5 DEF CredentialKept, CredentialInv, Kept
  <1>7. CASE /\ FreshJti(jwts[j])
             /\ HostAccepted(jwts[j].host, requests[r].hostGen)
             /\ jwts[j].agent # "host" => AgentAccepted(jwts[j].agent, requests[r].gen)
             /\ jwts' = [jwts EXCEPT ![j].recorded = TRUE]
             /\ uses' = [uses EXCEPT ![j] = IF @ < 2 THEN @ + 1 ELSE @]
    <2>1. jwts[j].state = "fresh" /\ uses[j] = 0
      BY <1>2, <1>7, JwtTyped DEF FreshJti, CredentialInv, JwtGood
    <2>2. ~Spent(j)
      BY <1>2, <1>7, JwtTyped DEF Spent, HostAccepted, AgentAccepted
    <2>3. PICK row \in Jwt :
             /\ row.state = "fresh" /\ row.recorded
             /\ row.host = jwts[j].host /\ row.agent = jwts[j].agent
             /\ row.gen = jwts[j].gen /\ row.hostGen = jwts[j].hostGen
             /\ jwts' = [jwts EXCEPT ![j] = row]
      <3> DEFINE row == [jwts[j] EXCEPT !.recorded = TRUE]
      <3>1. /\ row \in Jwt /\ row.state = "fresh" /\ row.recorded
            /\ row.host = jwts[j].host /\ row.agent = jwts[j].agent
            /\ row.gen = jwts[j].gen /\ row.hostGen = jwts[j].hostGen
        <4>1. jwts[j] \in Jwt /\ jwts[j].state = "fresh"
          BY <2>1, JwtTyped
        <4> QED BY ONLY <4>1 DEF Jwt
      <3>2. jwts' = [jwts EXCEPT ![j] = row]
        BY <1>7
      <3> HIDE DEF row
      <3> QED BY <3>1, <3>2
    <2>4. /\ uses' \in [Jwts -> 0 .. 2] /\ uses'[j] = 1
          /\ \A i \in Jwts : i # j => uses'[i] = uses[i]
      BY <1>2, <1>7, <2>1 DEF CredentialInv, CredentialTypeOK
    <2>5. jwts'[j] = row
      BY <1>2, <2>3 DEF CredentialInv, CredentialTypeOK
    <2>6. UNCHANGED <<hosts, agents>>
      BY <1>1 DEF vars
    <2>7. JwtGood(j)'
      BY <1>2, <2>3, <2>4, <2>5, <2>6 DEF JwtGood, CredentialInv
    <2>8. row.state # "none"
      BY <2>3
    <2> QED BY ONLY CredentialInv, j \in Jwts, <1>1, <1>4, <1>5, <2>2, <2>3, <2>4, <2>7, <2>8, JwtPut
  <1> QED BY <1>2, <1>6, <1>7 DEF Consume

LEMMA CredentialInvInit == CredentialInit => CredentialInv
  <1> SUFFICES ASSUME CredentialInit PROVE CredentialInv
    OBVIOUS
  <1>1. IInv /\ 1 \in Generations
    BY InvInit, Numbers DEF CredentialInit, Generations
  <1>2. \A j \in Jwts : jwts[j] \in Jwt /\ jwts[j].state = "none" /\ uses[j] = 0
    BY <1>1 DEF CredentialInit, Jwt
  <1>3. Idle \in Request /\ Idle.op = "idle"
    BY <1>1 DEF Idle, Request
  <1>4. jwts \in [Jwts -> Jwt]
    BY <1>2 DEF CredentialInit
  <1>5. requests \in [Requests -> Request] /\ uses \in [Jwts -> 0 .. 2]
    BY <1>3 DEF CredentialInit
  <1>6. CredentialTypeOK
    BY <1>1, <1>4, <1>5 DEF CredentialTypeOK, IInv
  <1>7. \A j \in Jwts : JwtGood(j)
    BY <1>2 DEF JwtGood
  <1>8. \A r \in Requests : RequestGood(r)
    BY <1>3 DEF RequestGood, CredentialInit
  <1> QED BY <1>1, <1>6, <1>7, <1>8 DEF CredentialInv

LEMMA CredentialStep == CredentialInv /\ [CredentialNext]_credentialVars => CredentialKept
  <1> SUFFICES ASSUME CredentialInv, [CredentialNext]_credentialVars PROVE CredentialKept
    OBVIOUS
  <1>1. CASE UNCHANGED credentialVars
    BY <1>1, Stutter, AgentsMoveOn DEF credentialVars, CredentialInv
  <1>2. CASE Next /\ UNCHANGED <<jwts, requests, uses>>
    BY <1>2, Step, AgentsMoveOn DEF CredentialInv
  <1>3. CASE \E j \in Jwts, h \in Hosts, agent \in Agents \cup {"host"} : Sign(j, h, agent)
    BY <1>3, SignStep
  <1>4. CASE \E j \in Jwts : JwtLapses(j) \/ CleanupExpiredReplayRecord(j)
    BY <1>4, JwtLapsesStep, CleanupStep
  <1>5. CASE \E r \in Requests : Consume(r) \/ \E j \in Jwts : Verify(r, j)
    BY <1>5, ConsumeStep, VerifyStep
  <1> QED BY <1>1, <1>2, <1>3, <1>4, <1>5 DEF CredentialNext

-----------------------------------------------------------------------------
(* Theorems                                                                *)

LEMMA Invariance == CredentialSpec => []CredentialInv
  <1>1. CredentialInv /\ [CredentialNext]_credentialVars => CredentialInv'
    BY CredentialStep DEF CredentialKept
  <1> QED BY CredentialInvInit, <1>1, PTL DEF CredentialSpec

(* Rows of hosts, agents, grants and authorizations, the signed requests   *)
(* and the replay records have the shapes that component/agentAuth.ts and  *)
(* its schema declare.                                                     *)
THEOREM TypeCorrect == CredentialSpec => []CredentialTypeOK
  <1>1. CredentialInv => CredentialTypeOK
    BY DEF CredentialInv
  <1> QED BY Invariance, <1>1, PTL

(* Once the batches of a revoked host are through, none of its agents is   *)
(* left, for every size of a batch and whatever comes between two of them. *)
THEOREM CascadeComplete == CredentialSpec => []CascadeReachesAll
  <1>1. CredentialInv => CascadeReachesAll
    <2> SUFFICES ASSUME CredentialInv, NEW h \in Hosts, hosts[h].cascade = "done",
                        NEW a \in Agents, agents[a].host = h
                 PROVE  agents[a].status \in {"revoked", "rejected"}
      BY DEF CascadeReachesAll
    <2>1. agents[a].status \notin Phases
      BY DEF CredentialInv, IInv, CascadeGood, Phases
    <2>2. agents[a].status # "none"
      BY Numbers DEF CredentialInv, IInv, AgentsPlaced
    <2>3. agents[a] \in Agent
      BY DEF CredentialInv, IInv, TypeOK
    <2> QED BY <2>1, <2>2, <2>3 DEF Agent
  <1> QED BY Invariance, <1>1, PTL

(* A revoked agent holds no live key, no granted capability, nothing to    *)
(* decide and nothing to fetch.                                            *)
THEOREM NothingHeld == CredentialSpec => []RevokedHoldsNothing
  <1>1. CredentialInv => RevokedHoldsNothing
    BY DEF CredentialInv, IInv
  <1> QED BY Invariance, <1>1, PTL

(* A signed request is accepted once, also when several copies of it were  *)
(* verified before the first was consumed.                                 *)
THEOREM AcceptedOnce == CredentialSpec => []CredentialUsedOnce
  <1>1. CredentialInv => CredentialUsedOnce
    BY DEF CredentialInv, JwtGood, CredentialUsedOnce
  <1> QED BY Invariance, <1>1, PTL

(* A revoked or rejected agent stays so, and an expired one whose host or  *)
(* absolute expiry has ended is never active again.                        *)
THEOREM EndedForGood == CredentialSpec => EndedStaysEnded
  <1>1. CredentialInv /\ [CredentialNext]_credentialVars => [\A a \in Agents : Ended(a) => Ended(a)']_vars
    <2> SUFFICES ASSUME CredentialInv, [CredentialNext]_credentialVars, NEW a \in Agents, Ended(a)
                 PROVE  Ended(a)'
      OBVIOUS
    <2>1. Moves /\ IInv /\ IInv'
      BY CredentialStep DEF CredentialKept, Kept, CredentialInv
    <2>2. AgentMove(a)
      BY <2>1 DEF Moves, AgentMoves
    <2>3. agents[a].host \in Hosts => HostMove(agents[a].host)
      BY <2>1 DEF Moves, HostMoves
    <2>4. ~Registered(a)
      BY DEF Ended, Registered
    <2>5. CASE agents'[a] = agents[a]
      BY <2>3, <2>5 DEF Ended, HostMove
    <2>6. CASE Moved(a)
      BY <2>3, <2>6 DEF Ended, Moved, HostMove, ActiveHost, Phases
    <2> QED BY <2>2, <2>4, <2>5, <2>6 DEF AgentMove
  <1> QED BY Invariance, <1>1, PTL DEF CredentialSpec, EndedStaysEnded

(* After a key is rotated, an agent or its host revoked, or its life ended, *)
(* nothing that was signed before is accepted any more.                    *)
THEOREM SpentRefused == CredentialSpec => SpentNeverAccepted
  <1>1. CredentialInv /\ [CredentialNext]_credentialVars
        => [\A j \in Jwts : jwts[j].state # "none" /\ Spent(j) =>
               uses'[j] = uses[j] /\ Spent(j)']_credentialVars
    BY CredentialStep DEF CredentialKept, SpentKept
  <1> QED BY Invariance, <1>1, PTL DEF CredentialSpec, SpentNeverAccepted

(* The authorizations implement DeviceGrant: an approval answers one       *)
(* request, is handed out at most once and never after it was withdrawn.   *)
THEOREM Refinement == CredentialSpec => ImplementsDeviceGrant
  <1>1. CredentialInit => Promise!GrantInit
    BY InvInit DEF CredentialInit
  <1>2. CredentialInv /\ [CredentialNext]_credentialVars => [Promise!GrantNext]_Promise!grantVars
    BY CredentialStep DEF CredentialKept, Kept, PromiseStep
  <1> QED BY Invariance, <1>1, <1>2, PTL DEF CredentialSpec, ImplementsDeviceGrant, Promise!GrantSpec

-----------------------------------------------------------------------------
(* How a cascade ends: what is left to do for it                           *)

\* The agents of a host that the cascade may still have to revoke, and the
\* phases before it.
AgentsLeft(h) == {a \in Agents : agents[a].host = h /\ agents[a].status \in Phases}

PhasesLeft(h) ==
    CASE hosts[h].cascade = "pending" -> 3 [] hosts[h].cascade = "active" -> 2
      [] hosts[h].cascade = "expired" -> 1 [] OTHER -> 0

BatchesLeft(h) == Cardinality(AgentsLeft(h)) + PhasesLeft(h)

\* What CascadeRevokedAgentHost takes for a batch
Page(h, page) ==
    /\ page \subseteq AgentsOf(h, hosts[h].cascade)
    /\ \/ Cardinality(page) = BatchSize
       \/ Cardinality(page) < BatchSize /\ page = AgentsOf(h, hosts[h].cascade)

LEMMA SubsetOfSize ==
    ASSUME NEW S, IsFiniteSet(S), NEW n \in Nat, n <= Cardinality(S)
    PROVE  \E T \in SUBSET S : Cardinality(T) = n
  <1> DEFINE size == Cardinality(S)
  <1>1. size \in Nat /\ ExistsBijection(1 .. size, S)
    BY FS_CardinalityType
  <1>2. PICK f : f \in Bijection(1 .. size, S)
    BY <1>1 DEF ExistsBijection
  <1> DEFINE T == {f[i] : i \in 1 .. n}
  <1>3. f \in [1 .. size -> S] /\ \A i, j \in 1 .. size : f[i] = f[j] => i = j
    BY <1>2 DEF Bijection, Injection, IsInjective
  <1>4. 1 .. n \subseteq 1 .. size
    BY <1>1
  <1>5. T \in SUBSET S
    BY <1>3, <1>4
  <1> DEFINE g == [i \in 1 .. n |-> f[i]]
  <1>6. g \in Bijection(1 .. n, T)
    <2>1. g \in [1 .. n -> T]
      OBVIOUS
    <2>2. \A i, j \in 1 .. n : g[i] = g[j] => i = j
      BY <1>3, <1>4
    <2>3. \A t \in T : \E i \in 1 .. n : g[i] = t
      OBVIOUS
    <2> QED BY <2>1, <2>2, <2>3 DEF Bijection, Injection, IsInjective, Surjection
  <1>7. IsFiniteSet(1 .. n) /\ Cardinality(1 .. n) = n
    BY FS_Interval
  <1>8. ExistsBijection(1 .. n, T)
    BY <1>6 DEF ExistsBijection
  <1>9. Cardinality(T) = n
    BY <1>7, <1>8, FS_Bijection
  <1> QED BY <1>5, <1>9

LEMMA LeftFinite ==
    ASSUME NEW h \in Hosts
    PROVE  /\ IsFiniteSet(AgentsLeft(h)) /\ IsFiniteSet(AgentsLeft(h)')
           /\ Cardinality(AgentsLeft(h)) \in Nat /\ Cardinality(AgentsLeft(h)') \in Nat
           /\ PhasesLeft(h) \in 0 .. 3 /\ PhasesLeft(h)' \in 0 .. 3
  <1>1. AgentsLeft(h) \subseteq Agents /\ AgentsLeft(h)' \subseteq Agents
    BY DEF AgentsLeft
  <1>2. IsFiniteSet(AgentsLeft(h)) /\ IsFiniteSet(AgentsLeft(h)')
    BY <1>1, Numbers, FS_Subset
  <1>3. PhasesLeft(h) \in 0 .. 3 /\ PhasesLeft(h)' \in 0 .. 3
    BY DEF PhasesLeft
  <1> QED BY <1>2, <1>3, FS_CardinalityType

\* A host that is revoked stays so; no step gives it an agent to revoke, and
\* none takes its cascade back.
LEMMA NothingAdded ==
    ASSUME IInv, Moves, NEW h \in Hosts, hosts[h].status = "revoked"
    PROVE  /\ hosts'[h].status = "revoked"
           /\ AgentsLeft(h)' \subseteq AgentsLeft(h)
           /\ PhasesLeft(h)' <= PhasesLeft(h)
  <1>1. HostMove(h)
    BY DEF Moves, HostMoves
  <1>2. PhasesLeft(h)' <= PhasesLeft(h)
    BY <1>1 DEF HostMove, PhasesLeft, Phases, NextPhase
  <1>3. ASSUME NEW a \in AgentsLeft(h)' PROVE a \in AgentsLeft(h)
    <2>1. a \in Agents /\ agents'[a].host = h /\ agents'[a].status \in Phases
      BY <1>3 DEF AgentsLeft
    <2>2. AgentMove(a)
      BY <2>1 DEF Moves, AgentMoves
    <2>3. ~Registered(a)
      BY <2>1 DEF Registered, ActiveHost
    <2> QED BY <2>1, <2>2, <2>3 DEF AgentMove, Moved, AgentsLeft
  <1> QED BY <1>1, <1>2, <1>3 DEF HostMove

\* A batch ends an agent, or it was the last one of its phase.
LEMMA BatchCounts ==
    ASSUME IInv, NEW h \in Hosts, CascadeRevokedAgentHost(h)
    PROVE  BatchesLeft(h)' < BatchesLeft(h)
  <1> DEFINE phase == hosts[h].cascade
  <1>1. Moves
    BY CascadeStep DEF Kept
  <1>2. hosts[h].status = "revoked" /\ phase \in Phases
    BY DEF CascadeRevokedAgentHost
  <1>3. AgentsLeft(h)' \subseteq AgentsLeft(h) /\ PhasesLeft(h)' <= PhasesLeft(h)
    BY <1>1, <1>2, NothingAdded
  <1>4. Cardinality(AgentsLeft(h)') <= Cardinality(AgentsLeft(h))
    BY <1>3, LeftFinite, FS_Subset
  <1>5. PICK page \in SUBSET AgentsOf(h, phase) :
           /\ Cardinality(page) = BatchSize \/ page = AgentsOf(h, phase)
           /\ Revoke(page)
           /\ hosts' = IF LastPage(Cardinality(page))
                       THEN [hosts EXCEPT ![h].cascade = NextPhase(@)]
                       ELSE hosts
    BY DEF CascadeRevokedAgentHost
  <1>6. CASE LastPage(Cardinality(page))
    <2>1. hosts'[h].cascade = NextPhase(phase)
      BY <1>5, <1>6 DEF IInv, TypeOK, Host
    <2>2. PhasesLeft(h)' < PhasesLeft(h)
      BY <1>2, <2>1 DEF PhasesLeft, NextPhase, Phases
    <2> QED BY <1>4, <2>2, LeftFinite DEF BatchesLeft
  <1>7. CASE ~LastPage(Cardinality(page))
    <2>1. page # {}
      BY <1>7, Numbers, FS_EmptySet DEF LastPage
    <2>2. PICK a \in page : TRUE
      BY <2>1
    <2>3. a \in AgentsLeft(h)
      BY <1>2, <1>5, <2>2 DEF AgentsOf, AgentsLeft
    <2>4. page \in SUBSET Agents /\ \A b \in page : agents[b].status \in Phases
      BY <1>2, <1>5 DEF AgentsOf
    <2>5. agents'[a].status = "revoked"
      BY <1>5, <2>2, <2>4, Revoked DEF IInv
    <2>6. a \notin AgentsLeft(h)'
      BY <2>5 DEF AgentsLeft, Phases
    <2>7. AgentsLeft(h)' # AgentsLeft(h)
      BY <2>3, <2>6
    <2>8. Cardinality(AgentsLeft(h)') # Cardinality(AgentsLeft(h))
      BY <1>3, <2>7, LeftFinite, FS_Subset
    <2> QED BY <1>3, <1>4, <2>8, LeftFinite DEF BatchesLeft
  <1> QED BY <1>6, <1>7

(* The cascade of a revoked host is never lost and always finds its next   *)
(* batch: it is done, or there is a page for cascadeRevokedAgentHost, full *)
(* or the last one of its phase.                                           *)
THEOREM CascadeGoesOn ==
    CredentialSpec => [](\A h \in Hosts : hosts[h].status = "revoked" =>
                            \/ hosts[h].cascade = "done"
                            \/ hosts[h].cascade \in Phases /\ \E page \in SUBSET Agents : Page(h, page))
  <1>1. ASSUME CredentialInv, NEW h \in Hosts, hosts[h].status = "revoked", hosts[h].cascade # "done"
        PROVE  hosts[h].cascade \in Phases /\ \E page \in SUBSET Agents : Page(h, page)
    <2> DEFINE S == AgentsOf(h, hosts[h].cascade)
    <2>1. hosts[h] \in Host /\ hosts[h].cascade # "none"
      BY <1>1 DEF CredentialInv, IInv, TypeOK, CascadeGood
    <2>2. hosts[h].cascade \in Phases
      BY <1>1, <2>1 DEF Host
    <2>3. S \subseteq Agents
      BY DEF AgentsOf
    <2>4. IsFiniteSet(S) /\ Cardinality(S) \in Nat
      BY <2>3, Numbers, FS_Subset, FS_CardinalityType
    <2>5. CASE Cardinality(S) < BatchSize
      BY <2>2, <2>3, <2>5 DEF Page
    <2>6. CASE BatchSize <= Cardinality(S)
      <3>1. PICK page \in SUBSET S : Cardinality(page) = BatchSize
        BY <2>4, <2>6, Numbers, SubsetOfSize
      <3> QED BY <2>2, <2>3, <3>1 DEF Page
    <2> QED BY <2>4, <2>5, <2>6, Numbers
  <1>2. CredentialInv => \A h \in Hosts : hosts[h].status = "revoked" =>
                            \/ hosts[h].cascade = "done"
                            \/ hosts[h].cascade \in Phases /\ \E page \in SUBSET Agents : Page(h, page)
    BY <1>1
  <1> QED BY Invariance, <1>2, PTL

(* No step of anyone gives a cascade more to do, and every batch of it     *)
(* leaves less: it ends after at most three batches more than the host had *)
(* agents when it was revoked.                                             *)
THEOREM CascadeRunsOut ==
    CredentialSpec =>
        [][\A h \in Hosts : hosts[h].status = "revoked" =>
              /\ hosts'[h].status = "revoked"
              /\ BatchesLeft(h)' <= BatchesLeft(h)
              /\ CascadeRevokedAgentHost(h) => BatchesLeft(h)' < BatchesLeft(h)]_vars
  <1>1. ASSUME CredentialInv, [CredentialNext]_credentialVars, NEW h \in Hosts,
               hosts[h].status = "revoked"
        PROVE  /\ hosts'[h].status = "revoked"
               /\ BatchesLeft(h)' <= BatchesLeft(h)
               /\ CascadeRevokedAgentHost(h) => BatchesLeft(h)' < BatchesLeft(h)
    <2>1. IInv /\ Moves
      BY <1>1, CredentialStep DEF CredentialKept, Kept, CredentialInv
    <2>2. /\ hosts'[h].status = "revoked"
          /\ AgentsLeft(h)' \subseteq AgentsLeft(h)
          /\ PhasesLeft(h)' <= PhasesLeft(h)
      BY <1>1, <2>1, NothingAdded
    <2>3. Cardinality(AgentsLeft(h)') <= Cardinality(AgentsLeft(h))
      BY <2>2, LeftFinite, FS_Subset
    <2>4. BatchesLeft(h)' <= BatchesLeft(h)
      BY <2>2, <2>3, LeftFinite DEF BatchesLeft
    <2> QED BY <2>1, <2>2, <2>4, BatchCounts
  <1>2. CredentialInv /\ [CredentialNext]_credentialVars =>
        [\A h \in Hosts : hosts[h].status = "revoked" =>
              /\ hosts'[h].status = "revoked"
              /\ BatchesLeft(h)' <= BatchesLeft(h)
              /\ CascadeRevokedAgentHost(h) => BatchesLeft(h)' < BatchesLeft(h)]_vars
    BY <1>1
  <1> QED BY Invariance, <1>2, PTL DEF CredentialSpec

-----------------------------------------------------------------------------
(* The auth.md registrations and credentials                               *)

\* A code is still to be entered while attempts are left; an assertion is
\* issued for a claim only.
RegistrationsSound ==
    \A r \in RegistrationIds :
        registrations[r].state \in {"none", "pending"} =>
            registrations[r].failed < MaxFailedCodeAttempts /\ ~registrations[r].issued

\* The mark of the registration stands for its one assertion.
AssertionsLinked ==
    /\ \A a \in AssertionIds :
          assertions[a].state # "none" =>
              /\ assertions[a].registration \in RegistrationIds
              /\ registrations[assertions[a].registration].issued
    /\ \A a, b \in AssertionIds :
          /\ assertions[a].state # "none"
          /\ assertions[b].state # "none"
          /\ assertions[a].registration = assertions[b].registration
          => a = b

\* A credential comes, at first or second hand, from a consumed assertion.
CredentialsLinked ==
    \A x \in CredentialIds :
        /\ credentials[x].state = "none" => credentials[x].holder = NoHolder
        /\ credentials[x].state # "none" =>
              /\ credentials[x].registration \in RegistrationIds
              /\ credentials[x].assertion \in AssertionIds
              /\ assertions[credentials[x].assertion].state = "consumed"
              /\ assertions[credentials[x].assertion].registration = credentials[x].registration

CredentialsInOrder ==
    \A x, y \in CredentialIds :
        x < y /\ credentials[y].state # "none" => credentials[x].state # "none"

\* A chain has one credential that is not revoked.
OneActive ==
    \A x, y \in CredentialIds :
        /\ credentials[x].state = "active"
        /\ credentials[y].state = "active"
        /\ credentials[x].registration = credentials[y].registration
        => x = y

\* What a call holds, and what was given, is stored.
CallsLinked ==
    /\ \A c \in Calls :
          /\ calls[c].op = "idle" => calls[c] = IdleCall
          /\ calls[c].op = "exchange" =>
                calls[c].assertion \in AssertionIds /\ assertions[calls[c].assertion].state # "none"
          /\ calls[c].op = "answer" =>
                calls[c].credential \in CredentialIds
                /\ credentials[calls[c].credential].state # "none"
    /\ \A x \in given : credentials[x].state # "none"

\* The assertion of r became a credential that was given out, or will, or a
\* call for it was cut off.
Yields(r) ==
    \/ r \in cut
    \/ \E x \in given : credentials[x].registration = r
    \/ \E c \in Calls :
          \/ calls[c].op = "exchange"
             /\ assertions[calls[c].assertion].registration = r
             /\ assertions[calls[c].assertion].state = "active"
          \/ calls[c].op = "answer"
             /\ credentials[calls[c].credential].registration = r

\* It yields whether or not the registration is still claimed.
IssuedYield == \A r \in RegistrationIds : registrations[r].issued => Yields(r)

ChainsInv ==
    /\ ChainsTypeOK
    /\ RegistrationsSound
    /\ AssertionsLinked
    /\ CredentialsLinked
    /\ CredentialsInOrder
    /\ OneActive
    /\ CallsLinked
    /\ IssuedYield

(* Before the first registration all of it holds. *)
LEMMA ChainsInvInit == ChainsInit => ChainsInv
  <1> SUFFICES ASSUME ChainsInit PROVE ChainsInv
    OBVIOUS
  <1>1. registrations \in [RegistrationIds -> Registration]
    BY AuthMdAssumption DEF ChainsInit, Registration
  <1>2. assertions \in [AssertionIds -> Assertion]
    BY DEF ChainsInit, Assertion
  <1>3. credentials \in [CredentialIds -> Credential]
    BY DEF ChainsInit, Credential
  <1>4. calls \in [Calls -> Call]
    BY DEF ChainsInit, Call, IdleCall
  <1>5. ChainsTypeOK
    BY <1>1, <1>2, <1>3, <1>4 DEF ChainsInit, ChainsTypeOK, Holders
  <1>6. RegistrationsSound /\ IssuedYield
    BY AuthMdAssumption DEF ChainsInit, RegistrationsSound, IssuedYield
  <1>7. AssertionsLinked /\ CredentialsLinked /\ CredentialsInOrder /\ OneActive /\ CallsLinked
    BY DEF ChainsInit, AssertionsLinked, CredentialsLinked, CredentialsInOrder, OneActive,
           CallsLinked, IdleCall
  <1> QED BY <1>5, <1>6, <1>7 DEF ChainsInv

-----------------------------------------------------------------------------
(* Steps that give out nothing *)

\* No code is left open that was closed, and no claim is found for an old mark.
RegistrationsMove ==
    /\ registrations' \in [RegistrationIds -> Registration]
    /\ \A r \in RegistrationIds :
          /\ registrations'[r].issued = registrations[r].issued
          /\ registrations'[r].state \in {"none", "pending"} =>
                registrations[r].state \in {"none", "pending"}
                /\ registrations'[r].failed < MaxFailedCodeAttempts
          /\ registrations'[r].state = "claimed" /\ registrations[r].issued =>
                registrations[r].state = "claimed"

AssertionsStay ==
    /\ assertions' \in [AssertionIds -> Assertion]
    /\ \A a \in AssertionIds :
          /\ assertions'[a].state = assertions[a].state
          /\ assertions'[a].registration = assertions[a].registration

CredentialsOnlyClose ==
    /\ credentials' \in [CredentialIds -> Credential]
    /\ \A x \in CredentialIds :
          /\ credentials'[x].registration = credentials[x].registration
          /\ credentials'[x].assertion = credentials[x].assertion
          /\ credentials'[x].holder = credentials[x].holder
          /\ credentials'[x].state = "none" <=> credentials[x].state = "none"
          /\ credentials'[x].state = "active" => credentials[x].state = "active"
          /\ credentials[x].expired => credentials'[x].expired

PeopleTyped ==
    /\ users' \subseteq UserIds
    /\ organizations' \subseteq Organizations
    /\ authority' \subseteq users' \X organizations'

\* The steps of users, of administrators and of time.
RowsSettle ==
    /\ RegistrationsMove
    /\ AssertionsStay
    /\ CredentialsOnlyClose
    /\ PeopleTyped
    /\ UNCHANGED <<calls, given, cut>>

LEMMA SettleKeeps ==
    ASSUME ChainsInv, RowsSettle
    PROVE  ChainsInv'
  <1>0. /\ RegistrationsSound /\ AssertionsLinked /\ CredentialsLinked /\ CredentialsInOrder
        /\ OneActive /\ CallsLinked /\ IssuedYield /\ ChainsTypeOK
    BY DEF ChainsInv
  <1>1. /\ RegistrationsMove /\ AssertionsStay /\ CredentialsOnlyClose
        /\ calls' = calls /\ given' = given /\ cut' = cut
    BY DEF RowsSettle
  <1>2. ChainsTypeOK'
    BY <1>0 DEF RowsSettle, RegistrationsMove, AssertionsStay, CredentialsOnlyClose,
                PeopleTyped, ChainsTypeOK
  <1>3. RegistrationsSound'
    BY <1>0, <1>1 DEF RegistrationsMove, RegistrationsSound
  <1>4. AssertionsLinked'
    BY <1>0, <1>1 DEF RegistrationsMove, AssertionsStay, AssertionsLinked
  <1>5. CredentialsLinked'
    BY <1>0, <1>1 DEF AssertionsStay, CredentialsOnlyClose, CredentialsLinked
  <1>6. CredentialsInOrder' /\ OneActive'
    BY <1>0, <1>1 DEF CredentialsOnlyClose, CredentialsInOrder, OneActive
  <1>7. CallsLinked'
    BY <1>0, <1>1 DEF AssertionsStay, CredentialsOnlyClose, CallsLinked, ChainsTypeOK
  <1>8. IssuedYield'
    <2> SUFFICES ASSUME NEW r \in RegistrationIds, registrations'[r].issued
                 PROVE  Yields(r)'
      BY DEF IssuedYield
    <2>1. Yields(r)
      BY <1>0, <1>1 DEF RegistrationsMove, IssuedYield
    <2>2. \A x \in given : credentials'[x].registration = credentials[x].registration
      BY <1>0, <1>1 DEF CredentialsOnlyClose, ChainsTypeOK
    <2>3. \A c \in Calls :
             calls[c].op = "exchange" =>
                /\ assertions'[calls[c].assertion].registration
                      = assertions[calls[c].assertion].registration
                /\ assertions'[calls[c].assertion].state = assertions[calls[c].assertion].state
      BY <1>0, <1>1 DEF AssertionsStay, CallsLinked
    <2>4. \A c \in Calls :
             calls[c].op = "answer" =>
                credentials'[calls[c].credential].registration
                   = credentials[calls[c].credential].registration
      BY <1>0, <1>1 DEF CredentialsOnlyClose, CallsLinked
    <2> QED BY <1>1, <2>1, <2>2, <2>3, <2>4 DEF Yields
  <1> QED BY <1>2, <1>3, <1>4, <1>5, <1>6, <1>7, <1>8 DEF ChainsInv

(* What a table's unchanged rows are worth. *)
LEMMA StillTables ==
    ASSUME ChainsInv
    PROVE  /\ registrations' = registrations => RegistrationsMove
           /\ assertions' = assertions => AssertionsStay
           /\ credentials' = credentials => CredentialsOnlyClose
           /\ UNCHANGED others => PeopleTyped
  <1>1. registrations' = registrations => RegistrationsMove
    BY DEF ChainsInv, ChainsTypeOK, RegistrationsSound, RegistrationsMove
  <1>2. assertions' = assertions => AssertionsStay
    BY DEF ChainsInv, ChainsTypeOK, AssertionsStay
  <1>3. credentials' = credentials => CredentialsOnlyClose
    BY DEF ChainsInv, ChainsTypeOK, CredentialsOnlyClose
  <1>4. UNCHANGED others => PeopleTyped
    BY DEF ChainsInv, ChainsTypeOK, others, PeopleTyped
  <1> QED BY <1>1, <1>2, <1>3, <1>4

(* A claim is tried, found too late or revoked. *)
LEMMA RegistrationsSettle ==
    ASSUME ChainsInv, NEW r \in RegistrationIds,
           \/ RegisterServiceAuth(r)
           \/ \E holder \in Holders, right \in BOOLEAN : CompleteServiceAuthClaim(r, holder, right)
           \/ PollExpires(r)
           \/ PollRevokes(r)
           \/ \E actor \in UserIds : RevokeServiceAuthRegistration(r, actor)
           \/ RegistrationLapses(r)
    PROVE  RowsSettle
  <1>0. registrations \in [RegistrationIds -> Registration] /\ RegistrationsSound
    BY DEF ChainsInv, ChainsTypeOK
  <1>1. UNCHANGED <<assertions, credentials, others, calls, given, cut>>
    BY DEF RegisterServiceAuth, CompleteServiceAuthClaim, PollExpires, PollRevokes,
           RevokeServiceAuthRegistration, RegistrationLapses
  <1> SUFFICES RegistrationsMove
    BY <1>1, StillTables DEF RowsSettle
  <1>2. ASSUME NEW row \in Registration,
               registrations' = [registrations EXCEPT ![r] = row],
               row.issued = registrations[r].issued,
               row.state \in {"none", "pending"} =>
                  registrations[r].state \in {"none", "pending"}
                  /\ row.failed < MaxFailedCodeAttempts,
               row.state = "claimed" /\ registrations[r].issued =>
                  registrations[r].state = "claimed"
        PROVE  RegistrationsMove
    BY <1>0, <1>2 DEF RegistrationsMove, RegistrationsSound
  <1>3. CASE RegisterServiceAuth(r)
    <2> DEFINE row == [registrations[r] EXCEPT !.state = "pending"]
    <2>1. registrations' = [registrations EXCEPT ![r] = row]
      BY <1>0, <1>3 DEF RegisterServiceAuth
    <2>2. /\ row \in Registration /\ row.issued = registrations[r].issued
          /\ row.state = "pending" /\ registrations[r].state = "none"
          /\ row.failed = registrations[r].failed
      BY <1>0, <1>3 DEF RegisterServiceAuth, IsNext, Registration
    <2> HIDE DEF row
    <2> QED BY <1>0, <1>2, <2>1, <2>2 DEF RegistrationsSound
  <1>4. ASSUME NEW state \in {"claimed", "expired", "revoked"},
               NEW holder \in Holders \cup {NoHolder}, NEW failed \in 0 .. MaxFailedCodeAttempts,
               NEW life \in {"current", "codeOver", "over"},
               registrations[r].issued => state # "claimed",
               registrations' = [registrations EXCEPT
                  ![r] = [state |-> state, holder |-> holder, failed |-> failed, life |-> life,
                          issued |-> registrations[r].issued]]
        PROVE  RegistrationsMove
    <2> DEFINE row == [state |-> state, holder |-> holder, failed |-> failed, life |-> life,
                       issued |-> registrations[r].issued]
    <2>1. row \in Registration /\ row.state = state /\ row.issued = registrations[r].issued
      BY <1>0 DEF Registration
    <2>2. registrations' = [registrations EXCEPT ![r] = row]
      BY <1>4
    <2> HIDE DEF row
    <2> QED BY <1>2, <1>4, <2>1, <2>2
  <1>5. registrations[r] = [state |-> registrations[r].state, holder |-> registrations[r].holder,
                            failed |-> registrations[r].failed, life |-> registrations[r].life,
                            issued |-> registrations[r].issued]
        /\ registrations[r].holder \in Holders \cup {NoHolder}
        /\ registrations[r].failed \in 0 .. MaxFailedCodeAttempts
        /\ registrations[r].life \in {"current", "codeOver", "over"}
    BY <1>0 DEF Registration
  <1>6. CASE PollExpires(r)
    <2>1. registrations' = [registrations EXCEPT
             ![r] = [state |-> "expired", holder |-> registrations[r].holder,
                     failed |-> registrations[r].failed, life |-> registrations[r].life,
                     issued |-> registrations[r].issued]]
      <3>1. registrations' = [registrations EXCEPT ![r].state = "expired"]
        BY <1>6 DEF PollExpires
      <3>2. [registrations[r] EXCEPT !.state = "expired"] =
               [state |-> "expired", holder |-> registrations[r].holder,
                failed |-> registrations[r].failed, life |-> registrations[r].life,
                issued |-> registrations[r].issued]
        BY <1>0 DEF Registration
      <3> QED BY <3>1, <3>2
    <2> QED BY <1>4, <1>5, <2>1
  <1>7. CASE PollRevokes(r) \/ \E actor \in UserIds : RevokeServiceAuthRegistration(r, actor)
    <2>1. registrations' = [registrations EXCEPT
             ![r] = [state |-> "revoked", holder |-> registrations[r].holder,
                     failed |-> registrations[r].failed, life |-> registrations[r].life,
                     issued |-> registrations[r].issued]]
      BY <1>0, <1>5, <1>7 DEF PollRevokes, RevokeServiceAuthRegistration
    <2> QED BY <1>4, <1>5, <2>1
  <1>8. CASE RegistrationLapses(r)
    <2>1. PICK life \in {"current", "codeOver", "over"} :
             registrations' = [registrations EXCEPT ![r].life = life]
      BY <1>0, <1>8 DEF RegistrationLapses
    <2> DEFINE row == [registrations[r] EXCEPT !.life = life]
    <2>2. registrations' = [registrations EXCEPT ![r] = row]
      BY <1>0, <2>1
    <2>3. /\ row \in Registration /\ row.issued = registrations[r].issued
          /\ row.state = registrations[r].state /\ row.failed = registrations[r].failed
      BY <1>0 DEF Registration
    <2> HIDE DEF row
    <2> QED BY <1>0, <1>2, <2>2, <2>3 DEF RegistrationsSound
  <1>9. ASSUME NEW holder \in Holders, NEW right \in BOOLEAN,
               CompleteServiceAuthClaim(r, holder, right)
        PROVE  RegistrationsMove
    <2>0. registrations[r].state = "pending" /\ ~registrations[r].issued
          /\ registrations[r].failed < MaxFailedCodeAttempts
      BY <1>0, <1>9 DEF CompleteServiceAuthClaim, RegistrationsSound
    <2>1. CASE registrations[r].life # "current"
      <3>1. registrations' = [registrations EXCEPT
               ![r] = [state |-> "expired", holder |-> registrations[r].holder,
                       failed |-> registrations[r].failed, life |-> registrations[r].life,
                       issued |-> registrations[r].issued]]
        BY <1>0, <1>5, <1>9, <2>1 DEF CompleteServiceAuthClaim
      <3> QED BY <1>4, <1>5, <3>1
    <2>2. CASE registrations[r].life = "current" /\ right /\ holder \in authority
      <3>1. registrations' = [registrations EXCEPT
               ![r] = [state |-> "claimed", holder |-> holder,
                       failed |-> registrations[r].failed, life |-> registrations[r].life,
                       issued |-> registrations[r].issued]]
        BY <1>0, <1>5, <1>9, <2>2 DEF CompleteServiceAuthClaim
      <3> QED BY <1>4, <1>5, <2>0, <3>1
    <2>3. CASE registrations[r].life = "current" /\ ~(right /\ holder \in authority)
      <3> DEFINE failed == registrations[r].failed + 1
                 state == IF failed >= MaxFailedCodeAttempts THEN "expired" ELSE "pending"
                 row == [registrations[r] EXCEPT !.failed = failed, !.state = state]
      <3>1. registrations' = [registrations EXCEPT ![r] = row]
        BY <1>0, <1>9, <2>0, <2>3 DEF CompleteServiceAuthClaim, RecordFailedClaim
      <3>2. failed \in 0 .. MaxFailedCodeAttempts
            /\ (state = "pending" => failed < MaxFailedCodeAttempts)
        BY <1>5, <2>0, AuthMdAssumption
      <3>3. state \in {"pending", "expired"}
        OBVIOUS
      <3> HIDE DEF failed, state
      <3>4. /\ row \in Registration /\ row.issued = registrations[r].issued
            /\ row.state = state /\ row.failed = failed
        BY <1>0, <3>2, <3>3 DEF Registration
      <3> HIDE DEF row
      <3> QED BY <1>2, <2>0, <3>1, <3>2, <3>3, <3>4
    <2> QED BY <2>1, <2>2, <2>3
  <1> QED BY <1>3, <1>6, <1>7, <1>8, <1>9

(* A credential or an assertion ends. *)
LEMMA CredentialsSettle ==
    ASSUME ChainsInv,
           \/ \E x \in CredentialIds : RevokeServiceAuthCredentialAsHolder(x) \/ CredentialExpires(x)
           \/ \E a \in AssertionIds : AssertionExpires(a)
    PROVE  RowsSettle
  <1>0. /\ credentials \in [CredentialIds -> Credential]
        /\ assertions \in [AssertionIds -> Assertion]
    BY DEF ChainsInv, ChainsTypeOK
  <1>1. ASSUME NEW x \in CredentialIds, RevokeServiceAuthCredentialAsHolder(x)
        PROVE  RowsSettle
    <2>1. CredentialsOnlyClose
      BY <1>0, <1>1 DEF RevokeServiceAuthCredentialAsHolder, CredentialsOnlyClose, Credential
    <2> QED BY <1>1, <2>1, StillTables DEF RevokeServiceAuthCredentialAsHolder, RowsSettle
  <1>2. ASSUME NEW x \in CredentialIds, CredentialExpires(x)
        PROVE  RowsSettle
    <2>1. CredentialsOnlyClose
      BY <1>0, <1>2 DEF CredentialExpires, CredentialsOnlyClose, Credential
    <2> QED BY <1>2, <2>1, StillTables DEF CredentialExpires, RowsSettle
  <1>3. ASSUME NEW a \in AssertionIds, AssertionExpires(a)
        PROVE  RowsSettle
    <2>1. AssertionsStay
      BY <1>0, <1>3 DEF AssertionExpires, AssertionsStay, Assertion
    <2> QED BY <1>3, <2>1, StillTables DEF AssertionExpires, RowsSettle
  <1> QED BY <1>1, <1>2, <1>3

(* Somebody is suspended or deleted. *)
LEMMA PeopleSettle ==
    ASSUME ChainsInv, OutsideStep
    PROVE  RowsSettle
  <1>0. /\ credentials \in [CredentialIds -> Credential]
        /\ registrations \in [RegistrationIds -> Registration]
        /\ users \subseteq UserIds /\ organizations \subseteq Organizations
        /\ authority \subseteq users \X organizations
        /\ RegistrationsSound /\ CredentialsLinked
    BY DEF ChainsInv, ChainsTypeOK
  <1>1. ASSUME NEW holder \in Holders, SetAuthority(holder)
        PROVE  RowsSettle
    <2>1. PeopleTyped
      BY <1>0, <1>1 DEF SetAuthority, PeopleTyped
    <2> QED BY <1>1, <2>1, StillTables DEF SetAuthority, RowsSettle
  <1>2. ASSUME NEW u \in UserIds, NEW left \in SUBSET Organizations, DeleteUser(u, left)
        PROVE  RowsSettle
    <2>1. PeopleTyped
      BY <1>0, <1>2 DEF DeleteUser, PeopleTyped
    <2>2. ASSUME NEW r \in RegistrationIds
          PROVE  /\ registrations'[r] \in Registration
                 /\ registrations'[r].issued = registrations[r].issued
                 /\ registrations'[r].state \in {registrations[r].state, "deleted"}
                 /\ registrations'[r].failed = registrations[r].failed
      BY <1>0, <1>2 DEF DeleteUser, Registration
    <2>3. RegistrationsMove
      <3>1. registrations' = [r \in RegistrationIds |-> registrations'[r]]
        BY <1>2 DEF DeleteUser
      <3>2. registrations' \in [RegistrationIds -> Registration]
        BY <2>2, <3>1
      <3> QED BY <1>0, <2>2, <3>2 DEF RegistrationsMove, RegistrationsSound
    <2>4. CredentialsOnlyClose
      <3>1. ASSUME NEW x \in CredentialIds
            PROVE  /\ credentials'[x] \in Credential
                   /\ credentials'[x].registration = credentials[x].registration
                   /\ credentials'[x].assertion = credentials[x].assertion
                   /\ credentials'[x].holder = credentials[x].holder
                   /\ credentials'[x].expired = credentials[x].expired
                   /\ \/ credentials'[x].state = credentials[x].state
                      \/ credentials'[x].state = "deleted" /\ credentials[x].holder # NoHolder
        BY <1>0, <1>2 DEF DeleteUser, Credential
      <3>2. credentials' = [x \in CredentialIds |-> credentials'[x]]
        BY <1>2 DEF DeleteUser
      <3>3. credentials' \in [CredentialIds -> Credential]
        BY <3>1, <3>2
      <3> QED BY <1>0, <3>1, <3>3 DEF CredentialsOnlyClose, CredentialsLinked
    <2> QED BY <1>2, <2>1, <2>3, <2>4, StillTables DEF DeleteUser, RowsSettle
  <1> QED BY <1>1, <1>2 DEF OutsideStep

-----------------------------------------------------------------------------
(* Steps of the calls                                                      *)

\* Call c goes on, or is over; all else of the store stays.
CallsOnly(c) ==
    /\ calls' \in [Calls -> Call]
    /\ \A d \in Calls \ {c} : calls'[d] = calls[d]
    /\ calls'[c].op = "idle" => calls'[c] = IdleCall

LEMMA ContinuesEffect ==
    ASSUME ChainsInv, NEW c \in Calls, NEW call \in Call,
           call.op = "idle" => call = IdleCall,
           Continues(c, call)
    PROVE  CallsOnly(c) /\ calls'[c] = call
  BY DEF ChainsInv, ChainsTypeOK, Continues, CallsOnly

(* Calls of the three kinds. *)
LEMMA CallKinds ==
    /\ IdleCall \in Call /\ IdleCall.op = "idle"
    /\ \A a \in AssertionIds :
          /\ [IdleCall EXCEPT !.op = "exchange", !.assertion = a] \in Call
          /\ [IdleCall EXCEPT !.op = "exchange", !.assertion = a].op = "exchange"
          /\ [IdleCall EXCEPT !.op = "exchange", !.assertion = a].assertion = a
    /\ \A x \in CredentialIds :
          /\ [IdleCall EXCEPT !.op = "answer", !.credential = x] \in Call
          /\ [IdleCall EXCEPT !.op = "answer", !.credential = x].op = "answer"
          /\ [IdleCall EXCEPT !.op = "answer", !.credential = x].credential = x
  BY DEF IdleCall, Call

\* The tables, and what of the invariant is about them alone.
tablesOfChains == <<registrations, assertions, credentials, others>>

LEMMA StillRows ==
    ASSUME ChainsInv, UNCHANGED tablesOfChains
    PROVE  /\ RegistrationsSound' /\ AssertionsLinked' /\ CredentialsLinked'
           /\ CredentialsInOrder' /\ OneActive'
  BY DEF ChainsInv, tablesOfChains, RegistrationsSound, AssertionsLinked, CredentialsLinked,
         CredentialsInOrder, OneActive

(* An assertion that was given out is exchanged once more. *)
LEMMA ExchangeAgainKeeps ==
    ASSUME ChainsInv, NEW c \in Calls, NEW x \in CredentialIds,
           ExchangeIdentityAssertion(c, x)
    PROVE  ChainsInv'
  <1> DEFINE a == credentials[x].assertion
             call == [IdleCall EXCEPT !.op = "exchange", !.assertion = a]
  <1>0. ChainsTypeOK /\ CredentialsLinked /\ CallsLinked /\ IssuedYield
    BY DEF ChainsInv
  <1>1. /\ calls[c] = IdleCall /\ Continues(c, call)
        /\ UNCHANGED <<registrations, assertions, credentials, others, given, cut>>
    BY DEF ExchangeIdentityAssertion
  <1>2. a \in AssertionIds /\ assertions[a].state # "none"
    BY <1>0 DEF ExchangeIdentityAssertion, CredentialsLinked, CallsLinked
  <1>3. call \in Call /\ call.op = "exchange" /\ call.assertion = a
    BY <1>2, CallKinds
  <1> HIDE DEF call, a
  <1>4. CallsOnly(c) /\ calls'[c] = call
    BY <1>1, <1>3, ContinuesEffect
  <1>5. ChainsTypeOK'
    BY <1>0, <1>1, <1>4 DEF ChainsTypeOK, CallsOnly, others
  <1>6. CallsLinked'
    BY <1>0, <1>1, <1>2, <1>3, <1>4 DEF CallsLinked, CallsOnly
  <1>7. IssuedYield'
    <2> SUFFICES ASSUME NEW r \in RegistrationIds, registrations[r].issued
                 PROVE  Yields(r)'
      BY <1>1 DEF IssuedYield
    <2>1. Yields(r) /\ calls[c].op = "idle"
      BY <1>0, <1>1, CallKinds DEF IssuedYield
    <2> QED BY <1>1, <1>4, <2>1 DEF Yields, CallsOnly
  <1>8. UNCHANGED tablesOfChains
    BY <1>1 DEF tablesOfChains
  <1> QED BY <1>5, <1>6, <1>7, <1>8, StillRows DEF ChainsInv

(* A call that is cut off leaves its registration marked. *)
LEMMA CutOffKeeps ==
    ASSUME ChainsInv, NEW c \in Calls, CutOff(c)
    PROVE  ChainsInv'
  <1> DEFINE lost == IF calls[c].op = "exchange"
                     THEN assertions[calls[c].assertion].registration
                     ELSE credentials[calls[c].credential].registration
  <1>0. /\ ChainsTypeOK /\ AssertionsLinked /\ CredentialsLinked /\ CallsLinked /\ IssuedYield
    BY DEF ChainsInv
  <1>1. /\ calls[c] # IdleCall /\ cut' = cut \cup {lost} /\ Continues(c, IdleCall)
        /\ UNCHANGED <<registrations, assertions, credentials, others, given>>
    BY DEF CutOff
  <1>2. CallsOnly(c) /\ calls'[c] = IdleCall
    BY <1>1, CallKinds, ContinuesEffect
  <1>3. calls[c].op \in {"exchange", "answer"}
    BY <1>0, <1>1 DEF ChainsTypeOK, Call, CallsLinked
  <1>4. lost \in RegistrationIds
    BY <1>0, <1>3 DEF CallsLinked, AssertionsLinked, CredentialsLinked
  <1>5. ChainsTypeOK'
    BY <1>0, <1>1, <1>2, <1>4 DEF ChainsTypeOK, CallsOnly, others
  <1>6. CallsLinked'
    <2>1. IdleCall.op = "idle"
      BY DEF IdleCall
    <2> QED BY <1>0, <1>1, <1>2, <2>1 DEF CallsLinked, CallsOnly
  <1>7. IssuedYield'
    <2> SUFFICES ASSUME NEW r \in RegistrationIds, registrations[r].issued
                 PROVE  Yields(r)'
      BY <1>1 DEF IssuedYield
    <2>1. Yields(r)
      BY <1>0 DEF IssuedYield
    <2>2. CASE lost = r
      BY <1>1, <2>2 DEF Yields
    <2>3. CASE lost # r
      BY <1>1, <1>2, <2>1, <2>3 DEF Yields, CallsOnly
    <2> QED BY <2>2, <2>3
  <1>8. UNCHANGED tablesOfChains
    BY <1>1 DEF tablesOfChains
  <1> QED BY <1>5, <1>6, <1>7, <1>8, StillRows DEF ChainsInv

(* What was to be answered is given. *)
LEMMA AnswerKeeps ==
    ASSUME ChainsInv, NEW c \in Calls, Answer(c)
    PROVE  ChainsInv'
  <1> DEFINE x == calls[c].credential
  <1>0. ChainsTypeOK /\ CallsLinked /\ IssuedYield
    BY DEF ChainsInv
  <1>1. /\ calls[c].op = "answer" /\ given' = given \cup {x} /\ Continues(c, IdleCall)
        /\ UNCHANGED <<registrations, assertions, credentials, others, cut>>
    BY DEF Answer
  <1>2. x \in CredentialIds /\ credentials[x].state # "none"
    BY <1>0, <1>1 DEF CallsLinked
  <1>3. CallsOnly(c) /\ calls'[c] = IdleCall
    BY <1>1, CallKinds, ContinuesEffect
  <1>4. ChainsTypeOK'
    BY <1>0, <1>1, <1>2, <1>3 DEF ChainsTypeOK, CallsOnly, others
  <1>5. CallsLinked'
    <2>1. IdleCall.op = "idle"
      BY DEF IdleCall
    <2>2. \A y \in given' : credentials'[y].state # "none"
      BY <1>0, <1>1, <1>2 DEF CallsLinked
    <2> HIDE DEF x
    <2> QED BY <1>0, <1>1, <1>3, <2>1, <2>2 DEF CallsLinked, CallsOnly
  <1>6. IssuedYield'
    <2> SUFFICES ASSUME NEW r \in RegistrationIds, registrations[r].issued
                 PROVE  Yields(r)'
      BY <1>1 DEF IssuedYield
    <2>1. Yields(r)
      BY <1>0 DEF IssuedYield
    <2>2. CASE credentials[x].registration = r
      BY <1>1, <2>2 DEF Yields
    <2>3. CASE credentials[x].registration # r
      BY <1>1, <1>3, <2>1, <2>3 DEF Yields, CallsOnly
    <2> QED BY <2>2, <2>3
  <1>7. UNCHANGED tablesOfChains
    BY <1>1 DEF tablesOfChains
  <1> QED BY <1>4, <1>5, <1>6, <1>7, StillRows DEF ChainsInv

(* The assertion of a registration is its first. *)
LEMMA PollIssuesKeeps ==
    ASSUME ChainsInv, NEW c \in Calls, NEW r \in RegistrationIds,
           NEW a \in AssertionIds, PollIssuesAssertion(c, r, a)
    PROVE  ChainsInv'
  <1> DEFINE call == [IdleCall EXCEPT !.op = "exchange", !.assertion = a]
             row == [state |-> "active", registration |-> r,
                     holder |-> registrations[r].holder, expired |-> FALSE]
  <1>0. /\ ChainsTypeOK /\ RegistrationsSound /\ AssertionsLinked /\ CredentialsLinked
        /\ CredentialsInOrder /\ OneActive /\ CallsLinked /\ IssuedYield
    BY DEF ChainsInv
  <1>1. /\ calls[c] = IdleCall /\ Continues(c, call)
        /\ registrations[r].state = "claimed" /\ ~registrations[r].issued
        /\ assertions[a].state = "none" /\ assertions' = [assertions EXCEPT ![a] = row]
        /\ registrations' = [registrations EXCEPT ![r].issued = TRUE]
        /\ UNCHANGED <<credentials, others, given, cut>>
    BY DEF PollIssuesAssertion, Authorized, IsNext
  <1>2. call \in Call /\ call.op = "exchange" /\ call.assertion = a
    BY CallKinds
  <1>3. row \in Assertion /\ row.state = "active" /\ row.registration = r
    BY <1>0 DEF ChainsTypeOK, Registration, Assertion
  <1> HIDE DEF call, row
  <1>4. CallsOnly(c) /\ calls'[c] = call
    BY <1>1, <1>2, ContinuesEffect
  <1>5. /\ assertions' \in [AssertionIds -> Assertion] /\ assertions'[a] = row
        /\ \A b \in AssertionIds \ {a} : assertions'[b] = assertions[b]
    BY <1>0, <1>1, <1>3 DEF ChainsTypeOK
  <1>6. /\ registrations' \in [RegistrationIds -> Registration]
        /\ registrations'[r].issued /\ registrations'[r].state = "claimed"
        /\ \A q \in RegistrationIds \ {r} : registrations'[q] = registrations[q]
    BY <1>0, <1>1 DEF ChainsTypeOK, Registration
  <1>7. ChainsTypeOK'
    BY <1>0, <1>1, <1>4, <1>5, <1>6 DEF ChainsTypeOK, CallsOnly, others
  <1>8. RegistrationsSound'
    BY <1>0, <1>6 DEF RegistrationsSound
  <1>9. AssertionsLinked'
    BY <1>0, <1>1, <1>3, <1>5, <1>6 DEF AssertionsLinked
  <1>10. CredentialsLinked'
    BY <1>0, <1>1, <1>5 DEF CredentialsLinked
  <1>11. CredentialsInOrder' /\ OneActive'
    BY <1>0, <1>1 DEF CredentialsInOrder, OneActive
  <1>12. CallsLinked'
    BY <1>0, <1>1, <1>2, <1>3, <1>4, <1>5 DEF CallsLinked, CallsOnly
  <1>13. IssuedYield'
    <2> SUFFICES ASSUME NEW q \in RegistrationIds, registrations'[q].issued
                 PROVE  Yields(q)'
      BY DEF IssuedYield
    <2>1. CASE q = r
      BY <1>2, <1>3, <1>4, <1>5, <2>1 DEF Yields
    <2>2. CASE q # r
      <3>1. Yields(q)
        BY <1>0, <1>6, <2>2 DEF IssuedYield
      <3>2. calls[c].op = "idle"
        BY <1>1, CallKinds
      <3>3. \A d \in Calls : calls[d].op = "exchange" =>
               assertions'[calls[d].assertion] = assertions[calls[d].assertion]
        BY <1>0, <1>1, <1>5 DEF CallsLinked
      <3> QED BY <1>1, <1>4, <3>1, <3>2, <3>3 DEF Yields, CallsOnly
    <2> QED BY <2>1, <2>2
  <1> QED BY <1>7, <1>8, <1>9, <1>10, <1>11, <1>12, <1>13 DEF ChainsInv

(* What the insert of a credential changes; those before it are stored. *)
LEMMA InsertCredentialEffect ==
    ASSUME ChainsInv, NEW x \in CredentialIds, IsNext(credentials, x),
           NEW r \in RegistrationIds, NEW a \in AssertionIds, NEW h \in Holders \cup {NoHolder}
    PROVE  LET table == InsertCredential(x, r, a, h)
           IN /\ credentials[x].state = "none"
              /\ \A y \in CredentialIds : credentials[y].state # "none" => y < x
              /\ \A y \in CredentialIds : y < x => credentials[y].state # "none"
              /\ table \in [CredentialIds -> Credential]
              /\ table[x] = [state |-> "active", registration |-> r, assertion |-> a,
                             holder |-> h, expired |-> FALSE]
              /\ \A y \in CredentialIds \ {x} : table[y] = credentials[y]
  <1>0. credentials \in [CredentialIds -> Credential] /\ CredentialsInOrder
    BY DEF ChainsInv, ChainsTypeOK
  <1>1. credentials[x].state = "none" /\ CredentialIds \subseteq Nat
    BY AuthMdAssumption DEF IsNext, CredentialIds
  <1>2. ASSUME NEW y \in CredentialIds, credentials[y].state # "none" PROVE y < x
    <2>1. y # x /\ ~(x < y)
      BY <1>0, <1>1, <1>2 DEF CredentialsInOrder
    <2> QED BY <1>1, <2>1
  <1>3. ASSUME NEW y \in CredentialIds, y < x PROVE credentials[y].state # "none"
    BY <1>3, AuthMdAssumption DEF IsNext, CredentialIds
  <1> DEFINE row == [state |-> "active", registration |-> r, assertion |-> a,
                     holder |-> h, expired |-> FALSE]
  <1>4. row \in Credential
    BY DEF Credential
  <1>5. InsertCredential(x, r, a, h) = [credentials EXCEPT ![x] = row]
    BY DEF InsertCredential
  <1> HIDE DEF row
  <1>6. /\ InsertCredential(x, r, a, h) \in [CredentialIds -> Credential]
        /\ InsertCredential(x, r, a, h)[x] = row
        /\ \A y \in CredentialIds \ {x} : InsertCredential(x, r, a, h)[y] = credentials[y]
    BY <1>0, <1>4, <1>5
  <1> QED BY <1>1, <1>2, <1>3, <1>6 DEF row

(* A credential is made of an assertion: it is the only one of its chain,  *)
(* since any other would come from the same assertion, already consumed.   *)
LEMMA ConsumeEffect ==
    ASSUME ChainsInv, NEW c \in Calls, NEW x \in CredentialIds,
           ConsumeServiceAuthAssertion(c, x)
    PROVE  \E r \in RegistrationIds, a \in AssertionIds, h \in Holders \cup {NoHolder} :
              /\ a = calls[c].assertion
              /\ calls[c].op = "exchange"
              /\ assertions[a].state = "active" /\ assertions[a].registration = r
              /\ registrations[r].state = "claimed"
              /\ \A y \in CredentialIds :
                    credentials[y].state # "none" => credentials[y].registration # r
              /\ IsNext(credentials, x)
              /\ credentials' = InsertCredential(x, r, a, h)
              /\ assertions' = [assertions EXCEPT ![a].state = "consumed"]
  <1> DEFINE a == calls[c].assertion
             r == assertions[a].registration
             h == registrations[r].holder
  <1>0. ChainsTypeOK /\ AssertionsLinked /\ CredentialsLinked /\ CallsLinked
    BY DEF ChainsInv
  <1>1. /\ calls[c].op = "exchange" /\ assertions[a].state = "active"
        /\ registrations[r].state = "claimed" /\ IsNext(credentials, x)
        /\ credentials' = InsertCredential(x, r, a, h)
        /\ assertions' = [assertions EXCEPT ![a].state = "consumed"]
    BY DEF ConsumeServiceAuthAssertion, Exchangeable, Authorized
  <1>2. a \in AssertionIds /\ r \in RegistrationIds
    BY <1>0, <1>1 DEF CallsLinked, AssertionsLinked
  <1>3. h \in Holders \cup {NoHolder}
    BY <1>0, <1>2 DEF ChainsTypeOK, Registration
  <1> HIDE DEF a, r, h
  <1>4. ASSUME NEW y \in CredentialIds, credentials[y].state # "none",
               credentials[y].registration = r
        PROVE  FALSE
    <2>1. /\ credentials[y].assertion \in AssertionIds
          /\ assertions[credentials[y].assertion].state = "consumed"
          /\ assertions[credentials[y].assertion].registration = r
      BY <1>0, <1>4 DEF CredentialsLinked
    <2>2. assertions[a].registration = r
      BY DEF r
    <2>3. credentials[y].assertion = a
      BY <1>0, <1>1, <1>2, <2>1, <2>2 DEF AssertionsLinked
    <2> QED BY <1>1, <2>1, <2>3
  <1> QED BY <1>1, <1>2, <1>3, <1>4 DEF a, r

LEMMA ConsumeKeeps ==
    ASSUME ChainsInv, NEW c \in Calls, NEW x \in CredentialIds,
           ConsumeServiceAuthAssertion(c, x)
    PROVE  ChainsInv'
  <1>0. /\ ChainsTypeOK /\ RegistrationsSound /\ AssertionsLinked /\ CredentialsLinked
        /\ CredentialsInOrder /\ OneActive /\ CallsLinked /\ IssuedYield
    BY DEF ChainsInv
  <1>1. PICK r \in RegistrationIds, a \in AssertionIds, h \in Holders \cup {NoHolder} :
              /\ a = calls[c].assertion
              /\ calls[c].op = "exchange"
              /\ assertions[a].state = "active" /\ assertions[a].registration = r
              /\ registrations[r].state = "claimed"
              /\ \A y \in CredentialIds :
                    credentials[y].state # "none" => credentials[y].registration # r
              /\ IsNext(credentials, x)
              /\ credentials' = InsertCredential(x, r, a, h)
              /\ assertions' = [assertions EXCEPT ![a].state = "consumed"]
    BY ConsumeEffect
  <1> DEFINE call == [IdleCall EXCEPT !.op = "answer", !.credential = x]
             row == [state |-> "active", registration |-> r, assertion |-> a,
                     holder |-> h, expired |-> FALSE]
  <1>2. /\ Continues(c, call)
        /\ UNCHANGED <<registrations, others, given, cut>>
    BY DEF ConsumeServiceAuthAssertion
  <1>3. call \in Call /\ call.op = "answer" /\ call.credential = x
    BY CallKinds
  <1>4. /\ credentials[x].state = "none"
        /\ \A y \in CredentialIds : credentials[y].state # "none" => y < x
        /\ \A y \in CredentialIds : y < x => credentials[y].state # "none"
        /\ credentials' \in [CredentialIds -> Credential]
        /\ credentials'[x] = row
        /\ \A y \in CredentialIds \ {x} : credentials'[y] = credentials[y]
    BY <1>1, InsertCredentialEffect
  <1>5. row.state = "active" /\ row.registration = r /\ row.assertion = a
    OBVIOUS
  <1> HIDE DEF call, row
  <1>6. CallsOnly(c) /\ calls'[c] = call
    BY <1>2, <1>3, ContinuesEffect
  <1>7. /\ assertions' \in [AssertionIds -> Assertion]
        /\ assertions'[a].state = "consumed" /\ assertions'[a].registration = r
        /\ \A b \in AssertionIds \ {a} : assertions'[b] = assertions[b]
    BY <1>0, <1>1 DEF ChainsTypeOK, Assertion
  <1>8. ChainsTypeOK'
    BY <1>0, <1>2, <1>4, <1>6, <1>7 DEF ChainsTypeOK, CallsOnly, others
  <1>9. RegistrationsSound'
    BY <1>0, <1>2 DEF RegistrationsSound
  <1>10. AssertionsLinked'
    <2>1. \A b \in AssertionIds :
             /\ assertions'[b].registration = assertions[b].registration
             /\ assertions'[b].state # "none" => assertions[b].state # "none"
      BY <1>1, <1>7
    <2> QED BY <1>0, <1>2, <2>1 DEF AssertionsLinked
  <1>11. CredentialsLinked'
    BY <1>0, <1>1, <1>4, <1>5, <1>7 DEF CredentialsLinked
  <1>12. CredentialsInOrder'
    BY <1>0, <1>4, <1>5 DEF CredentialsInOrder
  <1>13. OneActive'
    BY <1>0, <1>1, <1>4, <1>5 DEF OneActive
  <1>14. CallsLinked'
    <2>1. \A b \in AssertionIds : assertions[b].state # "none" => assertions'[b].state # "none"
      BY <1>7
    <2>2. \A y \in CredentialIds : credentials[y].state # "none" => credentials'[y].state # "none"
      BY <1>4
    <2>3. \A y \in given' : credentials'[y].state # "none"
      BY <1>0, <1>2, <2>2 DEF CallsLinked, ChainsTypeOK
    <2>4. credentials'[x].state # "none"
      BY <1>4, <1>5
    <2> QED BY <1>0, <1>3, <1>6, <2>1, <2>2, <2>3, <2>4 DEF CallsLinked, CallsOnly
  <1>15. IssuedYield'
    <2> SUFFICES ASSUME NEW q \in RegistrationIds, registrations[q].issued
                 PROVE  Yields(q)'
      BY <1>2 DEF IssuedYield
    <2>1. CASE q = r
      BY <1>3, <1>4, <1>5, <1>6, <2>1 DEF Yields
    <2>2. CASE q # r
      <3>1. Yields(q)
        BY <1>0 DEF IssuedYield
      <3>2. CASE q \in cut
        BY <1>2, <3>2 DEF Yields
      <3>3. CASE \E y \in given : credentials[y].registration = q
        <4>1. \A y \in given : credentials'[y] = credentials[y]
          BY <1>0, <1>4 DEF CallsLinked, ChainsTypeOK
        <4> QED BY <1>2, <3>3, <4>1 DEF Yields
      <3>4. ASSUME NEW d \in Calls, calls[d].op = "exchange",
                   assertions[calls[d].assertion].registration = q,
                   assertions[calls[d].assertion].state = "active"
            PROVE  Yields(q)'
        <4>1. d # c /\ calls[d].assertion # a /\ calls[d].assertion \in AssertionIds
          BY <1>0, <1>1, <2>2, <3>4 DEF CallsLinked
        <4>2. calls'[d] = calls[d] /\ assertions'[calls[d].assertion] = assertions[calls[d].assertion]
          BY <1>6, <1>7, <4>1 DEF CallsOnly
        <4> QED BY <3>4, <4>2 DEF Yields
      <3>5. ASSUME NEW d \in Calls, calls[d].op = "answer",
                   credentials[calls[d].credential].registration = q
            PROVE  Yields(q)'
        <4>1. d # c /\ calls[d].credential # x /\ calls[d].credential \in CredentialIds
          BY <1>0, <1>1, <1>4, <3>5 DEF CallsLinked
        <4>2. calls'[d] = calls[d]
              /\ credentials'[calls[d].credential] = credentials[calls[d].credential]
          BY <1>4, <1>6, <4>1 DEF CallsOnly
        <4> QED BY <3>5, <4>2 DEF Yields
      <3> QED BY <3>1, <3>2, <3>3, <3>4, <3>5 DEF Yields
    <2> QED BY <2>1, <2>2
  <1> QED BY <1>8, <1>9, <1>10, <1>11, <1>12, <1>13, <1>14, <1>15 DEF ChainsInv

(* A refresh puts a credential in the place of one that was active. *)
LEMMA RefreshEffect ==
    ASSUME ChainsInv, NEW c \in Calls,
           NEW x \in CredentialIds, NEW y \in CredentialIds,
           RefreshServiceAuthCredential(c, x, y)
    PROVE  /\ credentials[x].state = "active" /\ ~credentials[x].expired
           /\ registrations[credentials[x].registration].state = "claimed"
           /\ credentials[y].state = "none" /\ x < y
           /\ \A z \in CredentialIds : credentials[z].state # "none" => z < y
           /\ \A z \in CredentialIds : z < y => credentials[z].state # "none"
           /\ credentials' \in [CredentialIds -> Credential]
           /\ credentials'[y].state = "active" /\ ~credentials'[y].expired
           /\ credentials'[x].state = "revoked"
           /\ \A z \in {x, y} : /\ credentials'[z].registration = credentials[x].registration
                                /\ credentials'[z].assertion = credentials[x].assertion
           /\ \A z \in CredentialIds \ {x, y} : credentials'[z] = credentials[z]
  <1> DEFINE r == credentials[x].registration
             a == credentials[x].assertion
             h == credentials[x].holder
             row == [state |-> "active", registration |-> r, assertion |-> a,
                     holder |-> h, expired |-> FALSE]
             table == InsertCredential(y, r, a, h)
  <1>0. credentials \in [CredentialIds -> Credential] /\ CredentialsLinked
    BY DEF ChainsInv, ChainsTypeOK
  <1>1. /\ credentials[x].state = "active" /\ ~credentials[x].expired
        /\ registrations[r].state = "claimed" /\ IsNext(credentials, y)
        /\ credentials' = [table EXCEPT ![x].state = "revoked"]
    BY DEF RefreshServiceAuthCredential, Authorized
  <1>2. r \in RegistrationIds /\ a \in AssertionIds /\ h \in Holders \cup {NoHolder}
    BY <1>0, <1>1 DEF CredentialsLinked, Credential
  <1>3. /\ credentials[y].state = "none"
        /\ \A z \in CredentialIds : credentials[z].state # "none" => z < y
        /\ \A z \in CredentialIds : z < y => credentials[z].state # "none"
        /\ table \in [CredentialIds -> Credential]
        /\ table[y] = row
        /\ \A z \in CredentialIds \ {y} : table[z] = credentials[z]
    BY <1>1, <1>2, InsertCredentialEffect
  <1>4. row.state = "active" /\ row.registration = r /\ row.assertion = a /\ row.expired = FALSE
    OBVIOUS
  <1>5. x # y /\ x < y
    BY <1>1, <1>3
  <1> HIDE DEF row, table, r, a, h
  <1>6. /\ credentials' \in [CredentialIds -> Credential]
        /\ credentials'[x] = [table[x] EXCEPT !.state = "revoked"]
        /\ \A z \in CredentialIds \ {x} : credentials'[z] = table[z]
    BY <1>1, <1>3 DEF Credential
  <1>7. /\ credentials'[x].state = "revoked"
        /\ credentials'[x].registration = credentials[x].registration
        /\ credentials'[x].assertion = credentials[x].assertion
    BY <1>0, <1>3, <1>5, <1>6 DEF Credential
  <1>8. r = credentials[x].registration /\ a = credentials[x].assertion
    BY DEF r, a
  <1>9. credentials'[y] = row /\ \A z \in CredentialIds \ {x, y} : credentials'[z] = credentials[z]
    BY <1>3, <1>5, <1>6
  <1> QED BY <1>1, <1>3, <1>4, <1>5, <1>6, <1>7, <1>8, <1>9

LEMMA RefreshKeeps ==
    ASSUME ChainsInv, NEW c \in Calls,
           NEW x \in CredentialIds, NEW y \in CredentialIds,
           RefreshServiceAuthCredential(c, x, y)
    PROVE  ChainsInv'
  <1> DEFINE call == [IdleCall EXCEPT !.op = "answer", !.credential = y]
  <1>0. /\ ChainsTypeOK /\ RegistrationsSound /\ AssertionsLinked /\ CredentialsLinked
        /\ CredentialsInOrder /\ OneActive /\ CallsLinked /\ IssuedYield
    BY DEF ChainsInv
  <1>1. /\ calls[c] = IdleCall /\ Continues(c, call)
        /\ UNCHANGED <<registrations, assertions, others, given, cut>>
    BY DEF RefreshServiceAuthCredential
  <1>2. /\ credentials[x].state = "active" /\ credentials[y].state = "none" /\ x < y
        /\ \A z \in CredentialIds : credentials[z].state # "none" => z < y
        /\ \A z \in CredentialIds : z < y => credentials[z].state # "none"
        /\ credentials' \in [CredentialIds -> Credential]
        /\ credentials'[y].state = "active" /\ credentials'[x].state = "revoked"
        /\ \A z \in {x, y} : /\ credentials'[z].registration = credentials[x].registration
                             /\ credentials'[z].assertion = credentials[x].assertion
        /\ \A z \in CredentialIds \ {x, y} : credentials'[z] = credentials[z]
    BY RefreshEffect
  <1>3. call \in Call /\ call.op = "answer" /\ call.credential = y
    BY CallKinds
  <1> HIDE DEF call
  <1>4. CallsOnly(c) /\ calls'[c] = call
    BY <1>1, <1>3, ContinuesEffect
  <1>5. ChainsTypeOK'
    BY <1>0, <1>1, <1>2, <1>4 DEF ChainsTypeOK, CallsOnly, others
  <1>6. RegistrationsSound' /\ AssertionsLinked'
    BY <1>0, <1>1 DEF RegistrationsSound, AssertionsLinked
  <1>7. CredentialsLinked'
    <2> SUFFICES ASSUME NEW z \in CredentialIds
                 PROVE  /\ credentials'[z].state = "none" => credentials'[z].holder = NoHolder
                        /\ credentials'[z].state # "none" =>
                              /\ credentials'[z].registration \in RegistrationIds
                              /\ credentials'[z].assertion \in AssertionIds
                              /\ assertions[credentials'[z].assertion].state = "consumed"
                              /\ assertions[credentials'[z].assertion].registration
                                    = credentials'[z].registration
      BY <1>1 DEF CredentialsLinked
    <2>1. CASE z \in {x, y}
      BY <1>0, <1>2, <2>1 DEF CredentialsLinked
    <2>2. CASE z \notin {x, y}
      BY <1>0, <1>2, <2>2 DEF CredentialsLinked
    <2> QED BY <2>1, <2>2
  <1>8. CredentialsInOrder'
    <2>1. \A z \in CredentialIds : credentials'[z].state # "none" <=> credentials[z].state # "none" \/ z = y
      BY <1>2
    <2> QED BY <1>0, <1>2, <2>1 DEF CredentialsInOrder
  <1>9. OneActive'
    <2> SUFFICES ASSUME NEW z \in CredentialIds, NEW w \in CredentialIds,
                        credentials'[z].state = "active", credentials'[w].state = "active",
                        credentials'[z].registration = credentials'[w].registration
                 PROVE  z = w
      BY DEF OneActive
    <2>1. ASSUME NEW v \in CredentialIds, credentials'[v].state = "active", v # y,
                 credentials'[v].registration = credentials[x].registration
          PROVE  FALSE
      BY <1>0, <1>2, <2>1 DEF OneActive
    <2>2. CASE z = y \/ w = y
      BY <1>2, <2>1, <2>2
    <2>3. CASE z # y /\ w # y
      <3>1. z # x /\ w # x
        BY <1>2
      <3> QED BY <1>0, <1>2, <2>3, <3>1 DEF OneActive
    <2> QED BY <2>2, <2>3
  <1>10. CallsLinked'
    <2>1. \A z \in CredentialIds : credentials[z].state # "none" => credentials'[z].state # "none"
      BY <1>2
    <2>2. \A z \in given' : credentials'[z].state # "none"
      BY <1>0, <1>1, <2>1 DEF CallsLinked, ChainsTypeOK
    <2> QED BY <1>0, <1>1, <1>2, <1>3, <1>4, <2>1, <2>2 DEF CallsLinked, CallsOnly
  <1>11. IssuedYield'
    <2> SUFFICES ASSUME NEW r \in RegistrationIds, registrations[r].issued
                 PROVE  Yields(r)'
      BY <1>1 DEF IssuedYield
    <2>1. Yields(r) /\ calls[c].op = "idle"
      BY <1>0, <1>1, CallKinds DEF IssuedYield
    <2>2. \A z \in CredentialIds :
             credentials[z].state # "none" => credentials'[z].registration = credentials[z].registration
      BY <1>2
    <2>3. \A z \in given : credentials'[z].registration = credentials[z].registration
      BY <1>0, <2>2 DEF CallsLinked, ChainsTypeOK
    <2>4. \A d \in Calls : calls[d].op = "answer" =>
             credentials'[calls[d].credential].registration
                = credentials[calls[d].credential].registration
      BY <1>0, <2>2 DEF CallsLinked
    <2> QED BY <1>1, <1>4, <2>1, <2>3, <2>4 DEF Yields, CallsOnly
  <1> QED BY <1>5, <1>6, <1>7, <1>8, <1>9, <1>10, <1>11 DEF ChainsInv

(* Every step keeps the invariant. *)
LEMMA ChainsInvStep == ChainsInv /\ [ChainsNext]_chainVars => ChainsInv'
  <1> SUFFICES ASSUME ChainsInv, [ChainsNext]_chainVars PROVE ChainsInv'
    OBVIOUS
  <1>1. CASE CeremonyStep
    <2>1. PICK r \in RegistrationIds :
             \/ RegisterServiceAuth(r)
             \/ \E holder \in Holders, right \in BOOLEAN : CompleteServiceAuthClaim(r, holder, right)
             \/ PollExpires(r)
             \/ PollRevokes(r)
             \/ \E c \in Calls, a \in AssertionIds : PollIssuesAssertion(c, r, a)
             \/ \E actor \in UserIds : RevokeServiceAuthRegistration(r, actor)
             \/ RegistrationLapses(r)
      BY <1>1 DEF CeremonyStep
    <2>2. CASE \E c \in Calls, a \in AssertionIds : PollIssuesAssertion(c, r, a)
      BY <2>2, PollIssuesKeeps
    <2>3. CASE ~\E c \in Calls, a \in AssertionIds : PollIssuesAssertion(c, r, a)
      BY <2>1, <2>3, RegistrationsSettle, SettleKeeps
    <2> QED BY <2>2, <2>3
  <1>2. CASE ChainStep
    <2>1. ASSUME NEW c \in Calls, NEW x \in CredentialIds, ExchangeIdentityAssertion(c, x)
          PROVE  ChainsInv'
      BY <2>1, ExchangeAgainKeeps
    <2>2. ASSUME NEW c \in Calls, NEW x \in CredentialIds, ConsumeServiceAuthAssertion(c, x)
          PROVE  ChainsInv'
      BY <2>2, ConsumeKeeps
    <2>3. ASSUME NEW c \in Calls, NEW x \in CredentialIds, NEW y \in CredentialIds,
                 RefreshServiceAuthCredential(c, x, y)
          PROVE  ChainsInv'
      BY <2>3, RefreshKeeps
    <2>4. ASSUME NEW c \in Calls, Answer(c) \/ CutOff(c)
          PROVE  ChainsInv'
      BY <2>4, AnswerKeeps, CutOffKeeps
    <2>5. CASE \/ \E x \in CredentialIds :
                     RevokeServiceAuthCredentialAsHolder(x) \/ CredentialExpires(x)
               \/ \E a \in AssertionIds : AssertionExpires(a)
      BY <2>5, CredentialsSettle, SettleKeeps
    <2> QED BY <1>2, <2>1, <2>2, <2>3, <2>4, <2>5 DEF ChainStep
  <1>3. CASE OutsideStep
    BY <1>3, PeopleSettle, SettleKeeps
  <1>4. CASE UNCHANGED chainVars
    BY <1>4, StillTables, SettleKeeps DEF chainVars, others, RowsSettle
  <1> QED BY <1>1, <1>2, <1>3, <1>4 DEF ChainsNext

(* In every state the rows are typed, the mark of a registration stands    *)
(* for its one assertion, a credential comes from a consumed assertion, a  *)
(* chain has one active credential, and what was issued yields one.        *)
THEOREM ChainsInvariance == ChainsSpec => []ChainsInv
  <1>1. ChainsInit => ChainsInv
    BY ChainsInvInit
  <1>2. ChainsInv /\ [ChainsNext]_chainVars => ChainsInv'
    BY ChainsInvStep
  <1> QED BY <1>1, <1>2, PTL DEF ChainsSpec

(* A claim that led to an assertion ends in a credential the agent was     *)
(* given, or will be by a call under way, unless that call was cut off:    *)
(* no interleaving of polls, exchanges and revocations loses it otherwise. *)
THEOREM ClaimsYield == ChainsSpec => []ClaimYieldsCredential
  <1>1. ChainsInv => ClaimYieldsCredential
    BY DEF ChainsInv, IssuedYield, Yields, ClaimYieldsCredential
  <1> QED BY <1>1, ChainsInvariance, PTL

-----------------------------------------------------------------------------
(* The chains are families of SessionFamilies                              *)

SameChain(f, x) == credentials[x].registration = credentials[f].registration

\* The first credential of a chain, which names it.
NamesChain(f) ==
    credentials[f].state # "none" /\ ~\E x \in CredentialIds : SameChain(f, x) /\ x < f

ChainUsable(f) == \E x \in CredentialIds : SameChain(f, x) /\ Usable(x)

\* The head is the usable credential of the chain, and says when there is none.
ChainHeadsKnown ==
    /\ ChainHead \in [CredentialIds -> 0 .. MaxCredentials + 1]
    /\ \A f \in CredentialIds :
          /\ ~NamesChain(f) => ChainHead[f] = 0
          /\ NamesChain(f) /\ ~ChainUsable(f) => ChainHead[f] = MaxCredentials + 1
          /\ \A x \in CredentialIds :
                NamesChain(f) /\ SameChain(f, x) /\ Usable(x) => ChainHead[f] = x

(* A chain has one usable credential at most, so CHOOSE has no choice. *)
LEMMA ChainHeadsAreKnown == ChainsInv => ChainHeadsKnown
  <1> SUFFICES ASSUME ChainsInv PROVE ChainHeadsKnown
    OBVIOUS
  <1>0. MaxCredentials \in Nat /\ CredentialIds = 1 .. MaxCredentials
    BY AuthMdAssumption DEF CredentialIds
  <1> DEFINE chain(f) == CredentialsOf(credentials[f].registration)
             H(f) == IF credentials[f].state = "none" \/ \E x \in chain(f) : x < f THEN 0
                     ELSE IF \E x \in chain(f) : {y \in chain(f) : Usable(y)} = {x}
                          THEN CHOOSE x \in chain(f) : Usable(x)
                          ELSE MaxCredentials + 1
  <1>1. ASSUME NEW f \in CredentialIds
        PROVE  /\ \A x : x \in chain(f) <=> x \in CredentialIds /\ SameChain(f, x)
               /\ chain(f) \subseteq CredentialIds
    BY DEF CredentialsOf, SameChain
  <1>2. ChainHead = [f \in CredentialIds |-> H(f)]
    BY DEF ChainHead
  <1> HIDE DEF chain
  <1>3. ASSUME NEW f \in CredentialIds, ~NamesChain(f) PROVE ChainHead[f] = 0
    BY <1>1, <1>2, <1>3 DEF NamesChain
  <1>4. ASSUME NEW f \in CredentialIds, NamesChain(f), ~ChainUsable(f)
        PROVE  ChainHead[f] = MaxCredentials + 1
    <2>1. {y \in chain(f) : Usable(y)} = {}
      BY <1>1, <1>4 DEF ChainUsable
    <2>2. ~\E x \in chain(f) : {y \in chain(f) : Usable(y)} = {x}
      BY <2>1
    <2>3. ~(credentials[f].state = "none" \/ \E x \in chain(f) : x < f)
      BY <1>1, <1>4 DEF NamesChain
    <2> QED BY <1>2, <2>2, <2>3
  <1>5. ASSUME NEW f \in CredentialIds, NEW x \in CredentialIds,
               NamesChain(f), SameChain(f, x), Usable(x)
        PROVE  ChainHead[f] = x
    <2>1. \A y \in chain(f) : Usable(y) => y = x
      BY <1>1, <1>5 DEF ChainsInv, OneActive, Usable, SameChain
    <2>2. x \in chain(f) /\ {y \in chain(f) : Usable(y)} = {x}
      BY <1>1, <1>5, <2>1
    <2>3. ~(credentials[f].state = "none" \/ \E y \in chain(f) : y < f)
      BY <1>1, <1>5 DEF NamesChain
    <2>4. ChainHead[f] = CHOOSE y \in chain(f) : Usable(y)
      BY <1>2, <2>2, <2>3
    <2>5. (CHOOSE y \in chain(f) : Usable(y)) = x
      BY <1>5, <2>1, <2>2
    <2> QED BY <2>4, <2>5
  <1>6. ASSUME NEW f \in CredentialIds PROVE ChainHead[f] \in 0 .. MaxCredentials + 1
    <2>1. CASE ~NamesChain(f)
      BY <1>0, <1>3, <2>1
    <2>2. CASE NamesChain(f) /\ ~ChainUsable(f)
      BY <1>0, <1>4, <2>2
    <2>3. CASE NamesChain(f) /\ ChainUsable(f)
      BY <1>0, <1>5, <2>3 DEF ChainUsable
    <2> QED BY <2>1, <2>2, <2>3
  <1>7. ChainHead \in [CredentialIds -> 0 .. MaxCredentials + 1]
    <2> HIDE DEF H
    <2> QED BY <1>2, <1>6
  <1> QED BY <1>3, <1>4, <1>5, <1>7 DEF ChainHeadsKnown

(* The head of a chain is a credential that exists. *)
LEMMA ChainHeadsInUse ==
    ASSUME ChainHeadsKnown, NEW f \in CredentialIds, ChainHead[f] \in CredentialIds
    PROVE  NamesChain(f) /\ SameChain(f, ChainHead[f]) /\ Usable(ChainHead[f])
  <1>0. MaxCredentials \in Nat /\ CredentialIds = 1 .. MaxCredentials
    BY AuthMdAssumption DEF CredentialIds
  <1>1. NamesChain(f) /\ ChainUsable(f)
    BY <1>0 DEF ChainHeadsKnown
  <1>2. PICK x \in CredentialIds : SameChain(f, x) /\ Usable(x)
    BY <1>1 DEF ChainUsable
  <1>3. ChainHead[f] = x
    BY <1>1, <1>2 DEF ChainHeadsKnown
  <1> QED BY <1>1, <1>2, <1>3

\* No credential is added, and none can be used that could not.
ChainsOnlyClose ==
    \A x \in CredentialIds :
        /\ credentials'[x].registration = credentials[x].registration
        /\ credentials'[x].state = "none" <=> credentials[x].state = "none"
        /\ Usable(x)' => Usable(x)

(* Such a step closes the chains whose head it ends. *)
LEMMA StepClosesChains ==
    ASSUME ChainHeadsKnown, ChainHeadsKnown', ChainsOnlyClose
    PROVE  [Chains!FamiliesNext]_ChainHead
  <1> DEFINE F == {f \in CredentialIds :
                      ChainHead[f] \in CredentialIds /\ ChainHead'[f] # ChainHead[f]}
  <1>1. MaxCredentials \in Nat /\ CredentialIds = 1 .. MaxCredentials
    BY AuthMdAssumption DEF CredentialIds
  <1>2. ASSUME NEW f \in CredentialIds, NEW x \in CredentialIds
        PROVE  SameChain(f, x)' <=> SameChain(f, x)
    BY DEF SameChain, ChainsOnlyClose
  <1>3. ASSUME NEW f \in CredentialIds PROVE NamesChain(f)' <=> NamesChain(f)
    BY <1>2 DEF NamesChain, ChainsOnlyClose
  <1>4. ASSUME NEW f \in CredentialIds
        PROVE  ChainHead'[f] = IF f \in F THEN MaxCredentials + 1 ELSE ChainHead[f]
    <2>1. CASE ~NamesChain(f)
      BY <1>1, <1>3, <2>1 DEF ChainHeadsKnown
    <2>2. CASE NamesChain(f) /\ ~ChainUsable(f)'
      <3>1. ChainHead'[f] = MaxCredentials + 1
        BY <1>3, <2>2 DEF ChainHeadsKnown
      <3>2. CASE ChainUsable(f)
        BY <1>1, <2>2, <3>1, <3>2 DEF ChainHeadsKnown, ChainUsable
      <3>3. CASE ~ChainUsable(f)
        BY <1>1, <2>2, <3>1, <3>3 DEF ChainHeadsKnown
      <3> QED BY <3>2, <3>3
    <2>3. CASE NamesChain(f) /\ ChainUsable(f)'
      <3>1. PICK x \in CredentialIds : SameChain(f, x)' /\ Usable(x)'
        BY <2>3 DEF ChainUsable
      <3>2. ChainHead'[f] = x
        BY <1>3, <2>3, <3>1 DEF ChainHeadsKnown
      <3>3. ChainHead[f] = x
        BY <1>2, <2>3, <3>1 DEF ChainHeadsKnown, ChainsOnlyClose
      <3> QED BY <3>2, <3>3
    <2> QED BY <2>1, <2>2, <2>3
  <1>5. ChainHead' = [f \in CredentialIds |-> IF f \in F THEN MaxCredentials + 1 ELSE ChainHead[f]]
    <2>1. ChainHead' = [f \in CredentialIds |-> ChainHead'[f]]
      BY DEF ChainHeadsKnown
    <2> HIDE DEF F
    <2> QED BY <1>4, <2>1
  <1>6. Chains!Close(F)
    BY <1>1, <1>5 DEF Chains!Close, Chains!IsOpen, Chains!Families, Chains!Closed
  <1>7. F \in SUBSET Chains!Families
    BY <1>1 DEF Chains!Families
  <1> QED BY <1>6, <1>7 DEF Chains!FamiliesNext

(* Exchange makes the first credential of its registration, and its head. *)
LEMMA ConsumeOpensChain ==
    ASSUME ChainsInv, ChainHeadsKnown, ChainHeadsKnown', NEW c \in Calls, NEW x \in CredentialIds,
           ConsumeServiceAuthAssertion(c, x)
    PROVE  [Chains!FamiliesNext]_ChainHead
  <1>0. /\ MaxCredentials \in Nat /\ CredentialIds = 1 .. MaxCredentials /\ x \in Nat
        /\ Chains!Families = CredentialIds
    BY AuthMdAssumption DEF CredentialIds, Chains!Families
  <1>1. PICK r \in RegistrationIds, a \in AssertionIds, h \in Holders \cup {NoHolder} :
              /\ a = calls[c].assertion
              /\ calls[c].op = "exchange"
              /\ assertions[a].state = "active" /\ assertions[a].registration = r
              /\ registrations[r].state = "claimed"
              /\ \A y \in CredentialIds :
                    credentials[y].state # "none" => credentials[y].registration # r
              /\ IsNext(credentials, x)
              /\ credentials' = InsertCredential(x, r, a, h)
              /\ assertions' = [assertions EXCEPT ![a].state = "consumed"]
    BY ConsumeEffect
  <1>2. /\ credentials[x].state = "none"
        /\ \A y \in CredentialIds : credentials[y].state # "none" => y < x
        /\ \A y \in CredentialIds : y < x => credentials[y].state # "none"
        /\ credentials'[x].state = "active" /\ credentials'[x].registration = r
        /\ ~credentials'[x].expired
        /\ \A y \in CredentialIds \ {x} : credentials'[y] = credentials[y]
    <2>1. /\ credentials[x].state = "none"
          /\ \A y \in CredentialIds : credentials[y].state # "none" => y < x
          /\ \A y \in CredentialIds : y < x => credentials[y].state # "none"
          /\ credentials'[x] = [state |-> "active", registration |-> r, assertion |-> a,
                                holder |-> h, expired |-> FALSE]
          /\ \A y \in CredentialIds \ {x} : credentials'[y] = credentials[y]
      BY <1>1, InsertCredentialEffect
    <2> QED BY <2>1
  <1>3. registrations' = registrations
    BY DEF ConsumeServiceAuthAssertion
  <1>4. Usable(x)' /\ NamesChain(x)' /\ SameChain(x, x)'
    <2>1. ~\E y \in CredentialIds : SameChain(x, y)' /\ y < x
      BY <1>0, <1>1, <1>2 DEF SameChain
    <2> QED BY <1>1, <1>2, <1>3, <2>1 DEF Usable, NamesChain, SameChain
  <1>5. ChainHead[x] = 0 /\ ChainHead'[x] = x
    BY <1>2, <1>4 DEF ChainHeadsKnown, NamesChain
  <1>6. ASSUME NEW f \in CredentialIds, f # x PROVE ChainHead'[f] = ChainHead[f]
    <2>1. CASE credentials[f].state = "none"
      BY <1>2, <1>6, <2>1 DEF ChainHeadsKnown, NamesChain
    <2>2. CASE credentials[f].state # "none"
      <3>1. f < x /\ credentials'[f] = credentials[f] /\ credentials[f].registration # r
        BY <1>1, <1>2, <1>6, <2>2
      <3>2. ASSUME NEW y \in CredentialIds
            PROVE  SameChain(f, y)' /\ y < f <=> SameChain(f, y) /\ y < f
        BY <1>0, <1>2, <3>1 DEF SameChain
      <3>3. ASSUME NEW y \in CredentialIds
            PROVE  SameChain(f, y)' /\ Usable(y)' <=> SameChain(f, y) /\ Usable(y)
        BY <1>2, <1>3, <3>1 DEF SameChain, Usable
      <3>4. NamesChain(f)' <=> NamesChain(f)
        BY <3>1, <3>2 DEF NamesChain
      <3>5. CASE ~NamesChain(f)
        BY <3>4, <3>5 DEF ChainHeadsKnown
      <3>6. CASE NamesChain(f) /\ ChainUsable(f)
        <4>1. PICK y \in CredentialIds : SameChain(f, y) /\ Usable(y)
          BY <3>6 DEF ChainUsable
        <4> QED BY <3>3, <3>4, <3>6, <4>1 DEF ChainHeadsKnown
      <3>7. CASE NamesChain(f) /\ ~ChainUsable(f)
        <4>1. ~ChainUsable(f)'
          BY <3>3, <3>7 DEF ChainUsable
        <4> QED BY <3>4, <3>7, <4>1 DEF ChainHeadsKnown
      <3> QED BY <3>5, <3>6, <3>7
    <2> QED BY <2>1, <2>2
  <1>7. ChainHead' = [ChainHead EXCEPT ![x] = x]
    BY <1>5, <1>6 DEF ChainHeadsKnown
  <1>8. \A g \in CredentialIds : ChainHead[g] # x
    BY <1>2, ChainHeadsInUse DEF Usable
  <1>9. Chains!Open(x)
    BY <1>0, <1>5, <1>7, <1>8 DEF Chains!Open, Chains!Unopened
  <1> QED BY <1>0, <1>9 DEF Chains!FamiliesNext

(* A refresh moves the head on, to a credential that is newer. *)
LEMMA RefreshAdvancesChain ==
    ASSUME ChainsInv, ChainHeadsKnown, ChainHeadsKnown', NEW c \in Calls,
           NEW x \in CredentialIds, NEW y \in CredentialIds,
           RefreshServiceAuthCredential(c, x, y)
    PROVE  [Chains!FamiliesNext]_ChainHead
  <1>0. /\ MaxCredentials \in Nat /\ CredentialIds = 1 .. MaxCredentials
        /\ x \in Nat /\ y \in Nat /\ Chains!Families = CredentialIds
    BY AuthMdAssumption DEF CredentialIds, Chains!Families
  <1>1. /\ credentials[x].state = "active" /\ ~credentials[x].expired
        /\ registrations[credentials[x].registration].state = "claimed"
        /\ credentials[y].state = "none" /\ x < y
        /\ \A z \in CredentialIds : credentials[z].state # "none" => z < y
        /\ \A z \in CredentialIds : z < y => credentials[z].state # "none"
        /\ credentials'[y].state = "active" /\ ~credentials'[y].expired
        /\ credentials'[x].state = "revoked"
        /\ credentials'[x].registration = credentials[x].registration
        /\ credentials'[y].registration = credentials[x].registration
        /\ \A z \in CredentialIds \ {x, y} : credentials'[z] = credentials[z]
    BY RefreshEffect
  <1>2. registrations' = registrations
    BY DEF RefreshServiceAuthCredential
  <1>3. Usable(x) /\ Usable(y)' /\ ~Usable(x)' /\ ~Usable(y)
    BY <1>1, <1>2 DEF Usable
  <1>4. ASSUME NEW f \in CredentialIds, f # y
        PROVE  NamesChain(f)' <=> NamesChain(f)
    <2>1. credentials[f].state = "none" => credentials'[f].state = "none"
      BY <1>1, <1>4
    <2>2. CASE credentials[f].state = "none"
      BY <2>1, <2>2 DEF NamesChain
    <2>3. CASE credentials[f].state # "none"
      <3>1. f < y /\ credentials'[f].state # "none"
            /\ credentials'[f].registration = credentials[f].registration
        BY <1>1, <1>4, <2>3
      <3>2. ASSUME NEW z \in CredentialIds
            PROVE  SameChain(f, z)' /\ z < f <=> SameChain(f, z) /\ z < f
        BY <1>0, <1>1, <3>1 DEF SameChain
      <3> QED BY <2>3, <3>1, <3>2 DEF NamesChain
    <2> QED BY <2>2, <2>3
  <1>5. ~NamesChain(y) /\ ~NamesChain(y)'
    BY <1>1 DEF NamesChain, SameChain
  <1>6. ASSUME NEW f \in CredentialIds, ~(NamesChain(f) /\ SameChain(f, x))
        PROVE  ChainHead'[f] = ChainHead[f]
    <2>1. CASE f = y
      BY <1>5, <2>1 DEF ChainHeadsKnown
    <2>2. CASE f # y /\ ~NamesChain(f)
      BY <1>4, <2>2 DEF ChainHeadsKnown
    <2>3. CASE f # y /\ NamesChain(f)
      <3>1. ~SameChain(f, x) /\ f # x /\ NamesChain(f)'
        BY <1>4, <1>6, <2>3 DEF SameChain
      <3>2. ASSUME NEW z \in CredentialIds
            PROVE  SameChain(f, z)' /\ Usable(z)' <=> SameChain(f, z) /\ Usable(z)
        BY <1>1, <1>2, <1>3, <2>3, <3>1 DEF SameChain, Usable
      <3>3. CASE ChainUsable(f)
        <4>1. PICK z \in CredentialIds : SameChain(f, z) /\ Usable(z)
          BY <3>3 DEF ChainUsable
        <4> QED BY <2>3, <3>1, <3>2, <4>1 DEF ChainHeadsKnown
      <3>4. CASE ~ChainUsable(f)
        <4>1. ~ChainUsable(f)'
          BY <3>2, <3>4 DEF ChainUsable
        <4> QED BY <2>3, <3>1, <3>4, <4>1 DEF ChainHeadsKnown
      <3> QED BY <3>3, <3>4
    <2> QED BY <2>1, <2>2, <2>3
  <1>7. CASE \E f \in CredentialIds : NamesChain(f) /\ SameChain(f, x)
    <2>1. PICK f \in CredentialIds : NamesChain(f) /\ SameChain(f, x)
      BY <1>7
    <2>2. f # y /\ NamesChain(f)' /\ SameChain(f, y)'
      BY <1>1, <1>4, <1>5, <2>1 DEF SameChain
    <2>3. ChainHead[f] = x /\ ChainHead'[f] = y
      BY <1>3, <2>1, <2>2 DEF ChainHeadsKnown
    <2>4. ASSUME NEW g \in CredentialIds, g # f PROVE ~(NamesChain(g) /\ SameChain(g, x))
      <3>1. f \in Nat /\ g \in Nat
        BY <1>0
      <3>2. g < f \/ f < g
        BY <2>4, <3>1
      <3> QED BY <2>1, <3>2 DEF NamesChain, SameChain
    <2>5. ChainHead' = [ChainHead EXCEPT ![f] = y]
      BY <1>6, <2>3, <2>4 DEF ChainHeadsKnown
    <2>6. \A g \in CredentialIds : ChainHead[g] # y
      BY <1>3, ChainHeadsInUse
    <2>7. Chains!Advance(f, y)
      BY <1>0, <1>1, <2>3, <2>5, <2>6 DEF Chains!Advance, Chains!IsOpen
    <2> QED BY <1>0, <2>7 DEF Chains!FamiliesNext
  <1>8. CASE ~\E f \in CredentialIds : NamesChain(f) /\ SameChain(f, x)
    <2>1. ChainHead' = ChainHead
      BY <1>6, <1>8 DEF ChainHeadsKnown
    <2> QED BY <2>1
  <1> QED BY <1>7, <1>8

(* All other steps add no credential and bring none back. *)
LEMMA SettleClosesChains ==
    ASSUME ChainsInv, RegistrationsMove, CredentialsOnlyClose
    PROVE  ChainsOnlyClose
  <1>1. AssertionsLinked /\ CredentialsLinked
    BY DEF ChainsInv
  <1>2. ASSUME NEW x \in CredentialIds, Usable(x)' PROVE Usable(x)
    <2>1. /\ credentials[x].state = "active"
          /\ ~credentials[x].expired
          /\ registrations'[credentials[x].registration].state = "claimed"
      BY <1>2 DEF Usable, CredentialsOnlyClose
    <2>2. /\ credentials[x].registration \in RegistrationIds
          /\ registrations[credentials[x].registration].issued
      BY <1>1, <2>1 DEF AssertionsLinked, CredentialsLinked
    <2> QED BY <2>1, <2>2 DEF RegistrationsMove, Usable
  <1> QED BY <1>2 DEF ChainsOnlyClose, CredentialsOnlyClose

LEMMA StillChains ==
    ASSUME UNCHANGED credentials,
           \A r \in RegistrationIds : registrations'[r].state = registrations[r].state,
           ChainsInv
    PROVE  ChainsOnlyClose
  BY DEF ChainsOnlyClose, Usable, ChainsInv, CredentialsLinked

(* Every step of the chains is a step of SessionFamilies or invisible to it. *)
LEMMA ChainsFamiliesStep ==
    ASSUME ChainsInv, ChainHeadsKnown, ChainHeadsKnown', [ChainsNext]_chainVars
    PROVE  [Chains!FamiliesNext]_ChainHead
  <1>1. RowsSettle => ChainsOnlyClose
    BY SettleClosesChains DEF RowsSettle
  <1>2. CASE CeremonyStep
    <2>1. PICK r \in RegistrationIds :
             \/ RegisterServiceAuth(r)
             \/ \E holder \in Holders, right \in BOOLEAN : CompleteServiceAuthClaim(r, holder, right)
             \/ PollExpires(r)
             \/ PollRevokes(r)
             \/ \E c \in Calls, a \in AssertionIds : PollIssuesAssertion(c, r, a)
             \/ \E actor \in UserIds : RevokeServiceAuthRegistration(r, actor)
             \/ RegistrationLapses(r)
      BY <1>2 DEF CeremonyStep
    <2>2. ASSUME NEW c \in Calls, NEW a \in AssertionIds, PollIssuesAssertion(c, r, a)
          PROVE  ChainsOnlyClose
      <3>1. UNCHANGED credentials /\ registrations' = [registrations EXCEPT ![r].issued = TRUE]
        BY <2>2 DEF PollIssuesAssertion
      <3>2. \A q \in RegistrationIds : registrations'[q].state = registrations[q].state
        BY <3>1 DEF ChainsInv, ChainsTypeOK, Registration
      <3> QED BY <3>1, <3>2, StillChains
    <2>3. ASSUME ~\E c \in Calls, a \in AssertionIds : PollIssuesAssertion(c, r, a)
          PROVE  ChainsOnlyClose
      <3>1. RowsSettle
        <4>1. \/ RegisterServiceAuth(r)
              \/ \E holder \in Holders, right \in BOOLEAN :
                    CompleteServiceAuthClaim(r, holder, right)
              \/ PollExpires(r)
              \/ PollRevokes(r)
              \/ \E actor \in UserIds : RevokeServiceAuthRegistration(r, actor)
              \/ RegistrationLapses(r)
          BY <2>1, <2>3
        <4> QED BY <4>1, RegistrationsSettle
      <3> QED BY <1>1, <3>1
    <2> QED BY <2>2, <2>3, StepClosesChains
  <1>3. CASE ChainStep
    <2>1. ASSUME NEW c \in Calls, NEW x \in CredentialIds, ConsumeServiceAuthAssertion(c, x)
          PROVE  [Chains!FamiliesNext]_ChainHead
      BY <2>1, ConsumeOpensChain
    <2>2. ASSUME NEW c \in Calls, NEW x \in CredentialIds, NEW y \in CredentialIds,
                 RefreshServiceAuthCredential(c, x, y)
          PROVE  [Chains!FamiliesNext]_ChainHead
      BY <2>2, RefreshAdvancesChain
    <2>3. ASSUME NEW c \in Calls,
                 Answer(c) \/ CutOff(c) \/ \E x \in CredentialIds : ExchangeIdentityAssertion(c, x)
          PROVE  [Chains!FamiliesNext]_ChainHead
      <3>1. UNCHANGED <<registrations, credentials>>
        BY <2>3 DEF Answer, CutOff, ExchangeIdentityAssertion
      <3> QED BY <3>1, StillChains, StepClosesChains
    <2>4. CASE \/ \E x \in CredentialIds :
                     RevokeServiceAuthCredentialAsHolder(x) \/ CredentialExpires(x)
               \/ \E a \in AssertionIds : AssertionExpires(a)
      BY <1>1, <2>4, CredentialsSettle, StepClosesChains
    <2> QED BY <1>3, <2>1, <2>2, <2>3, <2>4 DEF ChainStep
  <1>4. CASE OutsideStep
    BY <1>1, <1>4, PeopleSettle, StepClosesChains
  <1>5. CASE UNCHANGED chainVars
    BY <1>5, StillChains, StepClosesChains DEF chainVars
  <1> QED BY <1>2, <1>3, <1>4, <1>5 DEF ChainsNext

(* No credential is in use before the first registration. *)
LEMMA ChainsFamiliesStart == ChainsInit => Chains!FamiliesInit
  <1> SUFFICES ASSUME ChainsInit PROVE Chains!FamiliesInit
    OBVIOUS
  <1>1. \A f \in CredentialIds : credentials[f].state = "none"
    BY DEF ChainsInit
  <1>2. CredentialIds = Chains!Families
    BY DEF CredentialIds, Chains!Families
  <1> QED BY <1>1, <1>2 DEF ChainHead, Chains!FamiliesInit, Chains!Unopened

(* A registration has one chain of credentials with one head, which moves  *)
(* on to newer credentials only and never comes back: what SessionFamilies *)
(* promises, whatever polls, exchanges and refreshes run at once.          *)
THEOREM ChainsImplementFamilies == ChainsSpec => ImplementsChains
  <1>1. ChainsInv /\ ChainsInv' /\ [ChainsNext]_chainVars => [Chains!FamiliesNext]_ChainHead
    <2>1. ChainsInv' => ChainHeadsKnown'
      BY ChainHeadsAreKnown, PTL
    <2> QED BY <2>1, ChainHeadsAreKnown, ChainsFamiliesStep
  <1> QED BY <1>1, ChainsInvariance, ChainsFamiliesStart, PTL
          DEF ChainsSpec, ImplementsChains, Chains!FamiliesSpec
=============================================================================
