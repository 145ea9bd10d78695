-------------------------- MODULE AgentCredentials ---------------------------
(***************************************************************************)
(* How an agent or a host is recognised by a signed request (a JWT with a  *)
(* key's signature, an issuer, a jti and an expiry), on top of AgentAuth:  *)
(* the verification material is read, the signature and times are checked  *)
(* against it, and a mutation consumes the jti. The three are not one      *)
(* transaction: keys rotate, agents are revoked, the JWT expires and the   *)
(* replay record is cleaned up between them.                               *)
(*                                                                         *)
(* A JWT keeps the generations of the keys it was signed with. "lapsed" is *)
(* the flag that replayExpiresAt has passed: the mutation, the cleanup and *)
(* (with its clock skew) the verifier compare the time with that value.    *)
(***************************************************************************)
EXTENDS AgentAuth

CONSTANTS
    Jwts,            \* signed requests, each with its jti
    Requests         \* requests that may be in progress at once

VARIABLES
    jwts,            \* JWTs, and the replay records of their jti
    requests,        \* requests: the JWT and the generations that were read
    uses             \* history: how often a JWT was accepted, up to two

credentialVars == <<vars, jwts, requests, uses>>

Generations == 1 .. MaxGeneration

\* agent = "host": the JWT of the host itself.
Jwt == [state : {"none", "fresh", "lapsed"}, host : Hosts \cup {NoHost},
        agent : Agents \cup {"host"}, gen : Generations, hostGen : Generations,
        recorded : BOOLEAN]

Request == [op : {"idle", "consume"}, jwt : Jwts \cup {NoHost},
            gen : Generations, hostGen : Generations]

Idle == [op |-> "idle", jwt |-> NoHost, gen |-> 1, hostGen |-> 1]

CredentialTypeOK ==
    /\ TypeOK
    /\ jwts \in [Jwts -> Jwt]
    /\ requests \in [Requests -> Request]
    /\ uses \in [Jwts -> 0 .. 2]

CredentialInit ==
    /\ Init
    /\ jwts = [j \in Jwts |-> [state |-> "none", host |-> NoHost, agent |-> "host",
                               gen |-> 1, hostGen |-> 1, recorded |-> FALSE]]
    /\ requests = [r \in Requests |-> Idle]
    /\ uses = [j \in Jwts |-> 0]

-----------------------------------------------------------------------------

\* With the keys of the moment. Whoever keeps a rotated key signs no JWT that
\* could not have been signed with it before and kept.
Sign(j, h, agent) ==
    /\ jwts[j].state = "none"
    /\ hosts[h].status # "none"
    /\ agent # "host" => agents[agent].host = h
    /\ jwts' = [jwts EXCEPT ![j] =
                   [@ EXCEPT !.state = "fresh", !.host = h, !.agent = agent,
                             !.gen = IF agent = "host" THEN 1 ELSE agents[agent].gen,
                             !.hostGen = hosts[h].gen]]
    /\ UNCHANGED <<vars, requests, uses>>

JwtLapses(j) ==
    /\ jwts[j].state = "fresh"
    /\ jwts' = [jwts EXCEPT ![j].state = "lapsed"]
    /\ UNCHANGED <<vars, requests, uses>>

\* getAgentHostProtocolVerificationMaterial finds the key the JWT names, which
\* must be the active one of an active host.
HostKeyVerifies(h, hostGen) ==
    /\ hosts[h].status = "active"
    /\ hosts[h].keyLive
    /\ hosts[h].gen = hostGen

\* getAgentProtocolVerificationMaterial, for the JWT of an agent; the
\* signature is checked with the active key of the agent.
AgentKeyVerifies(a, gen) ==
    /\ agents[a].status = "active"
    /\ agents[a].life = "current"
    /\ agents[a].keyLive
    /\ agents[a].gen = gen

\* resolveAgentAuthProtocolHostRequest and ..AgentPrincipal up to the mutation.
Verify(r, j) ==
    LET jwt == jwts[j]
    IN /\ requests[r].op = "idle"
       /\ jwt.state = "fresh"
       /\ HostKeyVerifies(jwt.host, jwt.hostGen)
       /\ jwt.agent # "host" => AgentKeyVerifies(jwt.agent, jwt.gen)
       /\ requests' = [requests EXCEPT ![r] = [op |-> "consume", jwt |-> j,
                                               gen |-> jwt.gen, hostGen |-> jwt.hostGen]]
       /\ UNCHANGED <<vars, jwts, uses>>

\* Mutant: what was verified is not asked again.
ActiveOnly(a, gen) == agents[a].status = "active"

\* consumeAgentCredential, of the agent: status, expiries, owner and key.
AgentAccepted(a, gen) ==
    /\ agents[a].status = "active"
    /\ agents[a].life = "current"
    /\ organization = "active"
    /\ OwnerActive(agents[a].owner)
    /\ agents[a].keyLive
    /\ agents[a].gen = gen

HostAccepted(h, hostGen) ==
    /\ hosts[h].status = "active"
    /\ hosts[h].gen = hostGen
    /\ hosts[h].keyLive

\* Mutant: the expiry is left to the verification.
UnrecordedJti(jwt) == ~jwt.recorded

\* requireReplayLifetime and the replay record
FreshJti(jwt) == jwt.state = "fresh" /\ ~jwt.recorded

\* consumeAgentHostRequest and consumeAgentCredential: one transaction. It may
\* also not be reached, or refuse.
Consume(r) ==
    LET j == requests[r].jwt
        jwt == jwts[j]
    IN /\ requests[r].op = "consume"
       /\ requests' = [requests EXCEPT ![r] = Idle]
       /\ \/ /\ FreshJti(jwt)
             /\ HostAccepted(jwt.host, requests[r].hostGen)
             /\ jwt.agent # "host" => AgentAccepted(jwt.agent, requests[r].gen)
             /\ jwts' = [jwts EXCEPT ![j].recorded = TRUE]
             /\ uses' = [uses EXCEPT ![j] = IF @ < 2 THEN @ + 1 ELSE @]
          \/ UNCHANGED <<jwts, uses>>
       /\ UNCHANGED vars

\* cleanupExpiredAgentReplayRecords and ..HostReplayRecords
CleanupExpiredReplayRecord(j) ==
    /\ jwts[j].state = "lapsed"
    /\ jwts[j].recorded
    /\ jwts' = [jwts EXCEPT ![j].recorded = FALSE]
    /\ UNCHANGED <<vars, requests, uses>>

-----------------------------------------------------------------------------

CredentialNext ==
    \/ Next /\ UNCHANGED <<jwts, requests, uses>>
    \/ \E j \in Jwts, h \in Hosts, agent \in Agents \cup {"host"} : Sign(j, h, agent)
    \/ \E j \in Jwts : JwtLapses(j) \/ CleanupExpiredReplayRecord(j)
    \/ \E r \in Requests : Consume(r) \/ \E j \in Jwts : Verify(r, j)

CredentialSpec == CredentialInit /\ [][CredentialNext]_credentialVars

\* As in AgentAuth: only the scheduled batches are sure to run.
FairCredentialSpec ==
    CredentialSpec /\ \A h \in Hosts : WF_vars(CascadeRevokedAgentHost(h))

-----------------------------------------------------------------------------
(* Properties                                                              *)

(* A signed request is accepted once, also when two copies of it have been *)
(* verified before either is consumed, and the record of the first is      *)
(* cleaned up before the second.                                           *)
CredentialUsedOnce == \A j \in Jwts : uses[j] <= 1

Spent(j) ==
    LET jwt == jwts[j]
    IN \/ hosts[jwt.host].status \in {"rejected", "revoked"}
       \/ hosts[jwt.host].gen > jwt.hostGen
       \/ /\ jwt.agent # "host"
          /\ \/ agents[jwt.agent].gen > jwt.gen
             \/ agents[jwt.agent].life = "ended"
             \/ agents[jwt.agent].status \in {"revoked", "rejected"}

(* After the rotation of a key, the revocation of an agent or of its host, *)
(* or the end of its life, nothing that was signed before is accepted any  *)
(* more: not even what was verified before.                                *)
SpentNeverAccepted ==
    [][\A j \in Jwts :
         jwts[j].state # "none" /\ Spent(j) => uses'[j] = uses[j] /\ Spent(j)']_credentialVars

=============================================================================
