------------------------------- MODULE AuthMd -------------------------------
(***************************************************************************)
(* Registration of an agent by the auth.md service: the agent registers,   *)
(* a user claims the registration with the code the agent shows, the agent *)
(* polls and is given one assertion, the assertion is exchanged for a      *)
(* credential, and the credential is refreshed along a chain.              *)
(*                                                                         *)
(* A poll that succeeds is several transactions: one issues the assertion, *)
(* the next exchanges it, and the answer is signed after that. Times are   *)
(* flags: of a registration first the user code lapses, then the whole.    *)
(* A poll that comes too early changes only the interval and is left out.  *)
(* Tokens and codes are the row they name; that the account and the code   *)
(* of a claim are right is a choice of the environment.                    *)
(***************************************************************************)
EXTENDS Naturals

CONSTANTS
    UserIds, Organizations,
    Operators,              \* users whose role has the permission agents:configure
    NoHolder,
    Calls,                  \* polls, exchanges and refreshes in progress at once
    MaxFailedCodeAttempts,
    MaxRegistrations, MaxAssertions, MaxCredentials    \* bounds: rows ever inserted

Holders == UserIds \X Organizations
RegistrationIds == 1 .. MaxRegistrations
AssertionIds == 1 .. MaxAssertions
CredentialIds == 1 .. MaxCredentials

ASSUME AuthMdAssumption ==
    /\ Operators \subseteq UserIds
    /\ NoHolder \notin Holders
    /\ MaxFailedCodeAttempts \in Nat \ {0}
    /\ MaxRegistrations \in Nat /\ MaxAssertions \in Nat /\ MaxCredentials \in Nat

VARIABLES
    registrations, assertions, credentials,
    users, organizations,   \* the rows that exist
    authority,              \* active users with an active membership and a role
    calls,
    given,                  \* credentials whose access token reached the agent
    cut                     \* history: registrations with a call that ended unanswered

chainVars ==
    <<registrations, assertions, credentials, users, organizations, authority, calls, given, cut>>

others == <<users, organizations, authority>>

Registration == [state : {"none", "pending", "claimed", "expired", "revoked", "deleted"},
                 holder : Holders \cup {NoHolder}, failed : 0 .. MaxFailedCodeAttempts,
                 life : {"current", "codeOver", "over"}, issued : BOOLEAN]

Assertion == [state : {"none", "active", "consumed"}, registration : RegistrationIds \cup {0},
              holder : Holders \cup {NoHolder}, expired : BOOLEAN]

Credential == [state : {"none", "active", "revoked", "deleted"},
               registration : RegistrationIds \cup {0}, assertion : AssertionIds \cup {0},
               holder : Holders \cup {NoHolder}, expired : BOOLEAN]

Call == [op : {"idle", "exchange", "answer"}, assertion : AssertionIds \cup {0},
         credential : CredentialIds \cup {0}]

IdleCall == [op |-> "idle", assertion |-> 0, credential |-> 0]

ChainsTypeOK ==
    /\ registrations \in [RegistrationIds -> Registration]
    /\ assertions \in [AssertionIds -> Assertion]
    /\ credentials \in [CredentialIds -> Credential]
    /\ users \subseteq UserIds
    /\ organizations \subseteq Organizations
    /\ authority \subseteq users \X organizations
    /\ calls \in [Calls -> Call]
    /\ given \subseteq CredentialIds
    /\ cut \subseteq RegistrationIds

ChainsInit ==
    /\ registrations = [r \in RegistrationIds |->
          [state |-> "none", holder |-> NoHolder, failed |-> 0, life |-> "current",
           issued |-> FALSE]]
    /\ assertions = [a \in AssertionIds |->
          [state |-> "none", registration |-> 0, holder |-> NoHolder, expired |-> FALSE]]
    /\ credentials = [x \in CredentialIds |->
          [state |-> "none", registration |-> 0, assertion |-> 0, holder |-> NoHolder,
           expired |-> FALSE]]
    /\ users = UserIds
    /\ organizations = Organizations
    /\ authority \in SUBSET Holders
    /\ calls = [c \in Calls |-> IdleCall]
    /\ given = {}
    /\ cut = {}

-----------------------------------------------------------------------------
(* The rows                                                                *)

\* Rows are inserted in the order of their ids.
IsNext(table, id) ==
    table[id].state = "none" /\ \A before \in 1 .. id - 1 : table[before].state # "none"

\* inspectRegistrationAuthority
Authorized(r) ==
    registrations[r].state = "claimed" /\ registrations[r].holder \in authority

Continues(c, call) == calls' = [calls EXCEPT ![c] = call]

InsertCredential(x, r, a, holder) ==
    [credentials EXCEPT ![x] = [state |-> "active", registration |-> r, assertion |-> a,
                                holder |-> holder, expired |-> FALSE]]

RecordFailedClaim(r) ==
    LET failed == registrations[r].failed + 1
    IN registrations' = [registrations EXCEPT
          ![r].failed = failed,
          ![r].state = IF failed >= MaxFailedCodeAttempts THEN "expired" ELSE @]

-----------------------------------------------------------------------------
(* The ceremony                                                            *)

RegisterServiceAuth(r) ==
    /\ IsNext(registrations, r)
    /\ registrations' = [registrations EXCEPT ![r].state = "pending"]
    /\ UNCHANGED <<assertions, credentials, others, calls, given, cut>>

CompleteServiceAuthClaim(r, holder, right) ==
    /\ registrations[r].state = "pending"
    /\ IF registrations[r].life # "current"
       THEN registrations' = [registrations EXCEPT ![r].state = "expired"]
       ELSE IF right /\ holder \in authority
            THEN registrations' = [registrations EXCEPT ![r].state = "claimed",
                                                        ![r].holder = holder]
            ELSE RecordFailedClaim(r)
    /\ UNCHANGED <<assertions, credentials, others, calls, given, cut>>

PollExpires(r) ==
    /\ registrations[r].state = "pending"
    /\ registrations[r].life # "current"
    /\ registrations' = [registrations EXCEPT ![r].state = "expired"]
    /\ UNCHANGED <<assertions, credentials, others, calls, given, cut>>

PollRevokes(r) ==
    /\ registrations[r].state = "claimed"
    /\ registrations[r].life # "over"
    /\ ~registrations[r].issued
    /\ ~Authorized(r)
    /\ registrations' = [registrations EXCEPT ![r].state = "revoked"]
    /\ UNCHANGED <<assertions, credentials, others, calls, given, cut>>

\* Mutant: every poll leaves the mark, also one that finds no claim yet.
PollMarksPending(c, r, a) ==
    /\ calls[c] = IdleCall
    /\ registrations[r].life = "current"
    /\ ~registrations[r].issued
    /\ registrations[r].state \in {"pending", "claimed"}
    /\ registrations' = [registrations EXCEPT ![r].issued = TRUE]
    /\ IF Authorized(r) /\ IsNext(assertions, a)
       THEN /\ assertions' = [assertions EXCEPT ![a] =
                  [state |-> "active", registration |-> r, holder |-> registrations[r].holder,
                   expired |-> FALSE]]
            /\ Continues(c, [IdleCall EXCEPT !.op = "exchange", !.assertion = a])
       ELSE UNCHANGED <<assertions, calls>>
    /\ UNCHANGED <<credentials, others, given, cut>>

PollIssuesAssertion(c, r, a) ==
    /\ calls[c] = IdleCall
    /\ registrations[r].life # "over"
    /\ ~registrations[r].issued
    /\ Authorized(r)
    /\ IsNext(assertions, a)
    /\ assertions' = [assertions EXCEPT ![a] =
          [state |-> "active", registration |-> r, holder |-> registrations[r].holder,
           expired |-> FALSE]]
    /\ registrations' = [registrations EXCEPT ![r].issued = TRUE]
    /\ Continues(c, [IdleCall EXCEPT !.op = "exchange", !.assertion = a])
    /\ UNCHANGED <<credentials, others, given, cut>>

-----------------------------------------------------------------------------
(* Credentials                                                             *)

\* exchangeIdentityAssertion: the assertion is in the answer of the poll, that
\* is, the agent has it together with the credential made from it.
ExchangeIdentityAssertion(c, x) ==
    /\ calls[c] = IdleCall
    /\ x \in given
    /\ Continues(c, [IdleCall EXCEPT !.op = "exchange", !.assertion = credentials[x].assertion])
    /\ UNCHANGED <<registrations, assertions, credentials, others, given, cut>>

Exchangeable(a) ==
    /\ assertions[a].state = "active"
    /\ ~assertions[a].expired
    /\ Authorized(assertions[a].registration)
    /\ registrations[assertions[a].registration].holder = assertions[a].holder

\* Mutant: the assertion is not consumed.
MintOnly(c, x) ==
    LET a == calls[c].assertion
        r == assertions[a].registration
    IN /\ calls[c].op = "exchange"
       /\ Exchangeable(a)
       /\ IsNext(credentials, x)
       /\ credentials' = InsertCredential(x, r, a, registrations[r].holder)
       /\ Continues(c, [IdleCall EXCEPT !.op = "answer", !.credential = x])
       /\ UNCHANGED <<registrations, assertions, others, given, cut>>

ConsumeServiceAuthAssertion(c, x) ==
    LET a == calls[c].assertion
        r == assertions[a].registration
    IN /\ calls[c].op = "exchange"
       /\ Exchangeable(a)
       /\ IsNext(credentials, x)
       /\ assertions' = [assertions EXCEPT ![a].state = "consumed"]
       /\ credentials' = InsertCredential(x, r, a, registrations[r].holder)
       /\ Continues(c, [IdleCall EXCEPT !.op = "answer", !.credential = x])
       /\ UNCHANGED <<registrations, others, given, cut>>

\* The mutation refuses, the action fails or its isolate stops, or the answer
\* is lost: the call is over and what it committed stays.
CutOff(c) ==
    /\ calls[c] # IdleCall
    /\ cut' = cut \cup {IF calls[c].op = "exchange"
                        THEN assertions[calls[c].assertion].registration
                        ELSE credentials[calls[c].credential].registration}
    /\ Continues(c, IdleCall)
    /\ UNCHANGED <<registrations, assertions, credentials, others, given>>

\* The access token is signed and reaches the agent.
Answer(c) ==
    /\ calls[c].op = "answer"
    /\ given' = given \cup {calls[c].credential}
    /\ Continues(c, IdleCall)
    /\ UNCHANGED <<registrations, assertions, credentials, others, cut>>

RefreshServiceAuthCredential(c, x, y) ==
    LET old == credentials[x]
    IN /\ calls[c] = IdleCall
       /\ x \in given
       /\ old.state = "active" /\ ~old.expired
       /\ Authorized(old.registration)
       /\ registrations[old.registration].holder = old.holder
       /\ IsNext(credentials, y)
       /\ credentials' = [InsertCredential(y, old.registration, old.assertion, old.holder)
                             EXCEPT ![x].state = "revoked"]
       /\ Continues(c, [IdleCall EXCEPT !.op = "answer", !.credential = y])
       /\ UNCHANGED <<registrations, assertions, others, given, cut>>

RevokeServiceAuthCredentialAsHolder(x) ==
    /\ x \in given
    /\ credentials[x].state = "active"
    /\ credentials' = [credentials EXCEPT ![x].state = "revoked"]
    /\ UNCHANGED <<registrations, assertions, others, calls, given, cut>>

RevokeServiceAuthRegistration(r, actor) ==
    /\ registrations[r].state = "claimed"
    /\ \/ actor = registrations[r].holder[1]
       \/ actor \in Operators /\ <<actor, registrations[r].holder[2]>> \in authority
    /\ registrations' = [registrations EXCEPT ![r].state = "revoked"]
    /\ UNCHANGED <<assertions, credentials, others, calls, given, cut>>

-----------------------------------------------------------------------------
(* Users, organizations and time                                           *)

\* A user, an organization or a membership is suspended or made active again,
\* or a role is deleted.
SetAuthority(holder) ==
    /\ holder \in users \X organizations
    /\ authority' = IF holder \in authority THEN authority \ {holder} ELSE authority \cup {holder}
    /\ UNCHANGED <<registrations, assertions, credentials, users, organizations, calls, given, cut>>

\* deleteUser, with the organizations that have no other member. Of a
\* registration deleted with its organization the credentials stay.
DeleteUser(u, left) ==
    /\ u \in users
    /\ left \subseteq organizations
    /\ \A o \in left, v \in UserIds \ {u} : <<v, o>> \notin authority
    /\ users' = users \ {u}
    /\ organizations' = organizations \ left
    /\ authority' = {p \in authority : p[1] # u /\ p[2] \notin left}
    /\ registrations' = [r \in RegistrationIds |->
          IF registrations[r].holder # NoHolder
             /\ (registrations[r].holder[1] = u \/ registrations[r].holder[2] \in left)
          THEN [registrations[r] EXCEPT !.state = "deleted"] ELSE registrations[r]]
    /\ credentials' = [x \in CredentialIds |->
          IF credentials[x].holder # NoHolder /\ credentials[x].holder[1] = u
          THEN [credentials[x] EXCEPT !.state = "deleted"] ELSE credentials[x]]
    /\ UNCHANGED <<assertions, calls, given, cut>>

RegistrationLapses(r) ==
    /\ registrations[r].state # "none"
    /\ registrations[r].life # "over"
    /\ registrations' = [registrations EXCEPT
          ![r].life = IF @ = "current" THEN "codeOver" ELSE "over"]
    /\ UNCHANGED <<assertions, credentials, others, calls, given, cut>>

AssertionExpires(a) ==
    /\ assertions[a].state = "active"
    /\ ~assertions[a].expired
    /\ assertions' = [assertions EXCEPT ![a].expired = TRUE]
    /\ UNCHANGED <<registrations, credentials, others, calls, given, cut>>

CredentialExpires(x) ==
    /\ credentials[x].state = "active"
    /\ ~credentials[x].expired
    /\ credentials' = [credentials EXCEPT ![x].expired = TRUE]
    /\ UNCHANGED <<registrations, assertions, others, calls, given, cut>>

-----------------------------------------------------------------------------
CeremonyStep ==
    \E r \in RegistrationIds :
        \/ RegisterServiceAuth(r)
        \/ \E holder \in Holders, right \in BOOLEAN : CompleteServiceAuthClaim(r, holder, right)
        \/ PollExpires(r)
        \/ PollRevokes(r)
        \/ \E c \in Calls, a \in AssertionIds : PollIssuesAssertion(c, r, a)
        \/ \E actor \in UserIds : RevokeServiceAuthRegistration(r, actor)
        \/ RegistrationLapses(r)

ChainStep ==
    \/ \E c \in Calls, x \in CredentialIds :
          \/ ExchangeIdentityAssertion(c, x)
          \/ ConsumeServiceAuthAssertion(c, x)
          \/ \E y \in CredentialIds : RefreshServiceAuthCredential(c, x, y)
    \/ \E c \in Calls : Answer(c) \/ CutOff(c)
    \/ \E x \in CredentialIds : RevokeServiceAuthCredentialAsHolder(x) \/ CredentialExpires(x)
    \/ \E a \in AssertionIds : AssertionExpires(a)

OutsideStep ==
    \/ \E holder \in Holders : SetAuthority(holder)
    \/ \E u \in UserIds, left \in SUBSET Organizations : DeleteUser(u, left)

ChainsNext == CeremonyStep \/ ChainStep \/ OutsideStep

ChainsSpec == ChainsInit /\ [][ChainsNext]_chainVars

-----------------------------------------------------------------------------
(* Properties                                                              *)

(* Once a claim has led to an assertion, the agent has a credential of the *)
(* registration, or a call is under way that will give it one, or the poll *)
(* was cut off, or the registration has ended: the one assertion there     *)
(* will ever be is not lost in any other way.                              *)
ClaimYieldsCredential ==
    \A r \in RegistrationIds :
        registrations[r].state = "claimed" /\ registrations[r].issued =>
            \/ r \in cut
            \/ \E x \in given : credentials[x].registration = r
            \/ \E c \in Calls :
                  \/ calls[c].op = "exchange"
                     /\ assertions[calls[c].assertion].registration = r
                     /\ assertions[calls[c].assertion].state = "active"
                  \/ calls[c].op = "answer"
                     /\ credentials[calls[c].credential].registration = r

\* introspectServiceAuthCredential, apart from the authority of the moment.
Usable(x) ==
    /\ credentials[x].state = "active"
    /\ ~credentials[x].expired
    /\ registrations[credentials[x].registration].state = "claimed"

CredentialsOf(r) == {x \in CredentialIds : credentials[x].registration = r}

\* All credentials of a registration are one chain, named by the first. Two
\* that can be used at once are not a head.
ChainHead ==
    [f \in CredentialIds |->
        LET chain == CredentialsOf(credentials[f].registration)
        IN IF credentials[f].state = "none" \/ \E x \in chain : x < f THEN 0
           ELSE IF \E x \in chain : {y \in chain : Usable(y)} = {x}
                THEN CHOOSE x \in chain : Usable(x)
                ELSE MaxCredentials + 1]

Chains == INSTANCE SessionFamilies WITH head <- ChainHead, MaxSessions <- MaxCredentials

(* "Exactly one credential is live per chain": polls, exchanges of one     *)
(* assertion and refreshes of one token, in any order and cut off anywhere, *)
(* leave a registration one chain; its head only moves on to a credential  *)
(* that is new, and a chain that has ended stays so.                       *)
ImplementsChains == Chains!FamiliesSpec

=============================================================================
