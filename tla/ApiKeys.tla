------------------------------- MODULE ApiKeys -------------------------------
(***************************************************************************)
(* API keys (component/apiKeys.ts), the service principals that own some   *)
(* of them (component/servicePrincipals.ts), and the deletions that take   *)
(* both along (component/native/users.ts).  Every operation is one         *)
(* mutation.                                                               *)
(*                                                                         *)
(* A secret is a member of a pool, with the prefix PrefixOf gives it; the  *)
(* hash tells secrets apart.  The issuing mutations make a fresh one; an   *)
(* upsert and a rotation take the one the caller hands in, which may be    *)
(* that of a key, or have been.                                            *)
(*                                                                         *)
(* Names, scopes, environments, permissions, addresses and lastUsedAt are  *)
(* data that no property here reads.  Which organizations a deleted user   *)
(* takes along is decided in Organizations.  There is one clock: the "now" *)
(* that a caller of verifyApiKey may pass is left out.                     *)
(***************************************************************************)
EXTENDS Integers

CONSTANTS
    Users, Nobody,
    Orgs, NoOrg,
    Principals, NoPrincipal,
    Secrets, NoSecret,
    PrefixOf,           \* of a presented key, its first 12 characters
    MaxKeys,            \* bound: rows of api_keys ever inserted
    LimitChoices,       \* the sets of limits keys are issued with
    Window, RateMax,    \* rateLimitTimeWindowMs, rateLimitMax; with 0 nothing is limited
    Remaining,          \* the initial quota
    RefillInterval, RefillAmount,
    Expiries,           \* expiresAt as callers give it, Never for none
    MaxTime             \* bound of the clock

\* "refill": a quota with refillAmount and refillIntervalMs
Limits == {"rate", "quota", "refill"}

ASSUME ApiKeysAssumption ==
    /\ Nobody \notin Users /\ NoOrg \notin Orgs /\ NoPrincipal \notin Principals
    /\ NoSecret \notin Secrets
    /\ LimitChoices \subseteq SUBSET Limits
    /\ MaxKeys \in Nat /\ RateMax \in Nat \ {0} /\ Window \in Nat \ {0}
    /\ Remaining \in Nat /\ RefillAmount \in Nat /\ RefillInterval \in Nat \ {0}
    /\ Expiries \subseteq Nat
    /\ MaxTime \in Nat /\ MaxTime >= Window

VARIABLES
    now,         \* Date.now()
    users,       \* users: the rows that exist
    orgs,        \* organizations: the rows that exist
    principals,  \* service_principals
    keys,        \* api_keys
    given,       \* the secrets made or handed in so far
    uses         \* history: of a limited key, the requests accepted up to each time

vars == <<now, users, orgs, principals, keys, given, uses>>

KeyIds == 1 .. MaxKeys
Row == {"none", "live", "gone"}

\* 0 stands for "never" in expiresAt, and for a time long past elsewhere.
Time == 0 .. MaxTime
Never == 0

Principal == [state : Row, org : Orgs \cup {NoOrg}, active : BOOLEAN,
              createdBy : Users \cup {Nobody}]

Key == [state : Row, org : Orgs \cup {NoOrg}, user : Users \cup {Nobody},
        principal : Principals \cup {NoPrincipal}, secret : Secrets \cup {NoSecret},
        status : {"active", "revoked"}, expiresAt : Nat,
        limits : SUBSET Limits, createdAt : Time,
        requestCount : Nat, windowStartedAt : Time,
        remaining : Nat, lastRefillAt : Time]

NoKey == [state |-> "none", org |-> NoOrg, user |-> Nobody, principal |-> NoPrincipal,
          secret |-> NoSecret, status |-> "revoked",
          expiresAt |-> Never, limits |-> {}, createdAt |-> 0, requestCount |-> 0,
          windowStartedAt |-> 0, remaining |-> 0, lastRefillAt |-> 0]

NoRow == [state |-> "none", org |-> NoOrg, active |-> FALSE, createdBy |-> Nobody]

NoUses == [t \in Time |-> 0]

KeyTypeOK ==
    /\ now \in Time
    /\ users \subseteq Users
    /\ orgs \subseteq Orgs
    /\ principals \in [Principals -> Principal]
    /\ keys \in [KeyIds -> Key]
    /\ given \subseteq Secrets
    /\ uses \in [KeyIds -> [Time -> Nat]]

\* The clock starts where a window that began at 0 is over, as the epoch is.
Init ==
    /\ now = Window
    /\ users = Users
    /\ orgs = Orgs
    /\ principals = [p \in Principals |-> NoRow]
    /\ keys = [k \in KeyIds |-> NoKey]
    /\ given = {}
    /\ uses = [k \in KeyIds |-> NoUses]

-----------------------------------------------------------------------------
(* Rows *)

Live == {k \in KeyIds : keys[k].state = "live"}
FreshKeys == {k \in KeyIds : /\ keys[k].state = "none"
                             /\ \A j \in KeyIds : j < k => keys[j].state # "none"}

\* findApiKeyByPrefix answers the first of these.
KeysBy(s) == {k \in Live : PrefixOf[keys[k].secret] = PrefixOf[s]}
First(S) == {k \in S : \A j \in S : k <= j}

\* assertApiKeyPrefixAvailable
PrefixAvailable(s, k) == First(KeysBy(s)) \subseteq {k}

RequirePrincipal(p) == principals[p].state = "live"

\* generateIssuedApiKeyMaterial: secrets it may come up with
Material == {s \in Secrets : KeysBy(s) = {}}

\* Row values that the issuing mutations share; createdAt is kept where it is read.
Issued(s, e, L) ==
    [NoKey EXCEPT !.state = "live", !.secret = s, !.status = "active", !.expiresAt = e,
                  !.limits = L,
                  !.createdAt = IF "quota" \in L THEN now ELSE 0,
                  !.remaining = IF "quota" \in L THEN Remaining ELSE 0,
                  !.lastRefillAt = IF "quota" \in L THEN now ELSE 0]

-----------------------------------------------------------------------------
(* Keys of users *)

IssueApiKey(u, o, s, e, L) ==
    /\ o \in orgs
    /\ u \in users
    /\ s \in Material
    /\ \E k \in FreshKeys :
          keys' = [keys EXCEPT ![k] = [Issued(s, e, L) EXCEPT !.org = o, !.user = u]]
    /\ given' = given \cup {s}
    /\ UNCHANGED <<now, users, orgs, principals, uses>>

\* The row an upsert writes to: that of the id when there is one, or else of the prefix.
Existing(id, s) == IF id \in Live THEN {id} ELSE First(KeysBy(s))

\* Mutant: the patch of an existing key leaves the hash out.
UpsertKeepingHash(u, o, id, s, e, st) ==
    /\ o \in orgs
    /\ u \in users
    /\ \/ \E k \in Existing(id, s) :
             /\ keys[k].org = o /\ keys[k].user = u
             /\ PrefixAvailable(s, k)
             /\ keys' = [keys EXCEPT ![k].expiresAt = e, ![k].status = st]
       \/ /\ Existing(id, s) = {}
          /\ \E k \in FreshKeys :
                keys' = [keys EXCEPT ![k] =
                   [Issued(s, e, {}) EXCEPT !.org = o, !.user = u, !.status = st]]
    /\ given' = given \cup {s}
    /\ UNCHANGED <<now, users, orgs, principals, uses>>

\* A status that is left out is that of the key, or active: covered by st.
UpsertApiKey(u, o, id, s, e, st) ==
    /\ o \in orgs
    /\ u \in users
    /\ \/ \E k \in Existing(id, s) :
             /\ keys[k].org = o /\ keys[k].user = u
             /\ PrefixAvailable(s, k)
             /\ keys' = [keys EXCEPT ![k].secret = s, ![k].expiresAt = e, ![k].status = st]
       \/ /\ Existing(id, s) = {}
          /\ \E k \in FreshKeys :
                keys' = [keys EXCEPT ![k] =
                   [Issued(s, e, {}) EXCEPT !.org = o, !.user = u, !.status = st]]
    /\ given' = given \cup {s}
    /\ UNCHANGED <<now, users, orgs, principals, uses>>

-----------------------------------------------------------------------------
(* Service principals and their keys *)

\* p stands for the key of the principal, which names one row.
UpsertServicePrincipal(p, o, active, by) ==
    /\ o # NoOrg => o \in orgs
    /\ by # Nobody => by \in users
    /\ principals[p].state # "gone"
    /\ principals' = [principals EXCEPT ![p] =
          [state |-> "live", org |-> o, active |-> active,
           createdBy |-> IF by = Nobody THEN principals[p].createdBy ELSE by]]
    /\ UNCHANGED <<now, users, orgs, keys, given, uses>>

\* By a caller of its organization, which is the only one that can move it.
SetServicePrincipalDetails(p, o) ==
    /\ RequirePrincipal(p)
    /\ principals[p].org # NoOrg
    /\ o # NoOrg => o \in orgs
    /\ principals' = [principals EXCEPT ![p].org = o]
    /\ UNCHANGED <<now, users, orgs, keys, given, uses>>

SetServicePrincipalStatus(p, active) ==
    /\ RequirePrincipal(p)
    /\ principals[p].org # NoOrg
    /\ principals' = [principals EXCEPT ![p].active = active]
    /\ UNCHANGED <<now, users, orgs, keys, given, uses>>

IssueServiceOwnedApiKey(p, s, e, L) ==
    /\ RequirePrincipal(p)
    /\ principals[p].active
    /\ s \in Material
    /\ \E k \in FreshKeys :
          keys' = [keys EXCEPT ![k] =
             [Issued(s, e, L) EXCEPT !.org = principals[p].org, !.principal = p]]
    /\ given' = given \cup {s}
    /\ UNCHANGED <<now, users, orgs, principals, uses>>

\* A key follows its principal to another organization here, and only here.
UpsertServiceOwnedApiKey(p, id, s, e, st) ==
    /\ RequirePrincipal(p)
    /\ principals[p].active
    /\ \/ \E k \in Existing(id, s) :
             /\ keys[k].principal = p
             /\ PrefixAvailable(s, k)
             /\ keys' = [keys EXCEPT ![k].org = principals[p].org, ![k].secret = s,
                                     ![k].expiresAt = e, ![k].status = st]
       \/ /\ Existing(id, s) = {}
          /\ \E k \in FreshKeys :
                keys' = [keys EXCEPT ![k] =
                   [Issued(s, e, {}) EXCEPT !.org = principals[p].org, !.principal = p,
                                            !.status = st]]
    /\ given' = given \cup {s}
    /\ UNCHANGED <<now, users, orgs, principals, uses>>

-----------------------------------------------------------------------------
(* Rotation and revocation, by a caller of the key's organization *)

\* Mutant: the prefix of the new secret may be another key's.
RotateToAnyPrefix(k, s) ==
    /\ k \in Live /\ keys[k].org # NoOrg
    /\ keys[k].status = "active"
    /\ keys' = [keys EXCEPT ![k].secret = s]
    /\ given' = given \cup {s}
    /\ UNCHANGED <<now, users, orgs, principals, uses>>

\* The counters and the expiry stay.
RotateApiKey(k, s) ==
    /\ k \in Live /\ keys[k].org # NoOrg
    /\ keys[k].status = "active"
    /\ PrefixAvailable(s, k)
    /\ keys' = [keys EXCEPT ![k].secret = s]
    /\ given' = given \cup {s}
    /\ UNCHANGED <<now, users, orgs, principals, uses>>

RevokeApiKey(k) ==
    /\ k \in Live /\ keys[k].org # NoOrg
    /\ keys' = [keys EXCEPT ![k].status = "revoked"]
    /\ UNCHANGED <<now, users, orgs, principals, given, uses>>

-----------------------------------------------------------------------------
(* Verification *)

\* What verifyApiKey asks of a key before the limits, when its secret is presented.
Accepts(k) ==
    /\ k \in Live
    /\ keys[k].status = "active"
    /\ keys[k].expiresAt # Never => keys[k].expiresAt > now
    /\ \A j \in KeysBy(keys[k].secret) : k <= j

WithinWindow(key) == now - key.windowStartedAt < Window
Count(key) == IF WithinWindow(key) THEN key.requestCount ELSE 0

\* Mutant: one more request per window.
RateAllowsOneMore(key) == "rate" \in key.limits => Count(key) <= RateMax

RateAllows(key) == "rate" \in key.limits => Count(key) < RateMax

Refills(key) == "refill" \in key.limits /\ now - key.lastRefillAt >= RefillInterval

\* Mutant: lastRefillAt is not written.
MeterWithoutStamp(key) ==
    IF "quota" \in key.limits
    THEN [key EXCEPT !.remaining = (IF Refills(key) THEN RefillAmount ELSE key.remaining) - 1]
    ELSE key

Meter(key) ==
    IF "quota" \in key.limits
    THEN [key EXCEPT !.remaining = (IF Refills(key) THEN RefillAmount ELSE key.remaining) - 1,
                     !.lastRefillAt = IF Refills(key) THEN now ELSE key.lastRefillAt]
    ELSE key

CountRequest(key) ==
    IF "rate" \in key.limits
    THEN [key EXCEPT !.requestCount = Count(key) + 1,
                     !.windowStartedAt = IF WithinWindow(key) THEN key.windowStartedAt ELSE now]
    ELSE key

QuotaAllows(key) ==
    "quota" \in key.limits => IF Refills(key) THEN RefillAmount > 0 ELSE key.remaining > 0

Used(k) == [t \in Time |-> IF t >= now THEN uses[k][t] + 1 ELSE uses[k][t]]

\* A rejected request writes nothing.
VerifyApiKey(s) ==
    \E k \in KeyIds :
        LET key == keys[k]
        IN /\ key.secret = s
           /\ Accepts(k)
           /\ RateAllows(key)
           /\ QuotaAllows(key)
           /\ keys' = [keys EXCEPT ![k] = Meter(CountRequest(key))]
           /\ uses' = IF key.limits = {} THEN uses ELSE [uses EXCEPT ![k] = Used(k)]
           /\ UNCHANGED <<now, users, orgs, principals, given>>

-----------------------------------------------------------------------------
(* Deletion *)

\* Mutant: the keys of a principal outlive it.
KeyEndsWithoutPrincipal(key, u, O, P) == key.org \in O \/ key.user = u

\* A row of api_keys is reached by its organization, its user or its principal.
KeyEnds(key, u, O, P) == key.org \in O \/ key.user = u \/ key.principal \in P

\* deleteUser and, for each organization of O, deleteOrganization
DeleteUser(u, O) ==
    LET P == {p \in Principals : principals[p].org \in O \/ principals[p].createdBy = u}
    IN /\ u \in users
       /\ users' = users \ {u}
       /\ orgs' = orgs \ O
       /\ principals' = [p \in Principals |->
                           IF p \in P THEN [NoRow EXCEPT !.state = "gone"] ELSE principals[p]]
       /\ keys' = [k \in KeyIds |->
                     IF k \in Live /\ KeyEnds(keys[k], u, O, P)
                     THEN [NoKey EXCEPT !.state = "gone"] ELSE keys[k]]
       /\ uses' = [k \in KeyIds |->
                     IF k \in Live /\ KeyEnds(keys[k], u, O, P) THEN NoUses ELSE uses[k]]
       /\ UNCHANGED <<now, given>>

Tick ==
    /\ now < MaxTime
    /\ now' = now + 1
    /\ UNCHANGED <<users, orgs, principals, keys, given, uses>>

-----------------------------------------------------------------------------

UserKeyStep ==
    \E u \in Users, o \in Orgs, s \in Secrets, e \in Expiries :
        \/ \E L \in LimitChoices : s \notin given /\ IssueApiKey(u, o, s, e, L)
        \/ \E id \in KeyIds \cup {0}, st \in {"active", "revoked"} :
              UpsertApiKey(u, o, id, s, e, st)

PrincipalStep ==
    \E p \in Principals :
        \/ \E o \in Orgs \cup {NoOrg} :
              \/ SetServicePrincipalDetails(p, o)
              \/ \E active \in BOOLEAN, by \in Users \cup {Nobody} :
                    UpsertServicePrincipal(p, o, active, by)
        \/ \E active \in BOOLEAN : SetServicePrincipalStatus(p, active)
        \/ \E s \in Secrets, e \in Expiries :
              \/ \E L \in LimitChoices : s \notin given /\ IssueServiceOwnedApiKey(p, s, e, L)
              \/ \E id \in KeyIds \cup {0}, st \in {"active", "revoked"} :
                    UpsertServiceOwnedApiKey(p, id, s, e, st)

KeyStep ==
    \/ \E k \in KeyIds : RevokeApiKey(k) \/ \E s \in Secrets : RotateApiKey(k, s)
    \/ \E s \in given : VerifyApiKey(s)

Next ==
    \/ UserKeyStep
    \/ PrincipalStep
    \/ KeyStep
    \/ \E u \in Users, O \in SUBSET orgs : DeleteUser(u, O)
    \/ Tick

Spec == Init /\ [][Next]_vars

-----------------------------------------------------------------------------
(* Properties *)

(* No two keys share a lookup prefix, whatever issues, upserts and         *)
(* rotations met: verifyApiKey takes the first row, so of two keys one     *)
(* could never be verified, and no index keeps them apart.                 *)
OneKeyPerPrefix ==
    \A k, l \in Live : PrefixOf[keys[k].secret] = PrefixOf[keys[l].secret] => k = l

(* A key that exists belongs to a user or to a principal that exists, and  *)
(* to an organization that does: also after its principal was moved, and   *)
(* after the deletion of whoever created the principal.                    *)
KeysHaveOwners ==
    \A k \in Live :
        /\ keys[k].org # NoOrg => keys[k].org \in orgs
        /\ keys[k].user # Nobody => keys[k].user \in users
        /\ keys[k].principal # NoPrincipal => RequirePrincipal(keys[k].principal)
        /\ keys[k].user = Nobody <=> keys[k].principal # NoPrincipal

(* Whenever one looks, the last Window of time has seen no more accepted   *)
(* requests of a rate-limited key than the end of one fixed window and the *)
(* whole of the next allow, rotated or not: 2 * RateMax - 1, for a window  *)
(* begins with a request.                                                  *)
RateBound ==
    \A k \in KeyIds : "rate" \in keys[k].limits =>
        uses[k][now] - uses[k][now - Window] <= 2 * RateMax - 1

(* A key with a quota is accepted no more often than its first quota and   *)
(* the refills, if it has any, of the intervals that have passed since     *)
(* allow: rotation and upsert give it nothing back.                        *)
Refilled(key, time) ==
    IF "refill" \in key.limits
    THEN RefillAmount * ((time - key.createdAt) \div RefillInterval)
    ELSE 0

QuotaBound ==
    \A k \in KeyIds : "quota" \in keys[k].limits =>
        uses[k][now] <= Remaining + Refilled(keys[k], now)

(* A key changes hands by no upsert: its user, or its principal, is that   *)
(* of the row as long as it exists, and a user's key stays in its          *)
(* organization.                                                           *)
NoTakeover ==
    [][\A k \in Live :
         \/ keys'[k].state = "gone"
         \/ /\ keys'[k].user = keys[k].user
            /\ keys'[k].principal = keys[k].principal
            /\ keys[k].user # Nobody => keys'[k].org = keys[k].org]_vars

AcceptedSecret(s) == \E k \in KeyIds : keys[k].secret = s /\ Accepts(k)

\* The upserts that hand s in for u and o, or for p.
UpsertedByUser(u, o, s) ==
    \E id \in KeyIds \cup {0}, e \in Expiries : UpsertApiKey(u, o, id, s, e, "active")

UpsertedByPrincipal(p, s) ==
    \E id \in KeyIds \cup {0}, e \in Expiries :
        UpsertServiceOwnedApiKey(p, id, s, e, "active")

HandedIn(s) ==
    \/ \E u \in Users, o \in Orgs : UpsertedByUser(u, o, s)
    \/ \E p \in Principals : UpsertedByPrincipal(p, s)
    \/ \E k \in KeyIds : RotateApiKey(k, s)

UpsertedByOwner(k) ==
    \/ UpsertedByUser(keys[k].user, keys[k].org, keys[k].secret)
    \/ /\ keys[k].principal \in Principals
       /\ UpsertedByPrincipal(keys[k].principal, keys[k].secret)

(* A secret that stopped being accepted, by revocation, rotation, expiry   *)
(* or deletion, comes back only when it is handed in once more: the upsert *)
(* that makes its key active again with another one does not revive it.    *)
(* While a key still holds it, only an upsert of that key's owner does: no *)
(* other key can take its prefix, and a rotation extends nothing.          *)
EndedSecretsReturnByHand ==
    [][\A s \in given : AcceptedSecret(s)' =>
          \/ AcceptedSecret(s)
          \/ /\ HandedIn(s)
             /\ \A k \in Live : keys[k].secret = s => UpsertedByOwner(k)]_vars
=============================================================================
