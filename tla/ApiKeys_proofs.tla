---------------------------- MODULE ApiKeys_proofs ----------------------------
(***************************************************************************)
(* What ApiKeys promises for every set of users, organizations, principals *)
(* and secrets, every number of keys and every limit and interval.         *)
(*                                                                         *)
(* A step changes a key in one of five ways (KeyStepCases); the lemmas on  *)
(* the limits, and three of the theorems, look at nothing else.            *)
(***************************************************************************)
EXTENDS ApiKeys, TLAPS

-----------------------------------------------------------------------------
(* The ways a step may change a key                                        *)

SameIdentity(a, b) ==
    /\ a.state = b.state /\ a.org = b.org /\ a.user = b.user /\ a.principal = b.principal
    /\ a.secret = b.secret /\ a.status = b.status /\ a.expiresAt = b.expiresAt
    /\ a.createdAt = b.createdAt

\* What a write keeps.
RestOf(a, b) ==
    /\ a.state = b.state /\ a.user = b.user /\ a.principal = b.principal
    /\ a.limits = b.limits /\ a.createdAt = b.createdAt
    /\ a.requestCount = b.requestCount /\ a.windowStartedAt = b.windowStartedAt
    /\ a.remaining = b.remaining /\ a.lastRefillAt = b.lastRefillAt

SameMeters(k) ==
    /\ keys'[k].limits = keys[k].limits
    /\ keys'[k].createdAt = keys[k].createdAt
    /\ keys'[k].requestCount = keys[k].requestCount
    /\ keys'[k].windowStartedAt = keys[k].windowStartedAt
    /\ keys'[k].remaining = keys[k].remaining
    /\ keys'[k].lastRefillAt = keys[k].lastRefillAt
    /\ uses'[k] = uses[k]

Unchanged(k) == keys'[k] = keys[k] /\ uses'[k] = uses[k]

\* What KeysHaveOwners says of a row.
OwnerOK(row) ==
    /\ row.org # NoOrg => row.org \in orgs
    /\ row.user # Nobody => row.user \in users
    /\ row.principal # NoPrincipal => RequirePrincipal(row.principal)
    /\ row.user = Nobody <=> row.principal # NoPrincipal

Inserted(k) ==
    /\ keys[k].state = "none"
    /\ keys'[k].state = "live"
    /\ OwnerOK(keys'[k])
    /\ keys'[k].secret \in Secrets
    /\ KeysBy(keys'[k].secret) = {}
    /\ keys'[k].requestCount = 0
    /\ keys'[k].windowStartedAt = 0
    /\ "quota" \in keys'[k].limits =>
          /\ keys'[k].createdAt = now
          /\ keys'[k].remaining = Remaining
          /\ keys'[k].lastRefillAt = now
    /\ uses'[k] = uses[k]
    /\ now' = now

SameOwner(k) ==
    /\ keys'[k].user = keys[k].user
    /\ keys'[k].principal = keys[k].principal
    /\ keys[k].user # Nobody => keys'[k].org = keys[k].org

Written(k) ==
    /\ keys[k].state = "live" /\ keys'[k].state = "live"
    /\ SameOwner(k)
    /\ OwnerOK(keys'[k])
    /\ SameMeters(k)
    /\ \/ keys'[k].secret \in Secrets /\ KeysBy(keys'[k].secret) \subseteq {k}
       \/ keys'[k].secret = keys[k].secret /\ keys'[k].status = "revoked"
    /\ now' = now

Verified(k) ==
    /\ Accepts(k)
    /\ RateAllows(keys[k])
    /\ QuotaAllows(keys[k])
    /\ keys'[k] = Meter(CountRequest(keys[k]))
    /\ uses'[k] = IF keys[k].limits = {} THEN uses[k] ELSE Used(k)
    /\ now' = now

Deleted(k) ==
    /\ keys[k].state = "live"
    /\ keys'[k] = [NoKey EXCEPT !.state = "gone"]
    /\ uses'[k] = NoUses
    /\ now' = now

AnyStep(k) == Unchanged(k) \/ Inserted(k) \/ Written(k) \/ Verified(k) \/ Deleted(k)

Renewed(k) ==
    keys'[k].state = "live" /\ (keys[k].state = "live" => keys'[k].secret # keys[k].secret)

KeysStep ==
    /\ keys' \in [KeyIds -> Key]
    /\ \A k \in KeyIds : AnyStep(k)
    /\ \A j, k \in KeyIds : Renewed(j) /\ Renewed(k) => j = k

\* What every step but a deletion keeps of the other tables.
PrincipalsPlaced ==
    \A p \in Principals :
        principals[p].state = "live" /\ principals[p].org # NoOrg => principals[p].org \in orgs

StoreKept ==
    /\ UNCHANGED <<now, users, orgs>>
    /\ \A p \in Principals : principals[p].state = "live" => principals'[p].state = "live"
    /\ PrincipalsPlaced'

-----------------------------------------------------------------------------
(* The inductive invariant                                                 *)

EmptyRows == \A k \in KeyIds : keys[k].state = "none" => keys[k] = NoKey /\ uses[k] = NoUses

UsedUpTo(f) ==
    /\ \A t \in Time : f[t] \in Nat
    /\ \A s, t \in Time : s <= t => f[s] <= f[t]
    /\ \A t \in Time : t >= now => f[t] = f[now]

\* The history is that of a count that grows with time.
UsesGrow == \A k \in KeyIds : UsedUpTo(uses[k])

\* The count of the open window, and what the one before it may have left in
\* reach of a look back.
RateKept(key, f) ==
    \/ /\ key.windowStartedAt = 0
       /\ key.requestCount = 0
       /\ \A t \in Time : f[t] = 0
    \/ /\ Window <= key.windowStartedAt
       /\ key.windowStartedAt <= now
       /\ key.requestCount <= RateMax
       /\ f[now] = f[key.windowStartedAt - 1] + key.requestCount
       /\ f[key.windowStartedAt] >= f[key.windowStartedAt - 1] + 1
       /\ f[key.windowStartedAt - 1] <= f[key.windowStartedAt - Window] + RateMax - 1
       /\ \A t \in Time : t >= key.windowStartedAt + Window - 1 => f[t] = f[now]

RatesKept == \A k \in KeyIds : "rate" \in keys[k].limits => RateKept(keys[k], uses[k])

\* What was accepted and what is left come from the refills so far.
QuotaKept(key, f) ==
    /\ key.createdAt <= key.lastRefillAt
    /\ key.lastRefillAt <= now
    /\ f[now] + key.remaining <= Remaining + Refilled(key, key.lastRefillAt)

QuotasKept == \A k \in KeyIds : "quota" \in keys[k].limits => QuotaKept(keys[k], uses[k])

OwnerInv == KeyTypeOK /\ OneKeyPerPrefix /\ KeysHaveOwners /\ PrincipalsPlaced

IInv == OwnerInv /\ now >= Window /\ EmptyRows /\ UsesGrow /\ RatesKept /\ QuotasKept

-----------------------------------------------------------------------------
(* Rows                                                                    *)

LEMMA Constants ==
    /\ MaxKeys \in Nat /\ MaxTime \in Nat /\ RateMax \in Nat /\ RateMax >= 1
    /\ Window \in Nat /\ Window >= 1 /\ Window <= MaxTime
    /\ Remaining \in Nat /\ RefillAmount \in Nat
    /\ RefillInterval \in Nat /\ RefillInterval >= 1
  BY ApiKeysAssumption DEF ApiKeysAssumption

LEMMA NoRowsTyped == NoKey \in Key /\ NoRow \in Principal /\ NoUses \in [Time -> Nat]
  BY Constants DEF NoKey, NoRow, NoUses, Key, Principal, Row, Never, Time

LEMMA NowTyped == KeyTypeOK => now \in Nat /\ now \in Time /\ Time \subseteq Nat /\ 0 \in Time
  BY Constants DEF KeyTypeOK, Time

LEMMA ExpiryTyped == ASSUME NEW e \in Expiries PROVE e \in Nat
  BY ApiKeysAssumption DEF ApiKeysAssumption

LEMMA IssuedTyped ==
    ASSUME KeyTypeOK, NEW s \in Secrets, NEW e \in Expiries,
           NEW L \in SUBSET Limits
    PROVE  /\ Issued(s, e, L) \in Key
           /\ Issued(s, e, L).state = "live"
           /\ Issued(s, e, L).secret = s
           /\ Issued(s, e, L).limits = L
           /\ Issued(s, e, L).requestCount = 0
           /\ Issued(s, e, L).windowStartedAt = 0
           /\ "quota" \in L => /\ Issued(s, e, L).createdAt = now
                               /\ Issued(s, e, L).remaining = Remaining
                               /\ Issued(s, e, L).lastRefillAt = now
           /\ Issued(s, e, L).user = Nobody
           /\ Issued(s, e, L).principal = NoPrincipal
  BY ZenonT(60), NowTyped, ExpiryTyped, Constants DEF Issued, NoKey, Key, Row, Never, Time

(* While prefixes are unique the first row with a prefix is the only one. *)
LEMMA FirstIsAll ==
    ASSUME OneKeyPerPrefix, NEW s PROVE First(KeysBy(s)) = KeysBy(s)
  <1>1. \A j, k \in KeysBy(s) : j = k
    BY DEF OneKeyPerPrefix, KeysBy
  <1>2. \A k \in KeysBy(s) : k <= k
    BY Constants DEF KeysBy, Live, KeyIds
  <1> QED BY <1>1, <1>2 DEF First

FreshRow(row, s) ==
    /\ row \in Key
    /\ row.state = "live" /\ row.secret = s
    /\ row.requestCount = 0 /\ row.windowStartedAt = 0
    /\ "quota" \in row.limits =>
          row.createdAt = now /\ row.remaining = Remaining /\ row.lastRefillAt = now

(* What an upsert or an issue inserts. *)
LEMMA InsertStep ==
    ASSUME KeyTypeOK, NEW k \in FreshKeys, NEW row, NEW s \in Secrets,
           FreshRow(row, s), OwnerOK(row), KeysBy(s) = {},
           keys' = [keys EXCEPT ![k] = row], UNCHANGED <<now, uses>>
    PROVE  KeysStep
  <1>1. k \in KeyIds /\ keys[k].state = "none"
    BY DEF FreshKeys
  <1>2. keys' \in [KeyIds -> Key]
    BY <1>1 DEF KeyTypeOK, FreshRow
  <1>3. Inserted(k) /\ Renewed(k)
    BY <1>1 DEF Inserted, Renewed, KeyTypeOK, FreshRow
  <1>4. \A j \in KeyIds : j # k => Unchanged(j) /\ ~Renewed(j)
    BY <1>1 DEF Unchanged, Renewed, KeyTypeOK
  <1> QED BY <1>2, <1>3, <1>4 DEF AnyStep, KeysStep

(* The rows that issues and upserts insert. *)
LEMMA UserRows ==
    ASSUME KeyTypeOK, NEW s \in Secrets, NEW e \in Expiries,
           NEW L \in SUBSET Limits, NEW o \in Orgs \cup {NoOrg},
           NEW u \in Users, NEW st \in {"active", "revoked"},
           o # NoOrg => o \in orgs, u \in users
    PROVE  LET row == [Issued(s, e, L) EXCEPT !.org = o, !.user = u]
               upserted == [Issued(s, e, L) EXCEPT !.org = o, !.user = u, !.status = st]
           IN /\ FreshRow(row, s) /\ OwnerOK(row)
              /\ FreshRow(upserted, s) /\ OwnerOK(upserted)
  <1> DEFINE new == Issued(s, e, L)
             row == [new EXCEPT !.org = o, !.user = u]
             upserted == [new EXCEPT !.org = o, !.user = u, !.status = st]
  <1>1. FreshRow(new, s) /\ new.principal = NoPrincipal
    BY IssuedTyped DEF FreshRow
  <1> HIDE DEF new
  <1>2. FreshRow(row, s) /\ FreshRow(upserted, s)
    BY <1>1 DEF FreshRow, Key
  <1>3. /\ row.org = o /\ row.user = u /\ row.principal = NoPrincipal
        /\ upserted.org = o /\ upserted.user = u /\ upserted.principal = NoPrincipal
    BY <1>1 DEF FreshRow, Key
  <1> HIDE DEF row, upserted
  <1>4. OwnerOK(row) /\ OwnerOK(upserted)
    BY <1>3, ApiKeysAssumption DEF OwnerOK, ApiKeysAssumption
  <1> QED BY <1>2, <1>4 DEF row, upserted, new

LEMMA PrincipalRows ==
    ASSUME KeyTypeOK, NEW s \in Secrets, NEW e \in Expiries,
           NEW L \in SUBSET Limits, NEW o \in Orgs \cup {NoOrg},
           NEW p \in Principals, NEW st \in {"active", "revoked"},
           o # NoOrg => o \in orgs, RequirePrincipal(p)
    PROVE  LET row == [Issued(s, e, L) EXCEPT !.org = o, !.principal = p]
               upserted == [Issued(s, e, L) EXCEPT !.org = o, !.principal = p, !.status = st]
           IN /\ FreshRow(row, s) /\ OwnerOK(row)
              /\ FreshRow(upserted, s) /\ OwnerOK(upserted)
  <1> DEFINE new == Issued(s, e, L)
             row == [new EXCEPT !.org = o, !.principal = p]
             upserted == [new EXCEPT !.org = o, !.principal = p, !.status = st]
  <1>1. FreshRow(new, s) /\ new.user = Nobody
    BY IssuedTyped DEF FreshRow
  <1> HIDE DEF new
  <1>2. FreshRow(row, s) /\ FreshRow(upserted, s)
    BY <1>1 DEF FreshRow, Key
  <1>3. /\ row.org = o /\ row.principal = p /\ row.user = Nobody
        /\ upserted.org = o /\ upserted.principal = p /\ upserted.user = Nobody
    BY <1>1 DEF FreshRow, Key
  <1> HIDE DEF row, upserted
  <1>4. OwnerOK(row) /\ OwnerOK(upserted)
    BY <1>3, ApiKeysAssumption DEF OwnerOK, ApiKeysAssumption
  <1> QED BY <1>2, <1>4 DEF row, upserted, new

(* What rewrites the row of one key and leaves its counters alone. *)
LEMMA WriteStep ==
    ASSUME KeyTypeOK, NEW k \in Live, NEW row \in Key,
           RestOf(row, keys[k]), OwnerOK(row),
           keys[k].user # Nobody => row.org = keys[k].org,
           \/ row.secret \in Secrets /\ KeysBy(row.secret) \subseteq {k}
           \/ row.secret = keys[k].secret /\ row.status = "revoked",
           keys' = [keys EXCEPT ![k] = row], UNCHANGED <<now, uses>>
    PROVE  KeysStep
  <1>1. k \in KeyIds /\ keys[k].state = "live"
    BY DEF Live
  <1>2. keys' \in [KeyIds -> Key]
    BY <1>1 DEF KeyTypeOK
  <1>3. keys'[k] = row
    BY <1>1 DEF KeyTypeOK
  <1>4. Written(k)
    BY <1>1, <1>3 DEF Written, SameOwner, SameMeters, RestOf
  <1>5. \A j \in KeyIds : j # k => Unchanged(j) /\ ~Renewed(j)
    BY <1>1 DEF Unchanged, Renewed, KeyTypeOK
  <1> QED BY <1>2, <1>4, <1>5 DEF AnyStep, KeysStep

LEMMA CountTyped ==
    ASSUME KeyTypeOK, NEW key \in Key
    PROVE  /\ Count(key) \in Nat
           /\ CountRequest(key) \in Key
           /\ CountRequest(key).limits = key.limits
           /\ CountRequest(key).remaining = key.remaining
           /\ CountRequest(key).lastRefillAt = key.lastRefillAt
           /\ "rate" \in key.limits =>
                 /\ CountRequest(key).requestCount = Count(key) + 1
                 /\ CountRequest(key).windowStartedAt =
                       IF WithinWindow(key) THEN key.windowStartedAt ELSE now
           /\ SameIdentity(CountRequest(key), key)
  <1>1. now \in Nat /\ now \in Time /\ Time \subseteq Nat
    BY NowTyped
  <1>2. Count(key) \in Nat
    BY <1>1 DEF Count, WithinWindow, Key
  <1>3. CASE "rate" \in key.limits
    <2> DEFINE n == Count(key) + 1
               w == IF WithinWindow(key) THEN key.windowStartedAt ELSE now
    <2>1. n \in Nat /\ w \in Time
      BY <1>1, <1>2 DEF Key
    <2>2. CountRequest(key) = [key EXCEPT !.requestCount = n, !.windowStartedAt = w]
      BY <1>3 DEF CountRequest
    <2> HIDE DEF n, w
    <2>3. /\ CountRequest(key) \in Key
          /\ CountRequest(key).limits = key.limits
          /\ CountRequest(key).remaining = key.remaining
          /\ CountRequest(key).lastRefillAt = key.lastRefillAt
          /\ CountRequest(key).requestCount = n
          /\ CountRequest(key).windowStartedAt = w
          /\ SameIdentity(CountRequest(key), key)
      BY ZenonT(60), <2>1, <2>2 DEF Key, SameIdentity
    <2> QED BY <1>2, <2>3 DEF n, w
  <1>4. CASE "rate" \notin key.limits
    BY <1>2, <1>4 DEF CountRequest, SameIdentity
  <1> QED BY <1>3, <1>4

(* verifyApiKey never takes from an empty quota. *)
LEMMA MeterTyped ==
    ASSUME KeyTypeOK, NEW key \in Key, QuotaAllows(key)
    PROVE  /\ Meter(key) \in Key
           /\ Meter(key).limits = key.limits
           /\ "quota" \in key.limits =>
                 /\ Meter(key).remaining =
                       (IF Refills(key) THEN RefillAmount ELSE key.remaining) - 1
                 /\ Meter(key).lastRefillAt = IF Refills(key) THEN now ELSE key.lastRefillAt
           /\ SameIdentity(Meter(key), key) /\ Meter(key).requestCount = key.requestCount
           /\ Meter(key).windowStartedAt = key.windowStartedAt
  <1>1. CASE "quota" \in key.limits
    <2> DEFINE n == (IF Refills(key) THEN RefillAmount ELSE key.remaining) - 1
               w == IF Refills(key) THEN now ELSE key.lastRefillAt
    <2>1. n \in Nat /\ w \in Time
      BY <1>1, NowTyped, Constants DEF Key, QuotaAllows
    <2>2. Meter(key) = [key EXCEPT !.remaining = n, !.lastRefillAt = w]
      BY <1>1 DEF Meter
    <2> HIDE DEF n, w
    <2>3. /\ Meter(key) \in Key
          /\ Meter(key).limits = key.limits
          /\ Meter(key).remaining = n
          /\ Meter(key).lastRefillAt = w
          /\ SameIdentity(Meter(key), key) /\ Meter(key).requestCount = key.requestCount
           /\ Meter(key).windowStartedAt = key.windowStartedAt
      BY ZenonT(60), <2>1, <2>2 DEF Key, SameIdentity
    <2> QED BY <2>3 DEF n, w
  <1>2. CASE "quota" \notin key.limits
    BY <1>2 DEF Meter, SameIdentity
  <1> QED BY <1>1, <1>2

(* A key that verifyApiKey has accepted. *)
LEMMA AcceptedTyped ==
    ASSUME KeyTypeOK, NEW key \in Key, QuotaAllows(key)
    PROVE  /\ Meter(CountRequest(key)) \in Key
           /\ Meter(CountRequest(key)).limits = key.limits
           /\ SameIdentity(Meter(CountRequest(key)), key)
           /\ "rate" \in key.limits =>
                 /\ Meter(CountRequest(key)).requestCount = Count(key) + 1
                 /\ Meter(CountRequest(key)).windowStartedAt =
                       IF WithinWindow(key) THEN key.windowStartedAt ELSE now
           /\ "quota" \in key.limits =>
                 /\ Meter(CountRequest(key)).remaining =
                       (IF Refills(key) THEN RefillAmount ELSE key.remaining) - 1
                 /\ Meter(CountRequest(key)).lastRefillAt =
                       IF Refills(key) THEN now ELSE key.lastRefillAt
  <1> DEFINE counted == CountRequest(key)
  <1>1. /\ counted \in Key
        /\ counted.limits = key.limits
        /\ counted.remaining = key.remaining
        /\ counted.lastRefillAt = key.lastRefillAt
        /\ "rate" \in key.limits =>
              /\ counted.requestCount = Count(key) + 1
              /\ counted.windowStartedAt =
                    IF WithinWindow(key) THEN key.windowStartedAt ELSE now
        /\ SameIdentity(counted, key)
    BY CountTyped
  <1> HIDE DEF counted
  <1>2. QuotaAllows(counted) /\ (Refills(counted) <=> Refills(key))
    BY <1>1 DEF QuotaAllows, Refills
  <1>3. /\ Meter(counted) \in Key
        /\ Meter(counted).limits = counted.limits
        /\ "quota" \in counted.limits =>
              /\ Meter(counted).remaining =
                    (IF Refills(counted) THEN RefillAmount ELSE counted.remaining) - 1
              /\ Meter(counted).lastRefillAt =
                    IF Refills(counted) THEN now ELSE counted.lastRefillAt
        /\ SameIdentity(Meter(counted), counted) /\ Meter(counted).requestCount = counted.requestCount
           /\ Meter(counted).windowStartedAt = counted.windowStartedAt
    BY <1>1, <1>2, MeterTyped
  <1> QED BY <1>1, <1>2, <1>3 DEF counted, SameIdentity

LEMMA NoKeyStep == KeyTypeOK /\ UNCHANGED <<keys, uses>> => KeysStep
  BY DEF KeysStep, AnyStep, Unchanged, Renewed, KeyTypeOK

-----------------------------------------------------------------------------
(* Every step is one of the five for every key                             *)

LEMMA UserKeySteps ==
    ASSUME OwnerInv, UserKeyStep
    PROVE  KeyTypeOK' /\ KeysStep /\ StoreKept
  <1> PICK u \in Users, o \in Orgs, s \in Secrets, e \in Expiries :
        \/ \E L \in LimitChoices : s \notin given /\ IssueApiKey(u, o, s, e, L)
        \/ \E id \in KeyIds \cup {0}, st \in {"active", "revoked"} :
              UpsertApiKey(u, o, id, s, e, st)
    BY DEF UserKeyStep
  <1> USE DEF OwnerInv
  <1>0. e \in Nat
    BY ExpiryTyped
  <1>1. CASE \E L \in LimitChoices : s \notin given /\ IssueApiKey(u, o, s, e, L)
    <2> PICK L \in LimitChoices : IssueApiKey(u, o, s, e, L)
      BY <1>1
    <2>0. L \in SUBSET Limits
      BY ApiKeysAssumption DEF ApiKeysAssumption
    <2> DEFINE row == [Issued(s, e, L) EXCEPT !.org = o, !.user = u]
    <2>1. PICK k \in FreshKeys : keys' = [keys EXCEPT ![k] = row]
      BY DEF IssueApiKey
    <2>2. FreshRow(row, s) /\ OwnerOK(row)
      BY <2>0, UserRows DEF IssueApiKey
    <2> HIDE DEF row
    <2>4. KeysStep
      BY <2>1, <2>2, InsertStep DEF IssueApiKey, Material
    <2> QED BY <2>4 DEF IssueApiKey, KeyTypeOK, KeysStep, StoreKept, PrincipalsPlaced
  <1>2. CASE \E id \in KeyIds \cup {0}, st \in {"active", "revoked"} :
               UpsertApiKey(u, o, id, s, e, st)
    <2> PICK id \in KeyIds \cup {0}, st \in {"active", "revoked"} :
               UpsertApiKey(u, o, id, s, e, st)
      BY <1>2
    <2>1. CASE \E k \in Existing(id, s) :
                /\ keys[k].org = o /\ keys[k].user = u
                /\ PrefixAvailable(s, k)
                /\ keys' = [keys EXCEPT ![k].secret = s, ![k].expiresAt = e, ![k].status = st]
      <3> PICK k \in Existing(id, s) :
                /\ keys[k].org = o /\ keys[k].user = u
                /\ PrefixAvailable(s, k)
                /\ keys' = [keys EXCEPT ![k].secret = s, ![k].expiresAt = e, ![k].status = st]
        BY <2>1
      <3>1. k \in Live /\ keys[k] \in Key /\ keys[k].state = "live"
        BY DEF Existing, First, KeysBy, Live, KeyTypeOK
      <3> DEFINE row == [keys[k] EXCEPT !.secret = s, !.expiresAt = e, !.status = st]
      <3>2. row \in Key
        BY <1>0, <3>1 DEF Key
      <3>3. keys' = [keys EXCEPT ![k] = row]
        BY <3>1 DEF KeyTypeOK
      <3>4. row.secret = s /\ RestOf(row, keys[k]) /\ row.org = keys[k].org
        BY <3>1 DEF Key, RestOf
      <3>7. OwnerOK(row)
        BY <3>1, <3>4 DEF RestOf, OwnerOK, KeysHaveOwners
      <3> HIDE DEF row
      <3>5. KeysBy(s) \subseteq {k}
        BY FirstIsAll DEF PrefixAvailable
      <3>6. KeysStep
        BY <3>1, <3>2, <3>3, <3>4, <3>5, <3>7, WriteStep DEF UpsertApiKey
      <3> QED BY <3>6 DEF UpsertApiKey, KeyTypeOK, KeysStep, StoreKept, PrincipalsPlaced
    <2>2. CASE Existing(id, s) = {} /\ \E k \in FreshKeys :
                keys' = [keys EXCEPT ![k] =
                   [Issued(s, e, {}) EXCEPT !.org = o, !.user = u, !.status = st]]
      <3> DEFINE row == [Issued(s, e, {}) EXCEPT !.org = o, !.user = u, !.status = st]
      <3>1. PICK k \in FreshKeys : keys' = [keys EXCEPT ![k] = row]
        BY <2>2
      <3>2. FreshRow(row, s) /\ OwnerOK(row)
        BY UserRows DEF UpsertApiKey
      <3> HIDE DEF row
      <3>4. KeysStep
        BY <2>2, <3>1, <3>2, InsertStep, FirstIsAll DEF UpsertApiKey, Existing
      <3> QED BY <3>4 DEF UpsertApiKey, KeyTypeOK, KeysStep, StoreKept, PrincipalsPlaced
    <2> QED BY <2>1, <2>2 DEF UpsertApiKey
  <1> QED BY <1>1, <1>2

LEMMA PrincipalSteps ==
    ASSUME OwnerInv, PrincipalStep
    PROVE  KeyTypeOK' /\ KeysStep /\ StoreKept
  <1> PICK p \in Principals :
        \/ \E o \in Orgs \cup {NoOrg} :
              \/ SetServicePrincipalDetails(p, o)
              \/ \E active \in BOOLEAN, by \in Users \cup {Nobody} :
                    UpsertServicePrincipal(p, o, active, by)
        \/ \E active \in BOOLEAN : SetServicePrincipalStatus(p, active)
        \/ \E s \in Secrets, e \in Expiries :
              \/ \E L \in LimitChoices : s \notin given /\ IssueServiceOwnedApiKey(p, s, e, L)
              \/ \E id \in KeyIds \cup {0}, st \in {"active", "revoked"} :
                    UpsertServiceOwnedApiKey(p, id, s, e, st)
    BY DEF PrincipalStep
  <1> USE DEF OwnerInv
  <1>0. principals[p] \in Principal /\ principals[p].org \in Orgs \cup {NoOrg}
    BY DEF KeyTypeOK, Principal
  <1>1. ASSUME NEW o \in Orgs \cup {NoOrg}, SetServicePrincipalDetails(p, o)
        PROVE  KeyTypeOK' /\ KeysStep /\ StoreKept
    <2>1. [principals[p] EXCEPT !.org = o] \in Principal
      BY <1>0 DEF Principal
    <2>2. principals' \in [Principals -> Principal]
      BY <1>1, <2>1 DEF SetServicePrincipalDetails, KeyTypeOK
    <2> QED BY <1>1, <2>2, NoKeyStep DEF StoreKept, PrincipalsPlaced, SetServicePrincipalDetails, KeyTypeOK
  <1>2. ASSUME NEW o \in Orgs \cup {NoOrg}, NEW active \in BOOLEAN,
               NEW by \in Users \cup {Nobody}, UpsertServicePrincipal(p, o, active, by)
        PROVE  KeyTypeOK' /\ KeysStep /\ StoreKept
    <2> DEFINE row == [state |-> "live", org |-> o, active |-> active,
                       createdBy |-> IF by = Nobody THEN principals[p].createdBy ELSE by]
    <2>1. row \in Principal
      BY <1>0 DEF Principal, Row
    <2>2. principals' \in [Principals -> Principal]
      BY <1>2, <2>1 DEF UpsertServicePrincipal, KeyTypeOK
    <2> QED BY <1>2, <2>2, NoKeyStep DEF StoreKept, PrincipalsPlaced, UpsertServicePrincipal, KeyTypeOK
  <1>3. ASSUME NEW active \in BOOLEAN, SetServicePrincipalStatus(p, active)
        PROVE  KeyTypeOK' /\ KeysStep /\ StoreKept
    <2>1. [principals[p] EXCEPT !.active = active] \in Principal
      BY <1>0 DEF Principal
    <2>2. principals' \in [Principals -> Principal]
      BY <1>3, <2>1 DEF SetServicePrincipalStatus, KeyTypeOK
    <2> QED BY <1>3, <2>2, NoKeyStep DEF StoreKept, PrincipalsPlaced, SetServicePrincipalStatus, KeyTypeOK
  <1>4. ASSUME NEW s \in Secrets, NEW e \in Expiries, NEW L \in LimitChoices,
               IssueServiceOwnedApiKey(p, s, e, L)
        PROVE  KeyTypeOK' /\ KeysStep /\ StoreKept
    <2>0. L \in SUBSET Limits
      BY ApiKeysAssumption DEF ApiKeysAssumption
    <2> DEFINE row == [Issued(s, e, L) EXCEPT !.org = principals[p].org, !.principal = p]
    <2>1. PICK k \in FreshKeys : keys' = [keys EXCEPT ![k] = row]
      BY <1>4 DEF IssueServiceOwnedApiKey
    <2>2. FreshRow(row, s) /\ OwnerOK(row)
      BY <1>0, <1>4, <2>0, PrincipalRows DEF IssueServiceOwnedApiKey, PrincipalsPlaced, RequirePrincipal
    <2> HIDE DEF row
    <2>3. KeysStep
      BY <1>4, <2>1, <2>2, InsertStep DEF IssueServiceOwnedApiKey, Material
    <2> QED BY <1>4, <2>3 DEF IssueServiceOwnedApiKey, KeyTypeOK, KeysStep, StoreKept, PrincipalsPlaced
  <1>5. ASSUME NEW s \in Secrets, NEW e \in Expiries,
               NEW id \in KeyIds \cup {0}, NEW st \in {"active", "revoked"},
               UpsertServiceOwnedApiKey(p, id, s, e, st)
        PROVE  KeyTypeOK' /\ KeysStep /\ StoreKept
    <2>0. e \in Nat
      BY ExpiryTyped
    <2>1. CASE \E k \in Existing(id, s) :
                /\ keys[k].principal = p
                /\ PrefixAvailable(s, k)
                /\ keys' = [keys EXCEPT ![k].org = principals[p].org, ![k].secret = s,
                                        ![k].expiresAt = e, ![k].status = st]
      <3> PICK k \in Existing(id, s) :
                /\ keys[k].principal = p
                /\ PrefixAvailable(s, k)
                /\ keys' = [keys EXCEPT ![k].org = principals[p].org, ![k].secret = s,
                                        ![k].expiresAt = e, ![k].status = st]
        BY <2>1
      <3>1. k \in Live /\ keys[k] \in Key /\ keys[k].state = "live"
        BY DEF Existing, First, KeysBy, Live, KeyTypeOK
      <3> DEFINE row == [keys[k] EXCEPT !.org = principals[p].org, !.secret = s,
                                        !.expiresAt = e, !.status = st]
      <3>2. row \in Key
        BY <1>0, <2>0, <3>1 DEF Key
      <3>3. keys' = [keys EXCEPT ![k] = row]
        BY <3>1 DEF KeyTypeOK
      <3>4. row.secret = s /\ RestOf(row, keys[k]) /\ row.org = principals[p].org
        BY <3>1 DEF Key, RestOf
      <3>8. OwnerOK(row)
        BY ZenonT(60), <1>5, <3>1, <3>4
        DEF UpsertServiceOwnedApiKey, RestOf, OwnerOK, KeysHaveOwners, PrincipalsPlaced, RequirePrincipal
      <3>5. keys[k].user = Nobody
        BY <3>1, ApiKeysAssumption DEF KeysHaveOwners, ApiKeysAssumption
      <3> HIDE DEF row
      <3>6. KeysBy(s) \subseteq {k}
        BY FirstIsAll DEF PrefixAvailable
      <3>7. KeysStep
        BY <1>5, <3>1, <3>2, <3>3, <3>4, <3>5, <3>6, <3>8, WriteStep DEF UpsertServiceOwnedApiKey
      <3> QED BY <1>5, <3>7 DEF UpsertServiceOwnedApiKey, KeyTypeOK, KeysStep, StoreKept, PrincipalsPlaced
    <2>2. CASE Existing(id, s) = {} /\ \E k \in FreshKeys :
                keys' = [keys EXCEPT ![k] =
                   [Issued(s, e, {}) EXCEPT !.org = principals[p].org, !.principal = p,
                                            !.status = st]]
      <3> DEFINE row == [Issued(s, e, {}) EXCEPT !.org = principals[p].org, !.principal = p,
                                                 !.status = st]
      <3>1. PICK k \in FreshKeys : keys' = [keys EXCEPT ![k] = row]
        BY <2>2
      <3>2. principals[p].org # NoOrg => principals[p].org \in orgs
        BY <1>5 DEF UpsertServiceOwnedApiKey, PrincipalsPlaced, RequirePrincipal
      <3>3. FreshRow(row, s) /\ OwnerOK(row)
        BY ZenonT(60), <1>0, <1>5, <3>2, PrincipalRows DEF UpsertServiceOwnedApiKey
      <3> HIDE DEF row
      <3>4. KeysStep
        BY <1>5, <2>2, <3>1, <3>3, InsertStep, FirstIsAll
        DEF UpsertServiceOwnedApiKey, Existing
      <3> QED BY <1>5, <3>4 DEF UpsertServiceOwnedApiKey, KeyTypeOK, KeysStep, StoreKept, PrincipalsPlaced
    <2> QED BY <1>5, <2>1, <2>2 DEF UpsertServiceOwnedApiKey
  <1> QED BY <1>1, <1>2, <1>3, <1>4, <1>5

LEMMA KeySteps ==
    ASSUME OwnerInv, KeyStep
    PROVE  KeyTypeOK' /\ KeysStep /\ StoreKept
  <1> USE DEF OwnerInv
  <1>1. ASSUME NEW k \in KeyIds, RevokeApiKey(k)
        PROVE  KeyTypeOK' /\ KeysStep /\ StoreKept
    <2>1. k \in Live /\ keys[k] \in Key
      BY <1>1 DEF RevokeApiKey, KeyTypeOK
    <2> DEFINE row == [keys[k] EXCEPT !.status = "revoked"]
    <2>2. row \in Key
      BY <2>1 DEF Key
    <2>3. RestOf(row, keys[k]) /\ row.secret = keys[k].secret /\ row.status = "revoked"
          /\ row.org = keys[k].org
      BY <2>1 DEF Key, RestOf
    <2>4. keys' = [keys EXCEPT ![k] = row]
      BY <1>1 DEF RevokeApiKey
    <2>5. keys[k].state = "live"
      BY <2>1 DEF Live
    <2> HIDE DEF row
    <2>7. OwnerOK(row)
      BY <2>1, <2>3 DEF RestOf, OwnerOK, KeysHaveOwners
    <2>6. KeysStep
      BY <1>1, <2>7, <2>1, <2>2, <2>3, <2>4, <2>5, WriteStep DEF RevokeApiKey
    <2> QED BY <1>1, <2>6 DEF RevokeApiKey, KeyTypeOK, KeysStep, StoreKept, PrincipalsPlaced
  <1>2. ASSUME NEW k \in KeyIds, NEW s \in Secrets, RotateApiKey(k, s)
        PROVE  KeyTypeOK' /\ KeysStep /\ StoreKept
    <2>1. k \in Live /\ keys[k] \in Key
      BY <1>2 DEF RotateApiKey, KeyTypeOK
    <2> DEFINE row == [keys[k] EXCEPT !.secret = s]
    <2>2. row \in Key
      BY <2>1 DEF Key
    <2>3. RestOf(row, keys[k]) /\ row.secret = s /\ row.org = keys[k].org
      BY <2>1 DEF Key, RestOf
    <2>4. keys' = [keys EXCEPT ![k] = row]
      BY <1>2 DEF RotateApiKey
    <2>5. keys[k].state = "live"
      BY <2>1 DEF Live
    <2> HIDE DEF row
    <2>7. OwnerOK(row)
      BY <2>1, <2>3 DEF RestOf, OwnerOK, KeysHaveOwners
    <2>6. KeysStep
      BY <1>2, <2>7, <2>1, <2>2, <2>3, <2>4, <2>5, WriteStep, FirstIsAll
      DEF RotateApiKey, PrefixAvailable
    <2> QED BY <1>2, <2>6 DEF RotateApiKey, KeyTypeOK, KeysStep, StoreKept, PrincipalsPlaced
  <1>3. ASSUME NEW s \in given, VerifyApiKey(s)
        PROVE  KeyTypeOK' /\ KeysStep /\ StoreKept
    <2> PICK k \in KeyIds :
          /\ Accepts(k) /\ RateAllows(keys[k]) /\ QuotaAllows(keys[k])
          /\ keys' = [keys EXCEPT ![k] = Meter(CountRequest(keys[k]))]
          /\ uses' = IF keys[k].limits = {} THEN uses ELSE [uses EXCEPT ![k] = Used(k)]
          /\ UNCHANGED <<now, users, orgs, principals, given>>
      BY <1>3 DEF VerifyApiKey
    <2>1. keys[k] \in Key /\ uses[k] \in [Time -> Nat]
      BY DEF KeyTypeOK
    <2>2. Meter(CountRequest(keys[k])) \in Key
      BY <2>1, AcceptedTyped
    <2>3. Used(k) \in [Time -> Nat]
      BY <2>1 DEF Used
    <2>4. keys' \in [KeyIds -> Key] /\ uses' \in [KeyIds -> [Time -> Nat]]
      BY <2>2, <2>3 DEF KeyTypeOK
    <2>5. Verified(k)
      BY DEF Verified, KeyTypeOK
    <2>6. \A j \in KeyIds : j # k => Unchanged(j)
      BY DEF Unchanged, KeyTypeOK
    <2>7. \A j \in KeyIds : ~Renewed(j)
      BY <2>1, <2>6, AcceptedTyped DEF Renewed, Unchanged, Accepts, Live, SameIdentity, KeyTypeOK
    <2> QED BY <2>4, <2>5, <2>6, <2>7 DEF AnyStep, KeyTypeOK, KeysStep, StoreKept, PrincipalsPlaced
  <1> QED BY <1>1, <1>2, <1>3 DEF KeyStep

LEMMA DeletionSteps ==
    ASSUME OwnerInv, NEW u \in Users, NEW O \in SUBSET orgs, DeleteUser(u, O)
    PROVE  KeyTypeOK' /\ KeysStep /\ PrincipalsPlaced' /\ KeysHaveOwners'
  <1> DEFINE P == {p \in Principals : principals[p].org \in O \/ principals[p].createdBy = u}
             Dead(k) == k \in Live /\ KeyEnds(keys[k], u, O, P)
  <1>1. [NoKey EXCEPT !.state = "gone"] \in Key /\ [NoRow EXCEPT !.state = "gone"] \in Principal
    BY NoRowsTyped DEF Key, Principal, Row
  <1>2. NoUses \in [Time -> Nat]
    BY NoRowsTyped
  <1>3. principals' = [p \in Principals |->
                          IF p \in P THEN [NoRow EXCEPT !.state = "gone"] ELSE principals[p]]
    BY DEF DeleteUser
  <1>4. keys' = [k \in KeyIds |-> IF Dead(k) THEN [NoKey EXCEPT !.state = "gone"] ELSE keys[k]]
    BY DEF DeleteUser
  <1>5. uses' = [k \in KeyIds |-> IF Dead(k) THEN NoUses ELSE uses[k]]
    BY DEF DeleteUser
  <1>6. \A k \in KeyIds : Dead(k) => keys[k].state = "live"
    BY DEF Live
  <1> HIDE DEF P, Dead
  <1> USE DEF OwnerInv
  <1>7. principals' \in [Principals -> Principal]
    BY <1>1, <1>3 DEF KeyTypeOK
  <1>8. keys' \in [KeyIds -> Key]
    BY <1>1, <1>4 DEF KeyTypeOK
  <1>9. uses' \in [KeyIds -> [Time -> Nat]]
    BY <1>2, <1>5 DEF KeyTypeOK
  <1>10. \A k \in KeyIds : Deleted(k) \/ Unchanged(k)
    BY <1>4, <1>5, <1>6 DEF Deleted, Unchanged, DeleteUser
  <1>11. \A k \in KeyIds : ~Renewed(k)
    BY <1>10, NoRowsTyped DEF Deleted, Unchanged, Renewed, Key
  <1>12. \A p \in Principals : principals'[p].state = "live" =>
            p \notin P /\ principals'[p] = principals[p]
    BY <1>3, NoRowsTyped DEF Principal
  <1>13. \A p \in Principals \ P : principals[p].org \notin O /\ principals[p].createdBy # u
    BY DEF P
  <1>14. PrincipalsPlaced'
    BY <1>12, <1>13 DEF PrincipalsPlaced, DeleteUser
  <1>15. ASSUME NEW k \in KeyIds, keys'[k].state = "live"
         PROVE  keys'[k] = keys[k] /\ k \in Live /\ ~KeyEnds(keys[k], u, O, P)
    BY <1>4, <1>15, NoRowsTyped DEF Dead, Live, Key
  <1>16. \A p \in Principals \ P : principals'[p] = principals[p]
    BY <1>3
  <1>17. KeysHaveOwners'
    <2> SUFFICES ASSUME NEW k \in KeyIds, keys'[k].state = "live"
                 PROVE  OwnerOK(keys[k])'
      BY DEF KeysHaveOwners, OwnerOK, Live
    <2>1. keys'[k] = keys[k] /\ OwnerOK(keys[k])
      BY <1>15 DEF KeysHaveOwners, OwnerOK
    <2>2. keys[k].org \notin O /\ keys[k].user # u /\ keys[k].principal \notin P
      BY <1>15 DEF KeyEnds
    <2>3. keys[k].principal \in Principals \cup {NoPrincipal}
      BY DEF KeyTypeOK, Key
    <2>4. keys[k].principal # NoPrincipal => RequirePrincipal(keys[k].principal)'
      BY <1>16, <2>1, <2>2, <2>3 DEF OwnerOK, RequirePrincipal
    <2> QED BY <2>1, <2>2, <2>4 DEF OwnerOK, DeleteUser
  <1> QED BY <1>7, <1>8, <1>9, <1>10, <1>11, <1>14, <1>17 DEF AnyStep, DeleteUser, KeyTypeOK, KeysStep

LEMMA StepKinds ==
    ASSUME OwnerInv, [Next]_vars
    PROVE  /\ KeyTypeOK' /\ KeysStep /\ PrincipalsPlaced'
           /\ now' = now \/ Tick
           /\ StoreKept \/ Tick \/ KeysHaveOwners'
  <1> USE DEF OwnerInv
  <1>1. CASE Tick
    BY <1>1, NoKeyStep, Constants DEF Tick, KeyTypeOK, Time, PrincipalsPlaced
  <1>2. CASE UNCHANGED vars
    BY <1>2, NoKeyStep DEF vars, KeyTypeOK, StoreKept, PrincipalsPlaced
  <1>3. CASE UserKeyStep
    BY <1>3, UserKeySteps DEF StoreKept
  <1>4. CASE PrincipalStep
    BY <1>4, PrincipalSteps DEF StoreKept
  <1>5. CASE KeyStep
    BY <1>5, KeySteps DEF StoreKept
  <1>6. CASE \E u \in Users, O \in SUBSET orgs : DeleteUser(u, O)
    BY <1>6, DeletionSteps DEF DeleteUser
  <1> QED BY <1>1, <1>2, <1>3, <1>4, <1>5, <1>6 DEF Next

-----------------------------------------------------------------------------
(* Owners and prefixes                                                     *)

LEMMA OwnersInit == Init => OwnerInv /\ EmptyRows
  <1> SUFFICES ASSUME Init PROVE OwnerInv /\ EmptyRows
    OBVIOUS
  <1>1. KeyTypeOK
    BY NoRowsTyped, Constants DEF Init, KeyTypeOK, Time
  <1>2. EmptyRows
    BY DEF Init, EmptyRows
  <1>3. Live = {}
    BY DEF Init, Live, NoKey
  <1>4. PrincipalsPlaced
    BY DEF Init, PrincipalsPlaced, NoRow
  <1> QED BY <1>1, <1>2, <1>3, <1>4 DEF OwnerInv, KeysHaveOwners, OneKeyPerPrefix

(* A request that is accepted changes the counters only. *)
LEMMA VerifiedRow ==
    ASSUME KeyTypeOK, NEW k \in KeyIds, Verified(k)
    PROVE  /\ SameIdentity(keys'[k], keys[k])
           /\ keys[k].state = "live"
           /\ keys'[k].limits = keys[k].limits
  BY AcceptedTyped DEF Verified, Accepts, Live, KeyTypeOK

LEMMA PrefixesKept ==
    ASSUME OwnerInv, KeysStep PROVE OneKeyPerPrefix'
  <1> SUFFICES ASSUME NEW k \in KeyIds, NEW l \in KeyIds,
                      keys'[k].state = "live", keys'[l].state = "live",
                      PrefixOf[keys'[k].secret] = PrefixOf[keys'[l].secret], k # l
               PROVE  FALSE
    BY DEF OneKeyPerPrefix, Live
  <1> USE DEF OwnerInv
  <1>1. ASSUME NEW j \in KeyIds, keys'[j].state = "live"
        PROVE  \/ Renewed(j) /\ KeysBy(keys'[j].secret) \subseteq {j}
               \/ ~Renewed(j) /\ j \in Live /\ keys'[j].secret = keys[j].secret
    <2>1. CASE Verified(j)
      BY <2>1, VerifiedRow DEF SameIdentity, Renewed, Live
    <2>2. CASE Deleted(j)
      BY <1>1, <2>2, NoRowsTyped DEF Deleted, Key
    <2>3. CASE Unchanged(j) \/ Inserted(j) \/ Written(j)
      BY <1>1, <2>3 DEF Unchanged, Inserted, Written, Renewed, Live
    <2> QED BY <2>1, <2>2, <2>3 DEF KeysStep, AnyStep
  <1>2. ~(Renewed(k) /\ Renewed(l))
    BY DEF KeysStep
  <1>3. CASE Renewed(k)
    BY <1>1, <1>2, <1>3 DEF KeysBy
  <1>4. CASE Renewed(l)
    BY <1>1, <1>2, <1>4 DEF KeysBy
  <1>5. CASE ~Renewed(k) /\ ~Renewed(l)
    BY <1>1, <1>5 DEF OneKeyPerPrefix
  <1> QED BY <1>3, <1>4, <1>5

LEMMA OwnersKept ==
    ASSUME OwnerInv, KeysStep, StoreKept PROVE KeysHaveOwners'
  <1> USE DEF OwnerInv
  <1> SUFFICES ASSUME NEW k \in KeyIds, keys'[k].state = "live"
               PROVE  OwnerOK(keys[k])'
    BY DEF KeysHaveOwners, OwnerOK, Live
  <1>1. OwnerOK(keys'[k])
    <2>1. CASE Verified(k)
      BY <2>1, VerifiedRow DEF SameIdentity, OwnerOK, KeysHaveOwners, Live
    <2>2. CASE Deleted(k)
      BY <2>2, NoRowsTyped DEF Deleted, Key
    <2>3. CASE Unchanged(k)
      BY <2>3 DEF Unchanged, OwnerOK, KeysHaveOwners, Live
    <2>4. CASE Inserted(k) \/ Written(k)
      BY <2>4 DEF Inserted, Written
    <2> QED BY <2>1, <2>2, <2>3, <2>4 DEF KeysStep, AnyStep
  <1>2. keys'[k].principal \in Principals \cup {NoPrincipal}
    BY DEF KeysStep, Key
  <1> QED BY <1>1, <1>2 DEF OwnerOK, StoreKept, RequirePrincipal

LEMMA OwnerStep == OwnerInv /\ [Next]_vars => OwnerInv'
  <1> SUFFICES ASSUME OwnerInv, [Next]_vars PROVE OwnerInv'
    OBVIOUS
  <1>1. KeyTypeOK' /\ KeysStep /\ PrincipalsPlaced' /\ (StoreKept \/ Tick \/ KeysHaveOwners')
    BY StepKinds
  <1>2. OneKeyPerPrefix'
    BY <1>1, PrefixesKept
  <1>3. Tick => KeysHaveOwners'
    BY DEF Tick, OwnerInv, KeysHaveOwners, Live, RequirePrincipal
  <1> QED BY <1>1, <1>2, <1>3, OwnersKept DEF OwnerInv

LEMMA EmptyRowsKept ==
    ASSUME KeyTypeOK, EmptyRows, KeysStep PROVE EmptyRows'
  <1> SUFFICES ASSUME NEW k \in KeyIds, keys'[k].state = "none"
               PROVE  keys'[k] = NoKey /\ uses'[k] = NoUses
    BY DEF EmptyRows
  <1>1. [NoKey EXCEPT !.state = "gone"].state = "gone"
    BY DEF NoKey
  <1>2. ASSUME Verified(k) PROVE keys'[k].state = "live"
    BY <1>2, VerifiedRow DEF SameIdentity
  <1>3. AnyStep(k)
    BY DEF KeysStep
  <1> QED BY <1>1, <1>2, <1>3 DEF AnyStep, Unchanged, Inserted, Written, Deleted, EmptyRows

-----------------------------------------------------------------------------
(* The count of accepted requests                                          *)

LEMMA ClockStep ==
    ASSUME KeyTypeOK, KeyTypeOK', now' = now \/ Tick
    PROVE  /\ now \in Nat /\ now' \in Nat /\ now \in Time /\ now' \in Time
           /\ now <= now' /\ Time \subseteq Nat
           /\ now' = now \/ (now' = now + 1 /\ keys' = keys /\ uses' = uses)
  BY Constants DEF KeyTypeOK, Tick, Time

LEMMA UsesGrowKept ==
    ASSUME KeyTypeOK, KeyTypeOK', UsesGrow, KeysStep, now' = now \/ Tick
    PROVE  UsesGrow'
  <1> SUFFICES ASSUME NEW k \in KeyIds PROVE UsedUpTo(uses[k])'
    BY DEF UsesGrow
  <1>1. UsedUpTo(uses[k])
    BY DEF UsesGrow
  <1>2. CASE uses'[k] = uses[k]
    BY <1>1, <1>2, ClockStep DEF UsedUpTo
  <1>3. CASE uses'[k] = NoUses
    BY <1>3, ClockStep DEF UsedUpTo, NoUses
  <1>4. CASE uses'[k] = Used(k) /\ now' = now
    BY <1>1, <1>4, ClockStep DEF UsedUpTo, Used
  <1> QED BY <1>2, <1>3, <1>4
       DEF KeysStep, AnyStep, Unchanged, Inserted, Written, SameMeters, Verified, Deleted

(* A request of a rate-limited key that is accepted: f and g are the history *)
(* before and after it.                                                      *)
LEMMA RateStep ==
    ASSUME KeyTypeOK, now >= Window, NEW f, NEW g, NEW key \in Key, NEW next \in Key,
           UsedUpTo(f), RateKept(key, f), "rate" \in key.limits, RateAllows(key),
           \A t \in Time : g[t] = IF t >= now THEN f[t] + 1 ELSE f[t],
           next.requestCount = Count(key) + 1,
           next.windowStartedAt = IF WithinWindow(key) THEN key.windowStartedAt ELSE now
    PROVE  RateKept(next, g)
  <1>1. /\ now \in Nat /\ now \in Time /\ now <= MaxTime
        /\ \A t : t \in Time <=> t \in Nat /\ t <= MaxTime
    BY Constants DEF KeyTypeOK, Time
  <1>2. key.windowStartedAt \in Nat /\ key.requestCount \in Nat
    BY Constants DEF Key, Time
  <1>3. /\ \A t \in Time : f[t] \in Nat
        /\ \A s, t \in Time : s <= t => f[s] <= f[t]
        /\ \A t \in Time : t >= now => f[t] = f[now]
    BY DEF UsedUpTo
  <1>4. CASE WithinWindow(key)
    <2>1. PICK w \in Nat : w = key.windowStartedAt
      BY <1>2
    <2>2. PICK c \in Nat : c = key.requestCount
      BY <1>2
    <2>3. now - w < Window /\ c < RateMax
      BY <1>4, <2>1, <2>2 DEF WithinWindow, Count, RateAllows
    <2>4. w # 0
      BY <1>1, <2>3, Constants
    <2>5. /\ Window <= w /\ w <= now
          /\ f[now] = f[w - 1] + c
          /\ f[w] >= f[w - 1] + 1
          /\ f[w - 1] <= f[w - Window] + RateMax - 1
      BY <2>1, <2>2, <2>4 DEF RateKept
    <2>6. /\ w - 1 \in Time /\ w - Window \in Time /\ w \in Time
          /\ w - 1 < now /\ w - Window < now
      BY <1>1, <2>5, Constants
    <2>7. g[now] = f[now] + 1 /\ g[w - 1] = f[w - 1] /\ g[w - Window] = f[w - Window]
      BY <1>1, <2>5, <2>6
    <2>8. f[w] \in Nat /\ f[w - 1] \in Nat /\ f[w - Window] \in Nat
      BY <1>3, <2>6
    <2>9. g[w] >= f[w]
      BY <2>6, <2>8
    <2>10. \A t \in Time : t >= w + Window - 1 => g[t] = g[now]
      <3> SUFFICES ASSUME NEW t \in Time, t >= w + Window - 1 PROVE g[t] = g[now]
        OBVIOUS
      <3>1. t >= now
        BY <1>1, <2>3, Constants
      <3> QED BY <1>1, <1>3, <3>1
    <2>11. next.windowStartedAt = w /\ next.requestCount = c + 1
      BY <1>4, <2>1, <2>2 DEF Count
    <2>12. g[now] = g[w - 1] + (c + 1) /\ g[w] \in Int /\ g[w] >= g[w - 1] + 1
      BY <2>5, <2>6, <2>7, <2>8, <2>9
    <2>13. c + 1 <= RateMax /\ g[w - 1] <= g[w - Window] + RateMax - 1
      BY <2>3, <2>5, <2>7, Constants
    <2> QED BY <2>5, <2>10, <2>11, <2>12, <2>13 DEF RateKept
  <1>5. CASE ~WithinWindow(key)
    <2>1. next.windowStartedAt = now /\ next.requestCount = 1
      BY <1>5 DEF Count
    <2>2. /\ now - 1 \in Time /\ now - Window \in Time
          /\ now - Window <= now - 1 /\ now - 1 < now /\ now - Window < now
      BY <1>1, Constants
    <2>3. f[now] \in Nat /\ f[now - 1] \in Nat /\ f[now - Window] \in Nat
      BY <1>1, <1>3, <2>2
    <2>4. f[now] = f[now - 1] /\ f[now - 1] <= f[now - Window] + RateMax - 1
      <3>1. CASE \A t \in Time : f[t] = 0
        BY <1>1, <2>2, <3>1, Constants
      <3>2. CASE ~\A t \in Time : f[t] = 0
        <4>1. PICK w \in Nat : w = key.windowStartedAt
          BY <1>2
        <4>2. PICK c \in Nat : c = key.requestCount
          BY <1>2
        <4>3. /\ Window <= w /\ w <= now /\ c <= RateMax
              /\ f[now] = f[w - 1] + c
              /\ f[w] >= f[w - 1] + 1
              /\ \A t \in Time : t >= w + Window - 1 => f[t] = f[now]
          BY <3>2, <4>1, <4>2 DEF RateKept
        <4>4. now - w >= Window
          BY <1>1, <1>5, <4>1, Constants DEF WithinWindow
        <4>5. w - 1 \in Time /\ w \in Time /\ w <= now - Window /\ now - 1 >= w + Window - 1
          BY <1>1, <4>3, <4>4, Constants
        <4>6. f[now - 1] = f[now]
          BY <2>2, <4>3, <4>5
        <4>7. f[w] <= f[now - Window] /\ f[w] \in Nat /\ f[w - 1] \in Nat
          BY <1>3, <2>2, <4>5
        <4> QED BY <2>3, <4>3, <4>6, <4>7, Constants
      <3> QED BY <3>1, <3>2
    <2>5. g[now] = f[now] + 1 /\ g[now - 1] = f[now - 1] /\ g[now - Window] = f[now - Window]
      BY <1>1, <2>2
    <2>6. \A t \in Time : t >= now + Window - 1 => g[t] = g[now]
      <3> SUFFICES ASSUME NEW t \in Time, t >= now + Window - 1 PROVE g[t] = g[now]
        OBVIOUS
      <3>1. t >= now
        BY <1>1, Constants
      <3> QED BY <1>1, <1>3, <3>1
    <2>7. /\ g[now] = g[now - 1] + 1 /\ g[now] \in Nat
          /\ g[now - 1] <= g[now - Window] + RateMax - 1
      BY <2>3, <2>4, <2>5
    <2> QED BY <1>1, <2>1, <2>6, <2>7, Constants DEF RateKept
  <1> QED BY <1>4, <1>5

LEMMA RatesStep ==
    ASSUME KeyTypeOK, KeyTypeOK', now >= Window, EmptyRows, UsesGrow, RatesKept,
           KeysStep, now' = now \/ Tick
    PROVE  RatesKept'
  <1> SUFFICES ASSUME NEW k \in KeyIds, "rate" \in keys'[k].limits
               PROVE  RateKept(keys[k], uses[k])'
    BY DEF RatesKept
  <1>1. keys[k] \in Key /\ keys'[k] \in Key /\ UsedUpTo(uses[k])
    BY DEF KeyTypeOK, UsesGrow
  <1>2. CASE Unchanged(k) \/ Written(k)
    <2>1. /\ keys'[k].requestCount = keys[k].requestCount
          /\ keys'[k].windowStartedAt = keys[k].windowStartedAt
          /\ uses'[k] = uses[k] /\ "rate" \in keys[k].limits
      BY <1>2 DEF Unchanged, Written, SameMeters
    <2>2. RateKept(keys[k], uses[k])
      BY <2>1 DEF RatesKept
    <2>3. now <= now' /\ now \in Nat /\ now' \in Nat /\ now' \in Time
      BY ClockStep
    <2>4. uses[k][now'] = uses[k][now]
      BY <1>1, <2>3 DEF UsedUpTo
    <2>5. keys[k].windowStartedAt \in Nat
      BY <1>1 DEF Key, Time
    <2> QED BY <2>1, <2>2, <2>3, <2>4, <2>5, Constants DEF RateKept
  <1>3. CASE Inserted(k)
    <2>1. uses'[k] = NoUses /\ keys'[k].requestCount = 0 /\ keys'[k].windowStartedAt = 0
      BY <1>3 DEF Inserted, EmptyRows
    <2> QED BY <2>1 DEF RateKept, NoUses
  <1>4. CASE Verified(k)
    <2>1. /\ keys'[k] = Meter(CountRequest(keys[k])) /\ now' = now
          /\ RateAllows(keys[k]) /\ QuotaAllows(keys[k])
      BY <1>4 DEF Verified
    <2>2. /\ "rate" \in keys[k].limits
          /\ keys'[k].requestCount = Count(keys[k]) + 1
          /\ keys'[k].windowStartedAt =
                IF WithinWindow(keys[k]) THEN keys[k].windowStartedAt ELSE now
      BY <1>1, <2>1, AcceptedTyped
    <2>3. uses'[k] = Used(k)
      BY <1>4, <2>2 DEF Verified
    <2>4. \A t \in Time : uses'[k][t] = IF t >= now THEN uses[k][t] + 1 ELSE uses[k][t]
      BY <2>3 DEF Used
    <2>5. RateKept(keys[k], uses[k])
      BY <2>2 DEF RatesKept
    <2>6. RateKept(keys'[k], uses'[k])
      BY <1>1, <2>1, <2>2, <2>4, <2>5, RateStep
    <2> QED BY <2>1, <2>6 DEF RateKept
  <1>5. CASE Deleted(k)
    BY <1>5 DEF Deleted, NoKey
  <1> QED BY <1>2, <1>3, <1>4, <1>5 DEF KeysStep, AnyStep

-----------------------------------------------------------------------------
(* The quota                                                               *)

LEMMA TimesMonotone ==
    ASSUME NEW k \in Nat, NEW x \in Nat, NEW y \in Nat, x <= y PROVE k * x <= k * y
  <1>1. PICK d \in Nat : y = x + d
    <2> WITNESS y - x \in Nat
    <2> QED OBVIOUS
  <1>2. k * y = k * x + k * d /\ k * d \in Nat /\ k * x \in Nat /\ k * y \in Nat
    BY <1>1
  <1> QED BY <1>2

LEMMA Quotient ==
    ASSUME NEW a \in Nat, NEW i \in Nat, i >= 1
    PROVE  a \div i \in Nat /\ i * (a \div i) <= a /\ a < i * (a \div i) + i
  OBVIOUS

LEMMA QuotientGrows ==
    ASSUME NEW a \in Nat, NEW b \in Nat, NEW i \in Nat, i >= 1
    PROVE  /\ a <= b => a \div i <= b \div i
           /\ a + i <= b => (a \div i) + 1 <= b \div i
  <1> DEFINE p == a \div i
             q == b \div i
  <1>1. /\ p \in Nat /\ i * p <= a /\ a < i * p + i
        /\ q \in Nat /\ i * q <= b /\ b < i * q + i
    BY Quotient
  <1> HIDE DEF p, q
  <1>2. a <= b => p <= q
    <2> SUFFICES ASSUME a <= b, q + 1 <= p PROVE FALSE
      BY <1>1
    <2>1. i * (q + 1) <= i * p /\ i * (q + 1) = i * q + i /\ i * q \in Nat /\ i * p \in Nat
      BY <1>1, TimesMonotone
    <2> QED BY <1>1, <2>1
  <1>3. a + i <= b => p + 1 <= q
    <2> SUFFICES ASSUME a + i <= b, q <= p PROVE FALSE
      BY <1>1
    <2>1. i * q <= i * p /\ i * q \in Nat /\ i * p \in Nat
      BY <1>1, TimesMonotone
    <2> QED BY <1>1, <2>1
  <1> QED BY <1>2, <1>3 DEF p, q

(* Refills(n) of a quota are paid by the time n that has passed. *)
LEMMA RefillsGrow ==
    ASSUME NEW a \in Nat, NEW b \in Nat
    PROVE  LET paid(n) == RefillAmount * (n \div RefillInterval)
           IN /\ paid(a) \in Nat /\ paid(b) \in Nat
              /\ a <= b => paid(a) <= paid(b)
              /\ a + RefillInterval <= b => paid(a) + RefillAmount <= paid(b)
  <1> DEFINE p == a \div RefillInterval
             q == b \div RefillInterval
  <1>1. /\ p \in Nat /\ q \in Nat /\ (a <= b => p <= q)
        /\ (a + RefillInterval <= b => p + 1 <= q)
    BY Quotient, QuotientGrows, Constants
  <1> HIDE DEF p, q
  <1>2. RefillAmount \in Nat /\ RefillAmount * p \in Nat /\ RefillAmount * q \in Nat
    BY <1>1, Constants
  <1>3. a <= b => RefillAmount * p <= RefillAmount * q
    BY <1>1, <1>2, TimesMonotone
  <1>4. a + RefillInterval <= b => RefillAmount * (p + 1) <= RefillAmount * q
    BY <1>1, <1>2, TimesMonotone
  <1>5. RefillAmount * (p + 1) = RefillAmount * p + RefillAmount
    BY <1>1, <1>2
  <1> QED BY <1>2, <1>3, <1>4, <1>5 DEF p, q

(* The refills of a key come with the time since it was made. *)
LEMMA RefilledGrows ==
    ASSUME NEW key, key.createdAt \in Nat, NEW a \in Nat, NEW b \in Nat,
           key.createdAt <= a, a <= b
    PROVE  /\ Refilled(key, a) \in Nat /\ Refilled(key, b) \in Nat
           /\ Refilled(key, a) <= Refilled(key, b)
           /\ "refill" \in key.limits /\ a + RefillInterval <= b =>
                 Refilled(key, a) + RefillAmount <= Refilled(key, b)
  <1> PICK c \in Nat : c = key.createdAt
    OBVIOUS
  <1>1. a - c \in Nat /\ b - c \in Nat /\ a - c <= b - c
    OBVIOUS
  <1>2. a + RefillInterval <= b => (a - c) + RefillInterval <= b - c
    BY Constants
  <1>3. LET paid(n) == RefillAmount * (n \div RefillInterval)
        IN /\ paid(a - c) \in Nat /\ paid(b - c) \in Nat
           /\ paid(a - c) <= paid(b - c)
           /\ a + RefillInterval <= b => paid(a - c) + RefillAmount <= paid(b - c)
    BY <1>1, <1>2, RefillsGrow
  <1>4. CASE "refill" \in key.limits
    BY <1>3, <1>4 DEF Refilled
  <1>5. CASE "refill" \notin key.limits
    BY <1>5 DEF Refilled
  <1> QED BY <1>4, <1>5

LEMMA QuotasStep ==
    ASSUME KeyTypeOK, KeyTypeOK', EmptyRows, UsesGrow, QuotasKept,
           KeysStep, now' = now \/ Tick
    PROVE  QuotasKept'
  <1> SUFFICES ASSUME NEW k \in KeyIds, "quota" \in keys'[k].limits
               PROVE  QuotaKept(keys[k], uses[k])'
    BY DEF QuotasKept
  <1>1. keys[k] \in Key /\ keys'[k] \in Key /\ UsedUpTo(uses[k])
    BY DEF KeyTypeOK, UsesGrow
  <1>2. now <= now' /\ now \in Nat /\ now' \in Nat /\ now' \in Time /\ now \in Time
    BY ClockStep
  <1>3. CASE Unchanged(k) \/ Written(k)
    <2>1. /\ keys'[k].createdAt = keys[k].createdAt
          /\ keys'[k].remaining = keys[k].remaining
          /\ keys'[k].lastRefillAt = keys[k].lastRefillAt
          /\ keys'[k].limits = keys[k].limits
          /\ uses'[k] = uses[k] /\ "quota" \in keys[k].limits
      BY <1>3 DEF Unchanged, Written, SameMeters
    <2>2. QuotaKept(keys[k], uses[k])
      BY <2>1 DEF QuotasKept
    <2>3. uses[k][now'] = uses[k][now]
      BY <1>1, <1>2 DEF UsedUpTo
    <2>4. keys[k].lastRefillAt \in Nat
      BY <1>1 DEF Key, Time
    <2> QED BY <1>2, <2>1, <2>2, <2>3, <2>4 DEF QuotaKept, Refilled
  <1>4. CASE Inserted(k)
    <2>1. /\ uses'[k] = NoUses /\ keys'[k].remaining = Remaining /\ now' = now
          /\ keys'[k].lastRefillAt = now /\ keys'[k].createdAt = now
      BY <1>4 DEF Inserted, EmptyRows
    <2>2. Refilled(keys'[k], now) \in Nat
      BY <1>2, <2>1, RefilledGrows
    <2>3. uses'[k][now] = 0
      BY <1>2, <2>1 DEF NoUses
    <2> QED BY <1>2, <2>1, <2>2, <2>3, Constants DEF QuotaKept
  <1>5. CASE Verified(k)
    <2>1. /\ keys'[k] = Meter(CountRequest(keys[k])) /\ now' = now
          /\ QuotaAllows(keys[k])
      BY <1>5 DEF Verified
    <2>2. /\ keys'[k].limits = keys[k].limits
          /\ "quota" \in keys[k].limits
          /\ keys'[k].createdAt = keys[k].createdAt
          /\ keys'[k].remaining =
                (IF Refills(keys[k]) THEN RefillAmount ELSE keys[k].remaining) - 1
          /\ keys'[k].lastRefillAt = IF Refills(keys[k]) THEN now ELSE keys[k].lastRefillAt
      BY <1>1, <2>1, AcceptedTyped DEF SameIdentity
    <2>3. uses'[k] = Used(k)
      BY <1>5, <2>2 DEF Verified
    <2>4. uses'[k][now] = uses[k][now] + 1 /\ uses[k][now] \in Nat
      BY <1>1, <1>2, <2>3 DEF Used, UsedUpTo
    <2>5. QuotaKept(keys[k], uses[k])
      BY <2>2 DEF QuotasKept
    <2>6. PICK a \in Nat, l \in Nat, c \in Nat :
             a = keys[k].remaining /\ l = keys[k].lastRefillAt /\ c = keys[k].createdAt
      BY <1>1 DEF Key, Time
    <2>7. /\ c <= l /\ l <= now
          /\ uses[k][now] + a <= Remaining + Refilled(keys[k], l)
      BY <2>5, <2>6 DEF QuotaKept
    <2>10. \A t : Refilled(keys'[k], t) = Refilled(keys[k], t)
      BY <2>2 DEF Refilled
    <2>11. /\ Refilled(keys[k], l) \in Nat /\ Refilled(keys[k], now) \in Nat
           /\ "refill" \in keys[k].limits /\ l + RefillInterval <= now =>
                 Refilled(keys[k], l) + RefillAmount <= Refilled(keys[k], now)
      BY <1>2, <2>6, <2>7, RefilledGrows
    <2>8. CASE Refills(keys[k])
      <3>1. "refill" \in keys[k].limits /\ l + RefillInterval <= now
        BY <1>2, <2>6, <2>7, <2>8, Constants DEF Refills
      <3>2. /\ keys'[k].createdAt = c /\ keys'[k].lastRefillAt = now
            /\ keys'[k].remaining = RefillAmount - 1
        BY <2>2, <2>6, <2>8
      <3>3. uses'[k][now] + (RefillAmount - 1) <= Remaining + Refilled(keys[k], now)
        BY <2>4, <2>6, <2>7, <2>11, <3>1, Constants
      <3> QED BY <1>2, <2>1, <2>6, <2>7, <2>10, <3>2, <3>3 DEF QuotaKept
    <2>9. CASE ~Refills(keys[k])
      <3>1. /\ keys'[k].createdAt = c /\ keys'[k].lastRefillAt = l
            /\ keys'[k].remaining = a - 1
        BY <2>2, <2>6, <2>9
      <3>2. uses'[k][now] + (a - 1) <= Remaining + Refilled(keys[k], l)
        BY <2>4, <2>6, <2>7, <2>11, Constants
      <3> QED BY <1>2, <2>1, <2>6, <2>7, <2>10, <3>1, <3>2 DEF QuotaKept
    <2> QED BY <2>8, <2>9
  <1>6. CASE Deleted(k)
    BY <1>6 DEF Deleted, NoKey
  <1> QED BY <1>3, <1>4, <1>5, <1>6 DEF KeysStep, AnyStep

-----------------------------------------------------------------------------
(* The invariant                                                           *)

LEMMA InvInit == Init => IInv
  <1> SUFFICES ASSUME Init PROVE IInv
    OBVIOUS
  <1>1. OwnerInv /\ EmptyRows
    BY OwnersInit
  <1>2. now >= Window
    BY Constants DEF Init
  <1>3. \A k \in KeyIds : uses[k] = NoUses /\ keys[k].limits = {}
    BY DEF Init, NoKey
  <1>4. UsesGrow
    BY <1>1, <1>3, NowTyped DEF UsesGrow, UsedUpTo, NoUses, OwnerInv
  <1> QED BY <1>1, <1>2, <1>3, <1>4 DEF IInv, RatesKept, QuotasKept

LEMMA InvStep == IInv /\ [Next]_vars => IInv'
  <1> SUFFICES ASSUME IInv, [Next]_vars PROVE IInv'
    OBVIOUS
  <1>1. OwnerInv /\ OwnerInv' /\ KeyTypeOK /\ KeyTypeOK'
    BY OwnerStep DEF IInv, OwnerInv
  <1>2. KeysStep /\ (now' = now \/ Tick)
    BY <1>1, StepKinds
  <1>3. EmptyRows'
    BY <1>1, <1>2, EmptyRowsKept DEF IInv
  <1>4. UsesGrow'
    BY <1>1, <1>2, UsesGrowKept DEF IInv
  <1>5. RatesKept'
    BY <1>1, <1>2, RatesStep DEF IInv
  <1>6. QuotasKept'
    BY <1>1, <1>2, QuotasStep DEF IInv
  <1>7. now' >= Window
    BY <1>1, <1>2, ClockStep, Constants DEF IInv
  <1> QED BY <1>1, <1>3, <1>4, <1>5, <1>6, <1>7 DEF IInv

LEMMA Invariance == Spec => []IInv
  BY InvInit, InvStep, PTL DEF Spec

(* Every table, counter and history of api_keys is well typed.             *)
THEOREM TypeCorrect == Spec => []KeyTypeOK
  <1>1. IInv => KeyTypeOK
    BY DEF IInv, OwnerInv
  <1> QED BY Invariance, <1>1, PTL

(* Issues, upserts and rotations never give two keys one lookup prefix.    *)
THEOREM PrefixesUnique == Spec => []OneKeyPerPrefix
  <1>1. IInv => OneKeyPerPrefix
    BY DEF IInv, OwnerInv
  <1> QED BY Invariance, <1>1, PTL

(* No deletion and no move of a principal leaves a key without its owner.  *)
THEOREM KeysOwned == Spec => []KeysHaveOwners
  <1>1. IInv => KeysHaveOwners
    BY DEF IInv, OwnerInv
  <1> QED BY Invariance, <1>1, PTL

LEMMA RateBounded == IInv => RateBound
  <1> SUFFICES ASSUME IInv, NEW k \in KeyIds, "rate" \in keys[k].limits
               PROVE  uses[k][now] - uses[k][now - Window] <= 2 * RateMax - 1
    BY DEF RateBound
  <1> PICK f : f = uses[k]
    OBVIOUS
  <1>1. /\ now \in Nat /\ now \in Time /\ now <= MaxTime /\ Window <= now
        /\ \A t : t \in Time <=> t \in Nat /\ t <= MaxTime
    BY Constants DEF IInv, OwnerInv, KeyTypeOK, Time
  <1>2. /\ \A t \in Time : f[t] \in Nat
        /\ \A s, t \in Time : s <= t => f[s] <= f[t]
    BY DEF IInv, UsesGrow, UsedUpTo
  <1>3. RateKept(keys[k], f)
    BY DEF IInv, RatesKept
  <1>4. now - Window \in Time /\ f[now] \in Nat /\ f[now - Window] \in Nat
    BY <1>1, <1>2, Constants
  <1>5. CASE \A t \in Time : f[t] = 0
    BY <1>1, <1>4, <1>5, Constants
  <1>6. CASE ~\A t \in Time : f[t] = 0
    <2>1. PICK w \in Nat, c \in Nat : w = keys[k].windowStartedAt /\ c = keys[k].requestCount
      BY <1>1 DEF IInv, OwnerInv, KeyTypeOK, Key
    <2>2. /\ Window <= w /\ w <= now /\ c <= RateMax
          /\ f[now] = f[w - 1] + c
          /\ f[w] >= f[w - 1] + 1
          /\ f[w - 1] <= f[w - Window] + RateMax - 1
      BY <1>3, <1>6, <2>1 DEF RateKept
    <2>3. w \in Time /\ w - 1 \in Time /\ w - Window \in Time /\ w - Window <= now - Window
      BY <1>1, <2>2, Constants
    <2>4. f[w] \in Nat /\ f[w - 1] \in Nat /\ f[w - Window] \in Nat
      BY <1>2, <2>3
    <2>5. CASE w <= now - Window
      <3>1. f[w] <= f[now - Window]
        BY <1>2, <1>4, <2>3, <2>5
      <3> QED BY <1>4, <2>2, <2>4, <3>1, Constants
    <2>6. CASE ~(w <= now - Window)
      <3>1. f[w - Window] <= f[now - Window]
        BY <1>2, <1>4, <2>3
      <3> QED BY <1>4, <2>2, <2>4, <3>1, Constants
    <2> QED BY <2>5, <2>6
  <1> QED BY <1>5, <1>6

(* No span of a window's length sees more than 2 * RateMax - 1 accepted    *)
(* requests of a rate-limited key, whatever rotations and upserts it met.  *)
THEOREM RateLimited == Spec => []RateBound
  BY Invariance, RateBounded, PTL

LEMMA QuotaBounded == IInv => QuotaBound
  <1> SUFFICES ASSUME IInv, NEW k \in KeyIds, "quota" \in keys[k].limits
               PROVE  uses[k][now] <= Remaining + Refilled(keys[k], now)
    BY DEF QuotaBound
  <1>1. keys[k] \in Key /\ now \in Nat /\ uses[k][now] \in Nat
    BY NowTyped DEF IInv, OwnerInv, KeyTypeOK, UsesGrow, UsedUpTo
  <1>2. PICK a \in Nat, l \in Nat, c \in Nat :
           a = keys[k].remaining /\ l = keys[k].lastRefillAt /\ c = keys[k].createdAt
    BY <1>1 DEF Key, Time
  <1>3. /\ c <= l /\ l <= now
        /\ uses[k][now] + a <= Remaining + Refilled(keys[k], l)
    BY <1>2 DEF IInv, QuotasKept, QuotaKept
  <1>4. /\ Refilled(keys[k], l) \in Nat /\ Refilled(keys[k], now) \in Nat
        /\ Refilled(keys[k], l) <= Refilled(keys[k], now)
    BY <1>1, <1>2, <1>3, RefilledGrows
  <1> QED BY <1>1, <1>2, <1>3, <1>4, Constants

(* A key with a quota is never accepted more often than the quota and its  *)
(* refills since the key was made allow.                                   *)
THEOREM QuotaLimited == Spec => []QuotaBound
  BY Invariance, QuotaBounded, PTL

-----------------------------------------------------------------------------
(* What no step does                                                       *)

(* No upsert hands a key to another user or principal, or takes a user's   *)
(* key to another organization.                                            *)
THEOREM NobodyTakesOver == Spec => NoTakeover
  <1>1. ASSUME IInv, [Next]_vars, NEW k \in Live
        PROVE  \/ keys'[k].state = "gone"
               \/ /\ keys'[k].user = keys[k].user
                  /\ keys'[k].principal = keys[k].principal
                  /\ keys[k].user # Nobody => keys'[k].org = keys[k].org
    <2>1. OwnerInv /\ KeyTypeOK /\ k \in KeyIds /\ keys[k].state = "live"
      BY <1>1 DEF IInv, OwnerInv, Live
    <2>2. AnyStep(k)
      BY <1>1, <2>1, StepKinds DEF KeysStep
    <2>3. CASE Verified(k)
      BY <2>1, <2>3, VerifiedRow DEF SameIdentity
    <2>4. CASE Deleted(k)
      BY <2>4 DEF Deleted, NoKey
    <2> QED BY <2>1, <2>2, <2>3, <2>4 DEF AnyStep, Unchanged, Inserted, Written, SameOwner
  <1>2. IInv /\ [Next]_vars =>
           [\A k \in Live :
              \/ keys'[k].state = "gone"
              \/ /\ keys'[k].user = keys[k].user
                 /\ keys'[k].principal = keys[k].principal
                 /\ keys[k].user # Nobody => keys'[k].org = keys[k].org]_vars
    BY <1>1
  <1> QED BY Invariance, <1>2, PTL DEF Spec, NoTakeover

(* A key that would be accepted after a step that leaves its row alone, but  *)
(* for the counters, was accepted before it.                                 *)
LEMMA AcceptedBefore ==
    ASSUME OwnerInv, NEW k \in KeyIds, keys'[k].state = "live", keys'[k].status = "active",
           keys'[k].expiresAt # Never => keys'[k].expiresAt > now',
           SameIdentity(keys'[k], keys[k]), now \in Nat, now' \in Nat, now <= now'
    PROVE  Accepts(k)
  <1>1. k \in Live /\ keys[k].status = "active"
    BY DEF Live, SameIdentity
  <1>2. \A j \in KeysBy(keys[k].secret) : k <= j
    BY <1>1, Constants DEF KeysBy, OwnerInv, OneKeyPerPrefix, KeyIds, Live
  <1>3. keys[k].expiresAt \in Nat /\ keys'[k].expiresAt = keys[k].expiresAt
    BY DEF OwnerInv, KeyTypeOK, Key, SameIdentity
  <1>4. keys[k].expiresAt # Never => keys[k].expiresAt > now
    BY <1>3
  <1> QED BY <1>1, <1>2, <1>4 DEF Accepts

\* The key that makes the secret s accepted in a step.
Revives(k, s) ==
    /\ k \in KeyIds
    /\ keys'[k].secret = s /\ keys'[k].state = "live" /\ keys'[k].status = "active"
    /\ ~SameIdentity(keys'[k], keys[k])
    /\ ~Verified(k)

BackByHand(s) == HandedIn(s) /\ \A l \in Live : keys[l].secret = s => UpsertedByOwner(l)

LEMMA RevivedByUser ==
    ASSUME OwnerInv, NEW s \in given, NEW k, Revives(k, s), UserKeyStep
    PROVE  BackByHand(s)
  <1> USE DEF OwnerInv
  <1> PICK u \in Users, o \in Orgs, t \in Secrets, e \in Expiries :
        \/ \E L \in LimitChoices : t \notin given /\ IssueApiKey(u, o, t, e, L)
        \/ \E id \in KeyIds \cup {0}, st \in {"active", "revoked"} :
              UpsertApiKey(u, o, id, t, e, st)
    BY DEF UserKeyStep
  <1>1. k \in KeyIds /\ keys'[k] # keys[k] /\ keys[k] \in Key
    BY DEF Revives, SameIdentity, KeyTypeOK
  <1>2. ASSUME NEW L \in LimitChoices, t \notin given, IssueApiKey(u, o, t, e, L)
        PROVE  FALSE
    <2> DEFINE row == [Issued(t, e, L) EXCEPT !.org = o, !.user = u]
    <2>1. PICK j \in FreshKeys : keys' = [keys EXCEPT ![j] = row]
      BY <1>2 DEF IssueApiKey
    <2>3. row.secret = t
      BY DEF Issued, NoKey
    <2> HIDE DEF row
    <2>4. keys'[k] = row
      BY <1>1, <2>1 DEF KeyTypeOK
    <2> QED BY <1>2, <2>3, <2>4 DEF Revives
  <1>3. ASSUME NEW id \in KeyIds \cup {0}, NEW st \in {"active", "revoked"},
               UpsertApiKey(u, o, id, t, e, st)
        PROVE  BackByHand(s)
    <2>1. CASE \E j \in Existing(id, t) :
                /\ keys[j].org = o /\ keys[j].user = u
                /\ PrefixAvailable(t, j)
                /\ keys' = [keys EXCEPT ![j].secret = t, ![j].expiresAt = e, ![j].status = st]
      <3> PICK j \in Existing(id, t) :
                /\ keys[j].org = o /\ keys[j].user = u
                /\ PrefixAvailable(t, j)
                /\ keys' = [keys EXCEPT ![j].secret = t, ![j].expiresAt = e, ![j].status = st]
        BY <2>1
      <3>1. k = j /\ keys'[k].secret = t /\ keys'[k].status = st
        BY <1>1 DEF KeyTypeOK, Key
      <3>2. t = s /\ st = "active"
        BY <3>1 DEF Revives
      <3>3. UpsertedByUser(u, o, s)
        BY <1>3, <3>2 DEF UpsertedByUser
      <3>4. \A l \in Live : keys[l].secret = s => l = j
        BY <3>2, FirstIsAll DEF PrefixAvailable, KeysBy
      <3> QED BY <3>3, <3>4 DEF BackByHand, HandedIn, UpsertedByOwner
    <2>2. CASE Existing(id, t) = {} /\ \E j \in FreshKeys :
                keys' = [keys EXCEPT ![j] =
                   [Issued(t, e, {}) EXCEPT !.org = o, !.user = u, !.status = st]]
      <3> DEFINE row == [Issued(t, e, {}) EXCEPT !.org = o, !.user = u, !.status = st]
      <3>1. PICK j \in FreshKeys : keys' = [keys EXCEPT ![j] = row]
        BY <2>2
      <3>2. row.secret = t /\ row.status = st
        BY DEF Issued, NoKey
      <3> HIDE DEF row
      <3>3. keys'[k] = row
        BY <1>1, <3>1 DEF KeyTypeOK
      <3>4. t = s /\ st = "active"
        BY <3>2, <3>3 DEF Revives
      <3>5. UpsertedByUser(u, o, s)
        BY <1>3, <3>4 DEF UpsertedByUser
      <3>6. KeysBy(s) = {}
        BY <2>2, <3>4, FirstIsAll DEF Existing
      <3> QED BY <3>5, <3>6 DEF BackByHand, HandedIn, KeysBy
    <2> QED BY <1>3, <2>1, <2>2 DEF UpsertApiKey
  <1> QED BY <1>2, <1>3

LEMMA RevivedByPrincipal ==
    ASSUME OwnerInv, NEW s \in given, NEW k, Revives(k, s), PrincipalStep
    PROVE  BackByHand(s)
  <1> USE DEF OwnerInv
  <1> PICK p \in Principals :
        \/ \E o \in Orgs \cup {NoOrg} :
              \/ SetServicePrincipalDetails(p, o)
              \/ \E active \in BOOLEAN, by \in Users \cup {Nobody} :
                    UpsertServicePrincipal(p, o, active, by)
        \/ \E active \in BOOLEAN : SetServicePrincipalStatus(p, active)
        \/ \E t \in Secrets, e \in Expiries :
              \/ \E L \in LimitChoices : t \notin given /\ IssueServiceOwnedApiKey(p, t, e, L)
              \/ \E id \in KeyIds \cup {0}, st \in {"active", "revoked"} :
                    UpsertServiceOwnedApiKey(p, id, t, e, st)
    BY DEF PrincipalStep
  <1>1. k \in KeyIds /\ keys'[k] # keys[k] /\ keys[k] \in Key
    BY DEF Revives, SameIdentity, KeyTypeOK
  <1>2. PICK t \in Secrets, e \in Expiries :
          \/ \E L \in LimitChoices : t \notin given /\ IssueServiceOwnedApiKey(p, t, e, L)
          \/ \E id \in KeyIds \cup {0}, st \in {"active", "revoked"} :
                UpsertServiceOwnedApiKey(p, id, t, e, st)
    BY <1>1 DEF SetServicePrincipalDetails, UpsertServicePrincipal, SetServicePrincipalStatus
  <1>3. ASSUME NEW L \in LimitChoices, t \notin given, IssueServiceOwnedApiKey(p, t, e, L)
        PROVE  FALSE
    <2> DEFINE row == [Issued(t, e, L) EXCEPT !.org = principals[p].org, !.principal = p]
    <2>1. PICK j \in FreshKeys : keys' = [keys EXCEPT ![j] = row]
      BY <1>3 DEF IssueServiceOwnedApiKey
    <2>2. row.secret = t
      BY DEF Issued, NoKey
    <2> HIDE DEF row
    <2>3. keys'[k] = row
      BY <1>1, <2>1 DEF KeyTypeOK
    <2> QED BY <1>3, <2>2, <2>3 DEF Revives
  <1>4. ASSUME NEW id \in KeyIds \cup {0}, NEW st \in {"active", "revoked"},
               UpsertServiceOwnedApiKey(p, id, t, e, st)
        PROVE  BackByHand(s)
    <2>1. CASE \E j \in Existing(id, t) :
                /\ keys[j].principal = p
                /\ PrefixAvailable(t, j)
                /\ keys' = [keys EXCEPT ![j].org = principals[p].org, ![j].secret = t,
                                        ![j].expiresAt = e, ![j].status = st]
      <3> PICK j \in Existing(id, t) :
                /\ keys[j].principal = p
                /\ PrefixAvailable(t, j)
                /\ keys' = [keys EXCEPT ![j].org = principals[p].org, ![j].secret = t,
                                        ![j].expiresAt = e, ![j].status = st]
        BY <2>1
      <3>1. k = j /\ keys'[k].secret = t /\ keys'[k].status = st
        BY <1>1 DEF KeyTypeOK, Key
      <3>2. t = s /\ st = "active"
        BY <3>1 DEF Revives
      <3>3. UpsertedByPrincipal(p, s)
        BY <1>4, <3>2 DEF UpsertedByPrincipal
      <3>4. \A l \in Live : keys[l].secret = s => l = j
        BY <3>2, FirstIsAll DEF PrefixAvailable, KeysBy
      <3> QED BY <3>3, <3>4 DEF BackByHand, HandedIn, UpsertedByOwner
    <2>2. CASE Existing(id, t) = {} /\ \E j \in FreshKeys :
                keys' = [keys EXCEPT ![j] =
                   [Issued(t, e, {}) EXCEPT !.org = principals[p].org, !.principal = p,
                                            !.status = st]]
      <3> DEFINE row == [Issued(t, e, {}) EXCEPT !.org = principals[p].org, !.principal = p,
                                                 !.status = st]
      <3>1. PICK j \in FreshKeys : keys' = [keys EXCEPT ![j] = row]
        BY <2>2
      <3>2. row.secret = t /\ row.status = st
        BY DEF Issued, NoKey
      <3> HIDE DEF row
      <3>3. keys'[k] = row
        BY <1>1, <3>1 DEF KeyTypeOK
      <3>4. t = s /\ st = "active"
        BY <3>2, <3>3 DEF Revives
      <3>5. UpsertedByPrincipal(p, s)
        BY <1>4, <3>4 DEF UpsertedByPrincipal
      <3>6. KeysBy(s) = {}
        BY <2>2, <3>4, FirstIsAll DEF Existing
      <3> QED BY <3>5, <3>6 DEF BackByHand, HandedIn, KeysBy
    <2> QED BY <1>4, <2>1, <2>2 DEF UpsertServiceOwnedApiKey
  <1> QED BY <1>2, <1>3, <1>4

LEMMA RevivedByKeyStep ==
    ASSUME OwnerInv, NEW s \in given, NEW k, Revives(k, s), KeyStep
    PROVE  BackByHand(s)
  <1> USE DEF OwnerInv
  <1>1. k \in KeyIds /\ keys'[k] # keys[k] /\ keys[k] \in Key
    BY DEF Revives, SameIdentity, KeyTypeOK
  <1>2. ASSUME NEW j \in KeyIds, RevokeApiKey(j) PROVE FALSE
    <2>1. k = j /\ keys'[k].status = "revoked"
      BY <1>1, <1>2 DEF RevokeApiKey, KeyTypeOK, Key
    <2> QED BY <2>1 DEF Revives
  <1>3. ASSUME NEW j \in KeyIds, NEW t \in Secrets, RotateApiKey(j, t) PROVE BackByHand(s)
    <2>1. k = j /\ keys'[k] = [keys[k] EXCEPT !.secret = t]
      BY <1>1, <1>3 DEF RotateApiKey, KeyTypeOK
    <2>2. t = s
      BY <1>1, <2>1 DEF Revives, Key
    <2>3. keys[k].secret # s
      BY <1>1, <2>1, <2>2 DEF Key
    <2>4. KeysBy(s) \subseteq {k}
      BY <1>3, <2>1, <2>2, FirstIsAll DEF RotateApiKey, PrefixAvailable
    <2>5. \A l \in Live : keys[l].secret = s => l = k
      BY <2>4 DEF KeysBy
    <2> QED BY <1>3, <2>2, <2>3, <2>5 DEF BackByHand, HandedIn
  <1>4. ASSUME NEW t \in given, VerifyApiKey(t) PROVE FALSE
    <2> PICK j \in KeyIds :
          /\ Accepts(j) /\ RateAllows(keys[j]) /\ QuotaAllows(keys[j])
          /\ keys' = [keys EXCEPT ![j] = Meter(CountRequest(keys[j]))]
          /\ uses' = IF keys[j].limits = {} THEN uses ELSE [uses EXCEPT ![j] = Used(j)]
          /\ UNCHANGED <<now, users, orgs, principals, given>>
      BY <1>4 DEF VerifyApiKey
    <2>1. k = j
      BY <1>1 DEF KeyTypeOK
    <2>2. Verified(k)
      BY <2>1 DEF Verified, KeyTypeOK
    <2> QED BY <2>2 DEF Revives
  <1> QED BY <1>2, <1>3, <1>4 DEF KeyStep

LEMMA SecretsStep ==
    ASSUME IInv, [Next]_vars, NEW s \in given, AcceptedSecret(s)', ~AcceptedSecret(s)
    PROVE  BackByHand(s)
  <1>1. OwnerInv /\ KeyTypeOK /\ KeyTypeOK'
    BY StepKinds DEF IInv, OwnerInv
  <1>2. PICK k \in KeyIds : /\ keys'[k].secret = s /\ keys'[k].state = "live"
                            /\ keys'[k].status = "active"
                            /\ keys'[k].expiresAt # Never => keys'[k].expiresAt > now'
    BY DEF AcceptedSecret, Accepts, Live
  <1>3. KeysStep /\ AnyStep(k) /\ now <= now' /\ now' \in Nat /\ now \in Nat
    BY <1>1, StepKinds, ClockStep DEF KeysStep
  <1>4. ~SameIdentity(keys'[k], keys[k])
    BY <1>1, <1>2, <1>3, AcceptedBefore DEF AcceptedSecret, SameIdentity
  <1>5. ~Verified(k)
    BY <1>1, <1>4, VerifiedRow
  <1>6. Revives(k, s)
    BY <1>2, <1>4, <1>5 DEF Revives
  <1>7. keys'[k] # keys[k]
    BY <1>4 DEF SameIdentity
  <1>8. CASE Tick \/ UNCHANGED vars
    BY <1>7, <1>8 DEF Tick, vars
  <1>9. CASE \E u \in Users, O \in SUBSET orgs : DeleteUser(u, O)
    <2>1. keys'[k] = [NoKey EXCEPT !.state = "gone"]
      BY <1>7, <1>9 DEF DeleteUser
    <2> QED BY <1>2, <2>1 DEF NoKey
  <1> QED BY <1>1, <1>6, <1>8, <1>9, RevivedByUser, RevivedByPrincipal, RevivedByKeyStep DEF Next

(* A secret that stopped being accepted, by revocation, rotation, expiry   *)
(* or deletion, is accepted again only when an upsert or a rotation hands  *)
(* it in, and while a key still holds it only by an upsert of its owner.   *)
THEOREM EndedUntilHandedIn == Spec => EndedSecretsReturnByHand
  <1>1. IInv /\ [Next]_vars =>
          [\A s \in given : AcceptedSecret(s)' =>
             \/ AcceptedSecret(s)
             \/ /\ HandedIn(s)
                /\ \A k \in Live : keys[k].secret = s => UpsertedByOwner(k)]_vars
    BY SecretsStep DEF BackByHand
  <1> QED BY Invariance, <1>1, PTL DEF Spec, EndedSecretsReturnByHand
=============================================================================
