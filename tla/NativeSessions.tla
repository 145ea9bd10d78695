--------------------------- MODULE NativeSessions ---------------------------
(***************************************************************************)
(* The session store of the native runtime: the tables authSessions and    *)
(* authRefreshTokens of the Convex component, the mutations that write     *)
(* them, and the actions that call those mutations.                        *)
(*                                                                         *)
(* A Convex mutation or query is one serializable transaction, so it is    *)
(* one step here.  A Convex action is not: every ctx.runQuery and          *)
(* ctx.runMutation it makes is a transaction of its own, other calls run   *)
(* in between, and the isolate may stop between any two of them.  An       *)
(* action in progress is an entry of "calls" that holds what it has read.  *)
(*                                                                         *)
(* Session ids are UUIDs picked by the caller; row n of the table is the   *)
(* n-th row inserted, which is also its place in the by_user index.        *)
(***************************************************************************)
EXTENDS Naturals, FiniteSets

CONSTANTS
    Users,               \* ids of rows of the table users
    Providers,           \* identity providers, one of them "password"
    Nobody,              \* the user of a row not inserted yet
    Calls,               \* actions that may be in progress at once
    MaxSessions,         \* bound: rows ever inserted into authSessions
    MaxTokens,           \* bound: rows ever inserted into authRefreshTokens
    Horizon,             \* bound: last value of the clock
    SessionTtls,         \* session lifetimes a sign-in can ask for
    RotatedTtl,          \* DEFAULT_SESSION_TTL_MS of updateSession
    RefreshTtl,          \* DEFAULT_REFRESH_TOKEN_TTL_MS
    MaxSessionsPerUser,  \* page read by revokeSessionsForUser
    MaxTokensPerSession, \* MAX_REFRESH_TOKENS_PER_SESSION
    MaxTokensPerUser,    \* MAX_REFRESH_TOKENS_PER_USER
    ResetRevokeBatch,    \* page read by resetPassword
    CleanupBatch,        \* CLEANUP_BATCH_SIZE
    RevokeOnReset,       \* option revokeSessionsOnPasswordReset
    HostCalls            \* the host also calls mutations that no action uses

SessionIds == 1 .. MaxSessions
TokenIds == 1 .. MaxTokens

ASSUME ConstantsAssumption ==
    /\ Nobody \notin Users
    /\ "password" \in Providers
    /\ MaxSessions \in Nat \ {0}
    /\ MaxTokens \in Nat \ {0}
    /\ Horizon \in Nat
    /\ SessionTtls \in SUBSET (Nat \ {0})
    /\ RotatedTtl \in Nat
    /\ RefreshTtl \in Nat
    /\ MaxSessionsPerUser \in Nat
    /\ MaxTokensPerSession \in Nat
    /\ MaxTokensPerUser \in Nat
    /\ ResetRevokeBatch \in Nat
    /\ CleanupBatch \in Nat
    /\ RevokeOnReset \in BOOLEAN
    /\ HostCalls \in BOOLEAN

VARIABLES
    now,          \* Date.now()
    userState,    \* the user's row
    identities,   \* the providers of the user's rows of auth_identities
    sessions,     \* authSessions
    nextSession,  \* next session id
    refresh,      \* authRefreshTokens
    nextToken,    \* next refresh token
    calls,        \* actions in progress
    parent,       \* history: the session a session was rotated from, or 0
    family,       \* history: the sign-in a session descends from
    resetMark     \* history: nextSession at the user's last password reset

users == <<userState, identities>>
tables == <<users, sessions, nextSession, refresh, nextToken>>
history == <<parent, family, resetMark>>
vars == <<now, tables, calls, history>>

UserStates == {"absent", "registered", "deleted"}

\* A deleted row keeps its other fields: the JWT the client holds carries them.
RowStates == {"none", "active", "revoked", "deleted"}

Session == [state : RowStates, user : Users \cup {Nobody}, expiresAt : Nat]

RefreshToken ==
    [state : RowStates, session : SessionIds \cup {0},
     user : Users \cup {Nobody}, expiresAt : Nat]

Ops == {"idle", "signIn", "updateRead", "updateUser", "updateRotate",
        "signOut", "signOutTokens", "revokeOne", "revokeOthers"}

Call == [op : Ops, user : Users \cup {Nobody}, session : SessionIds \cup {0},
         token : TokenIds \cup {0}, at : Nat]

Idle == [op |-> "idle", user |-> Nobody, session |-> 0, token |-> 0, at |-> 0]

TypeOK ==
    /\ now \in 0 .. Horizon
    /\ userState \in [Users -> UserStates]
    /\ identities \in [Users -> SUBSET Providers]
    /\ sessions \in [SessionIds -> Session]
    /\ nextSession \in 1 .. MaxSessions + 1
    /\ refresh \in [TokenIds -> RefreshToken]
    /\ nextToken \in 1 .. MaxTokens + 1
    /\ calls \in [Calls -> Call]
    /\ parent \in [SessionIds -> SessionIds \cup {0}]
    /\ family \in [SessionIds -> SessionIds \cup {0}]
    /\ resetMark \in [Users -> 0 .. MaxSessions + 1]

Init ==
    /\ now = 0
    /\ userState = [u \in Users |-> "absent"]
    /\ identities = [u \in Users |-> {}]
    /\ sessions = [s \in SessionIds |->
                     [state |-> "none", user |-> Nobody, expiresAt |-> 0]]
    /\ nextSession = 1
    /\ refresh = [t \in TokenIds |->
                    [state |-> "none", session |-> 0, user |-> Nobody, expiresAt |-> 0]]
    /\ nextToken = 1
    /\ calls = [c \in Calls |-> Idle]
    /\ parent = [s \in SessionIds |-> 0]
    /\ family = [s \in SessionIds |-> 0]
    /\ resetMark = [u \in Users |-> 0]

-----------------------------------------------------------------------------
(* Reads                                                                   *)

Registered(u) == userState[u] = "registered"

\* What resetPassword and rotation ask of a user.
HasPasswordIdentity(u) == Registered(u) /\ "password" \in identities[u]

SessionExists(s) == sessions[s].state \in {"active", "revoked"}

TokenExists(t) == refresh[t].state \in {"active", "revoked"}

\* A row that rotation and the session list take for a session.
Usable(s) == sessions[s].state = "active" /\ sessions[s].expiresAt > now

RowsOf(u) == {s \in SessionIds : SessionExists(s) /\ sessions[s].user = u}

\* getPage on the by_user index: the oldest rows, whatever their state.
OldestRows(u, limit) ==
    {s \in RowsOf(u) : Cardinality({r \in RowsOf(u) : r < s}) < limit}

\* What revoking the tokens of a session or of a user finds in its page.
LiveTokensOf(T, limit) ==
    {t \in T : /\ refresh[t].state = "active"
               /\ refresh[t].expiresAt > now
               /\ Cardinality({v \in T : TokenExists(v) /\ v < t}) < limit}

\* The JWT the client holds still verifies.  It is minted after expiresAt is
\* computed and counts whole seconds, so it may outlive the row by an instant.
TokenVerifies(s) == s < nextSession /\ now <= sessions[s].expiresAt

\* resolveSessionUser: who an access token speaks for.  revokedAt is not read.
Authorized(s) ==
    /\ TokenVerifies(s)
    /\ SessionExists(s)
    /\ sessions[s].expiresAt >= now
    /\ Registered(sessions[s].user)

-----------------------------------------------------------------------------
(* Writes                                                                  *)

RevokeRows(S) ==
    [s \in SessionIds |->
        IF s \in S THEN [sessions[s] EXCEPT !.state = "revoked"] ELSE sessions[s]]

DeleteRows(S) ==
    [s \in SessionIds |->
        IF s \in S THEN [sessions[s] EXCEPT !.state = "deleted"] ELSE sessions[s]]

RevokeTokens(T) ==
    [t \in TokenIds |->
        IF t \in T THEN [refresh[t] EXCEPT !.state = "revoked"] ELSE refresh[t]]

DeleteTokens(T) ==
    [t \in TokenIds |->
        IF t \in T THEN [refresh[t] EXCEPT !.state = "deleted"] ELSE refresh[t]]

\* Mutant: rotation forgets to revoke the session it replaces.
InsertSessionKeepingOld(u, expiresAt, oldSession) ==
    /\ nextSession \in SessionIds
    /\ sessions' = [sessions EXCEPT ![nextSession] =
                      [state |-> "active", user |-> u, expiresAt |-> expiresAt]]
    /\ parent' = [parent EXCEPT ![nextSession] = oldSession]
    /\ family' = [family EXCEPT ![nextSession] =
                    IF oldSession = 0 THEN nextSession ELSE family[oldSession]]
    /\ nextSession' = nextSession + 1

\* The insert of both rows, after the rows of "old" (rotation) were revoked.
InsertSession(u, expiresAt, oldSession) ==
    /\ nextSession \in SessionIds
    /\ sessions' = [RevokeRows({oldSession}) EXCEPT ![nextSession] =
                      [state |-> "active", user |-> u, expiresAt |-> expiresAt]]
    /\ parent' = [parent EXCEPT ![nextSession] = oldSession]
    /\ family' = [family EXCEPT ![nextSession] =
                    IF oldSession = 0 THEN nextSession ELSE family[oldSession]]
    /\ nextSession' = nextSession + 1

InsertRefreshToken(s, u, expiresAt, oldToken) ==
    /\ nextToken \in TokenIds
    /\ refresh' = [RevokeTokens({oldToken}) EXCEPT ![nextToken] =
                     [state |-> "active", session |-> s, user |-> u, expiresAt |-> expiresAt]]
    /\ nextToken' = nextToken + 1

\* createSessionAndRefreshToken: nothing is read, the user may be gone.  The
\* expiry counts from "at", when the action looked at the clock.
CreateSessionAndRefreshToken(u, at) ==
    /\ \E ttl \in SessionTtls : InsertSession(u, at + ttl, 0)
    /\ InsertRefreshToken(nextSession, u, at + RefreshTtl, 0)

Start(c, call) == calls[c] = Idle /\ calls' = [calls EXCEPT ![c] = call]

Return(c) == calls' = [calls EXCEPT ![c] = Idle]

-----------------------------------------------------------------------------
(* Users                                                                   *)

\* provisionFromIdentity with an identity not seen before: sign-up, or the
\* first sign-in by magic link, OTP or OAuth, which links to a user of that
\* email if there is one.  The first session is inserted by the same mutation.
Provision(u, provider, open) ==
    /\ userState[u] # "deleted"
    /\ provider \notin identities[u]
    /\ userState' = [userState EXCEPT ![u] = "registered"]
    /\ identities' = [identities EXCEPT ![u] = @ \cup {provider}]
    /\ IF open THEN \E at \in 0 .. now : CreateSessionAndRefreshToken(u, at)
               ELSE UNCHANGED <<sessions, nextSession, refresh, nextToken, parent, family>>
    /\ UNCHANGED <<now, calls, resetMark>>

\* The mutation resetPassword of identity.ts, with a code that is still good.
ResetPassword(u) ==
    /\ HasPasswordIdentity(u)
    /\ sessions' = IF RevokeOnReset
                   THEN RevokeRows({s \in OldestRows(u, ResetRevokeBatch) : Usable(s)})
                   ELSE sessions
    /\ resetMark' = [resetMark EXCEPT ![u] = nextSession]
    /\ UNCHANGED <<now, users, nextSession, refresh, nextToken, calls, parent, family>>

DeleteUser(u) ==
    /\ Registered(u)
    /\ userState' = [userState EXCEPT ![u] = "deleted"]
    /\ identities' = [identities EXCEPT ![u] = {}]
    /\ sessions' = DeleteRows(RowsOf(u))
    /\ refresh' = DeleteTokens({t \in TokenIds : TokenExists(t) /\ refresh[t].user = u})
    /\ UNCHANGED <<now, nextSession, nextToken, calls, history>>

-----------------------------------------------------------------------------
(* signIn: the user is read (and the password verified, or the OAuth        *)
(* identity provisioned), then another mutation creates the session         *)

SignIn(c, u) ==
    /\ Registered(u)
    /\ Start(c, [Idle EXCEPT !.op = "signIn", !.user = u, !.at = now])
    /\ UNCHANGED <<now, tables, history>>

IssueSession(c) ==
    /\ calls[c].op = "signIn"
    /\ \E at \in calls[c].at .. now : CreateSessionAndRefreshToken(calls[c].user, at)
    /\ Return(c)
    /\ UNCHANGED <<now, users, resetMark>>

-----------------------------------------------------------------------------
(* updateSession: three queries against the time it started, then the       *)
(* mutation rotateSession, which checks again against its own               *)

UpdateSession(c, t) ==
    /\ TokenExists(t)
    /\ Start(c, [Idle EXCEPT !.op = "updateRead", !.token = t, !.at = now])
    /\ UNCHANGED <<now, tables, history>>

ReadSession(c) ==
    /\ calls[c].op = "updateRead"
    /\ LET s == refresh[calls[c].token].session
       IN IF sessions[s].state = "active" /\ sessions[s].expiresAt > calls[c].at
          THEN calls' = [calls EXCEPT ![c].op = "updateUser"]
          ELSE Return(c)
    /\ UNCHANGED <<now, tables, history>>

ReadUser(c) ==
    /\ calls[c].op = "updateUser"
    /\ IF HasPasswordIdentity(refresh[calls[c].token].user)
       THEN calls' = [calls EXCEPT ![c].op = "updateRotate"]
       ELSE Return(c)
    /\ UNCHANGED <<now, tables, history>>

\* Mutants: rotateSession trusts the checks of the queries before it, or asks
\* only whether the token itself is good.
RotatableAsRead(t) == refresh[t].expiresAt > now /\ HasPasswordIdentity(refresh[t].user)

RotatableByToken(t) ==
    /\ refresh[t].state = "active"
    /\ refresh[t].expiresAt > now
    /\ HasPasswordIdentity(refresh[t].user)

\* What rotateSession requires of the token, its session and its user.
Rotatable(t) ==
    /\ refresh[t].state = "active"
    /\ refresh[t].expiresAt > now
    /\ Usable(refresh[t].session)
    /\ HasPasswordIdentity(refresh[t].user)

Rotate(t, at) ==
    /\ InsertSession(refresh[t].user, at + RotatedTtl, refresh[t].session)
    /\ InsertRefreshToken(nextSession, refresh[t].user, at + RefreshTtl, t)

RotateSession(c) ==
    /\ calls[c].op = "updateRotate"
    /\ IF Rotatable(calls[c].token)
       THEN Rotate(calls[c].token, calls[c].at)
       ELSE UNCHANGED <<sessions, nextSession, refresh, nextToken, parent, family>>
    /\ Return(c)
    /\ UNCHANGED <<now, users, resetMark>>

-----------------------------------------------------------------------------
(* signOut, revokeSession and revokeOtherSessions                          *)

RevokeIfExists(s) ==
    sessions' = IF SessionExists(s) THEN RevokeRows({s}) ELSE sessions

\* The two mutations of signOut; the second revokes the tokens of the session.
SignOut(c, s) ==
    /\ TokenVerifies(s)
    /\ Start(c, [Idle EXCEPT !.op = "signOutTokens", !.session = s])
    /\ RevokeIfExists(s)
    /\ UNCHANGED <<now, users, nextSession, refresh, nextToken, history>>

SignOutTokens(c) ==
    /\ calls[c].op = "signOutTokens"
    /\ refresh' = RevokeTokens(LiveTokensOf(
                     {t \in TokenIds : refresh[t].session = calls[c].session},
                     MaxTokensPerSession))
    /\ Return(c)
    /\ UNCHANGED <<now, users, sessions, nextSession, nextToken, history>>

\* revokeSession reads the row by its token and stops if it is revoked.
RevokeSession(c, s) ==
    /\ sessions[s].state = "active"
    /\ Start(c, [Idle EXCEPT !.op = "revokeOne", !.session = s])
    /\ UNCHANGED <<now, tables, history>>

RevokeOne(c) ==
    /\ calls[c].op = "revokeOne"
    /\ RevokeIfExists(calls[c].session)
    /\ Return(c)
    /\ UNCHANGED <<now, users, nextSession, refresh, nextToken, history>>

RevokeOtherSessions(c, s) ==
    /\ Authorized(s)
    /\ Start(c, [Idle EXCEPT !.op = "revokeOthers", !.user = sessions[s].user, !.session = s])
    /\ UNCHANGED <<now, tables, history>>

RevokeOthers(c) ==
    /\ calls[c].op = "revokeOthers"
    /\ sessions' = RevokeRows({s \in OldestRows(calls[c].user, MaxSessionsPerUser) :
                                 Usable(s) /\ s # calls[c].session})
    /\ Return(c)
    /\ UNCHANGED <<now, users, nextSession, refresh, nextToken, history>>

-----------------------------------------------------------------------------
(* Mutations without a caller in the runtime, for the host to schedule      *)

\* by_expires_at order: the rows of S that take(CLEANUP_BATCH_SIZE) returns.
FirstExpired(S, row) ==
    {i \in S : Cardinality({j \in S : \/ row[j].expiresAt < row[i].expiresAt
                                      \/ row[j].expiresAt = row[i].expiresAt /\ j < i})
                 < CleanupBatch}

CleanupExpiredSessions(before) ==
    /\ sessions' = DeleteRows(FirstExpired(
                     {s \in SessionIds : SessionExists(s) /\ sessions[s].expiresAt < before},
                     sessions))
    /\ UNCHANGED <<now, users, nextSession, refresh, nextToken, calls, history>>

CleanupExpiredRefreshTokens(before) ==
    /\ refresh' = DeleteTokens(FirstExpired(
                    {t \in TokenIds : TokenExists(t) /\ refresh[t].expiresAt < before},
                    refresh))
    /\ UNCHANGED <<now, users, sessions, nextSession, nextToken, calls, history>>

CreateSession(u) ==
    /\ HostCalls
    /\ Registered(u)
    /\ \E ttl \in SessionTtls : InsertSession(u, now + ttl, 0)
    /\ UNCHANGED <<now, users, refresh, nextToken, calls, resetMark>>

CreateRefreshToken(s) ==
    /\ HostCalls
    /\ SessionExists(s)
    /\ InsertRefreshToken(s, sessions[s].user, now + RefreshTtl, 0)
    /\ UNCHANGED <<now, users, sessions, nextSession, calls, history>>

ConsumeRefreshToken(t) ==
    /\ HostCalls
    /\ refresh[t].state = "active"
    /\ refresh[t].expiresAt > now
    /\ refresh' = RevokeTokens({t})
    /\ UNCHANGED <<now, users, sessions, nextSession, nextToken, calls, history>>

RevokeRefreshTokensForUser(u) ==
    /\ HostCalls
    /\ refresh' = RevokeTokens(LiveTokensOf(
                     {t \in TokenIds : refresh[t].user = u}, MaxTokensPerUser))
    /\ UNCHANGED <<now, users, sessions, nextSession, nextToken, calls, history>>

-----------------------------------------------------------------------------
Tick ==
    /\ now < Horizon
    /\ now' = now + 1
    /\ UNCHANGED <<tables, calls, history>>

\* The action fails, or its isolate stops: what it has committed stays.
Crash(c) ==
    /\ calls[c] # Idle
    /\ Return(c)
    /\ UNCHANGED <<now, tables, history>>

UserStep ==
    \E u \in Users :
        \/ \E provider \in Providers, open \in BOOLEAN :
              Provision(u, provider, open)
        \/ ResetPassword(u)
        \/ DeleteUser(u)
        \/ CreateSession(u)
        \/ RevokeRefreshTokensForUser(u)

CallStep ==
    \E c \in Calls :
        \/ \E u \in Users : SignIn(c, u)
        \/ IssueSession(c)
        \/ \E t \in TokenIds : UpdateSession(c, t)
        \/ ReadSession(c)
        \/ ReadUser(c)
        \/ RotateSession(c)
        \/ \E s \in SessionIds : SignOut(c, s)
        \/ SignOutTokens(c)
        \/ \E s \in SessionIds : RevokeSession(c, s)
        \/ RevokeOne(c)
        \/ \E s \in SessionIds : RevokeOtherSessions(c, s)
        \/ RevokeOthers(c)
        \/ Crash(c)

StoreStep ==
    \/ \E before \in 0 .. now : CleanupExpiredSessions(before)
    \/ \E before \in 0 .. now : CleanupExpiredRefreshTokens(before)
    \/ \E s \in SessionIds : CreateRefreshToken(s)
    \/ \E t \in TokenIds : ConsumeRefreshToken(t)

Next == Tick \/ UserStep \/ CallStep \/ StoreStep

Spec == Init /\ [][Next]_vars

-----------------------------------------------------------------------------
(* Properties                                                              *)

Opened(s) == s < nextSession

FamilyUsable(f) == \E s \in SessionIds : family[s] = f /\ Usable(s)

(* A session is rotated at most once: two updateSession calls that present *)
(* the same refresh token, or one call sent again, do not both get a       *)
(* successor.                                                              *)
OneSuccessor ==
    \A r, s \in SessionIds : parent[r] # 0 /\ parent[r] = parent[s] => r = s

(* Of the sessions that descend from one sign-in at most one is open, so a *)
(* rotation hands the session over and never duplicates it.                *)
OneOpenPerFamily ==
    \A r, s \in SessionIds :
        /\ sessions[r].state = "active"
        /\ sessions[s].state = "active"
        /\ family[r] = family[s]
        => r = s

(* A refresh token that rotateSession would accept is the only one of its  *)
(* family, unless the host itself adds tokens to a session.                *)
OneRotatablePerFamily ==
    ~HostCalls =>
        \A t, v \in TokenIds :
            /\ Rotatable(t)
            /\ Rotatable(v)
            /\ family[refresh[t].session] = family[refresh[v].session]
            => t = v

(* After a password reset no session of an older sign-in is usable, and no *)
(* updateSession that was under way rotates one into a new session.  This  *)
(* needs the option on and no more rows than the reset reads.              *)
ResetEndsOlderFamilies ==
    \A s \in SessionIds :
        Usable(s) => family[s] >= resetMark[sessions[s].user]

(* Once a sign-in has no usable session left (sign-out, revocation, reset, *)
(* expiry, deletion) nothing makes one usable again: only a new sign-in    *)
(* does.                                                                   *)
NoResurrection ==
    [][\A f \in SessionIds : Opened(f) /\ ~FamilyUsable(f) => ~FamilyUsable(f)']_vars

(* No rotation serves a user who is gone: a session that a slow sign-in    *)
(* creates after deleteUser is never renewed.                              *)
DeletedUsersAreNotRenewed ==
    [][\A s \in SessionIds :
          parent[s] # parent'[s] => Registered(sessions'[s].user)]_vars

-----------------------------------------------------------------------------
(* The store implements SessionFamilies                                    *)

FamilyHead ==
    [f \in SessionIds |->
        IF ~Opened(f) \/ family[f] # f THEN 0
        ELSE IF FamilyUsable(f)
             THEN CHOOSE s \in SessionIds : family[s] = f /\ Usable(s)
             ELSE MaxSessions + 1]

Abstract == INSTANCE SessionFamilies WITH head <- FamilyHead

(* Every step of the store opens a family, moves its head to a session     *)
(* that was never a head, closes families for good, or is invisible.       *)
ImplementsFamilies == Abstract!FamiliesSpec

=============================================================================
