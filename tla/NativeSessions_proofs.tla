----------------------- MODULE NativeSessions_proofs ------------------------
(***************************************************************************)
(* Proofs about the session store, for any number of users, of calls in    *)
(* progress and of rows, and whatever the lifetimes and page sizes are.    *)
(***************************************************************************)
EXTENDS NativeSessions, FiniteSetTheorems, TLAPS

-----------------------------------------------------------------------------
(* The inductive invariant                                                 *)

\* Rows are inserted in order; a family is named by its first session.
RowsInOrder ==
    \A s \in SessionIds :
        /\ s < nextSession => /\ sessions[s].state # "none"
                              /\ sessions[s].user \in Users
                              /\ family[s] \in SessionIds
                              /\ family[s] <= s
        /\ s >= nextSession => /\ sessions[s].state = "none"
                               /\ parent[s] = 0
                               /\ family[s] = 0

\* A refresh token was issued for a session of its user, inserted before or with it.
TokensLinked ==
    \A t \in TokenIds :
        /\ t < nextToken => /\ refresh[t].session \in SessionIds
                            /\ refresh[t].session < nextSession
                            /\ refresh[t].user \in Users
                            /\ refresh[t].user = sessions[refresh[t].session].user
        /\ t >= nextToken => refresh[t].state = "none"

\* A sign-in in progress knows its user, an updateSession the token it was given.
CallsLinked ==
    \A c \in Calls :
        /\ calls[c].op \in {"signIn", "revokeOthers"} => calls[c].user \in Users
        /\ calls[c].op \in {"updateRead", "updateUser", "updateRotate"} =>
              calls[c].token \in TokenIds /\ calls[c].token < nextToken
        /\ calls[c].op \in {"signOutTokens", "revokeOne", "revokeOthers"} =>
              calls[c].session \in SessionIds

\* A session that was rotated is not open any more.
ParentsSpent ==
    \A s \in SessionIds :
        parent[s] # 0 => sessions[parent[s]].state \in {"revoked", "deleted"}

IInv ==
    /\ TypeOK
    /\ RowsInOrder
    /\ TokensLinked
    /\ CallsLinked
    /\ ParentsSpent
    /\ OneSuccessor
    /\ OneOpenPerFamily

-----------------------------------------------------------------------------
(* The writes keep the tables well typed                                   *)

(* Revoking or deleting rows of authSessions gives rows of authSessions. *)
LEMMA RowWritesType ==
    ASSUME TypeOK, NEW S
    PROVE  /\ RevokeRows(S) \in [SessionIds -> Session]
           /\ DeleteRows(S) \in [SessionIds -> Session]
  BY DEF TypeOK, RevokeRows, DeleteRows, Session, RowStates

(* The same for authRefreshTokens. *)
LEMMA TokenWritesType ==
    ASSUME TypeOK, NEW T
    PROVE  /\ RevokeTokens(T) \in [TokenIds -> RefreshToken]
           /\ DeleteTokens(T) \in [TokenIds -> RefreshToken]
  BY DEF TypeOK, RevokeTokens, DeleteTokens, RefreshToken, RowStates

(* The insert of a session, with or without a predecessor. *)
LEMMA InsertSessionType ==
    ASSUME TypeOK, NEW u \in Users, NEW e \in Nat, NEW old \in SessionIds \cup {0},
           InsertSession(u, e, old)
    PROVE  /\ sessions' \in [SessionIds -> Session]
           /\ nextSession' \in 1 .. MaxSessions + 1
           /\ parent' \in [SessionIds -> SessionIds \cup {0}]
           /\ family' \in [SessionIds -> SessionIds \cup {0}]
  <1>1. sessions' \in [SessionIds -> Session]
    <2>1. RevokeRows({old}) \in [SessionIds -> Session]
      BY RowWritesType
    <2> QED BY <2>1 DEF InsertSession, Session, RowStates
  <1>2. nextSession' \in 1 .. MaxSessions + 1
    BY ConstantsAssumption DEF InsertSession, TypeOK, SessionIds
  <1> QED BY <1>1, <1>2 DEF InsertSession, TypeOK

(* The insert of a refresh token of a session. *)
LEMMA InsertTokenType ==
    ASSUME TypeOK, NEW s \in SessionIds, NEW u \in Users, NEW e \in Nat,
           NEW old \in TokenIds \cup {0}, InsertRefreshToken(s, u, e, old)
    PROVE  /\ refresh' \in [TokenIds -> RefreshToken]
           /\ nextToken' \in 1 .. MaxTokens + 1
  <1>1. refresh' \in [TokenIds -> RefreshToken]
    <2>1. RevokeTokens({old}) \in [TokenIds -> RefreshToken]
      BY TokenWritesType
    <2> QED BY <2>1 DEF InsertRefreshToken, RefreshToken, RowStates
  <1>2. nextToken' \in 1 .. MaxTokens + 1
    BY ConstantsAssumption DEF InsertRefreshToken, TypeOK, TokenIds
  <1> QED BY <1>1, <1>2

(* Both inserts, as sign-in makes them. *)
LEMMA CreateType ==
    ASSUME TypeOK, NEW u \in Users, NEW at \in Nat, CreateSessionAndRefreshToken(u, at)
    PROVE  /\ sessions' \in [SessionIds -> Session]
           /\ nextSession' \in 1 .. MaxSessions + 1
           /\ parent' \in [SessionIds -> SessionIds \cup {0}]
           /\ family' \in [SessionIds -> SessionIds \cup {0}]
           /\ refresh' \in [TokenIds -> RefreshToken]
           /\ nextToken' \in 1 .. MaxTokens + 1
  <1>1. PICK ttl \in SessionTtls : InsertSession(u, at + ttl, 0)
    BY DEF CreateSessionAndRefreshToken
  <1>2. at + ttl \in Nat /\ at + RefreshTtl \in Nat
    BY ConstantsAssumption
  <1>3. nextSession \in SessionIds /\ InsertRefreshToken(nextSession, u, at + RefreshTtl, 0)
    BY DEF CreateSessionAndRefreshToken, InsertSession
  <1> QED BY <1>1, <1>2, <1>3, InsertSessionType, InsertTokenType

-----------------------------------------------------------------------------
(* Type correctness                                                        *)

(* A step outside the calls keeps every table well typed. *)
LEMMA TypeUserStep == TypeOK /\ UserStep => TypeOK'
  <1> SUFFICES ASSUME TypeOK, UserStep PROVE TypeOK'
    OBVIOUS
  <1>1. ASSUME NEW u \in Users, NEW provider \in Providers, NEW open \in BOOLEAN,
               Provision(u, provider, open)
        PROVE  TypeOK'
    <2>1. CASE open
      <3>1. PICK at \in 0 .. now : CreateSessionAndRefreshToken(u, at)
        BY <1>1, <2>1 DEF Provision
      <3> QED BY <1>1, <3>1, CreateType DEF Provision, TypeOK, UserStates
    <2>2. CASE ~open
      BY <1>1, <2>2 DEF Provision, TypeOK, UserStates
    <2> QED BY <2>1, <2>2
  <1>2. ASSUME NEW u \in Users, ResetPassword(u) PROVE TypeOK'
    <2>1. sessions' \in [SessionIds -> Session]
      BY <1>2, RowWritesType DEF ResetPassword, TypeOK
    <2>2. resetMark' \in [Users -> 0 .. MaxSessions + 1]
      BY <1>2, ConstantsAssumption DEF ResetPassword, TypeOK
    <2> QED BY <1>2, <2>1, <2>2 DEF ResetPassword, TypeOK, users
  <1>3. ASSUME NEW u \in Users, DeleteUser(u) PROVE TypeOK'
    BY <1>3, RowWritesType, TokenWritesType DEF DeleteUser, TypeOK, UserStates, history
  <1>4. ASSUME NEW u \in Users, CreateSession(u) PROVE TypeOK'
    <2>1. PICK ttl \in SessionTtls : InsertSession(u, now + ttl, 0)
      BY <1>4 DEF CreateSession
    <2>2. now + ttl \in Nat
      BY ConstantsAssumption DEF TypeOK
    <2> QED BY <1>4, <2>1, <2>2, InsertSessionType DEF CreateSession, TypeOK, users
  <1>5. ASSUME NEW u \in Users, RevokeRefreshTokensForUser(u) PROVE TypeOK'
    BY <1>5, TokenWritesType DEF RevokeRefreshTokensForUser, TypeOK, users, history
  <1> QED BY <1>1, <1>2, <1>3, <1>4, <1>5 DEF UserStep

(* A step of the runtime's actions keeps every table well typed.            *)
LEMMA TypeCallStep == TypeOK /\ TokensLinked /\ CallsLinked /\ CallStep => TypeOK'
  <1> SUFFICES ASSUME TypeOK, TokensLinked, CallsLinked, CallStep PROVE TypeOK'
    OBVIOUS
  <1>a. Idle \in Call
    BY DEF Idle, Call, Ops
  <1>b. ASSUME NEW c \in Calls, Return(c) PROVE calls' \in [Calls -> Call]
    BY <1>a, <1>b DEF Return, TypeOK
  <1>c. now \in Nat
    BY ConstantsAssumption DEF TypeOK
  <1>1. ASSUME NEW c \in Calls, NEW u \in Users, SignIn(c, u) PROVE TypeOK'
    BY <1>1, <1>a, <1>c DEF SignIn, Start, TypeOK, Call, Ops, tables, users, history
  <1>2. ASSUME NEW c \in Calls, IssueSession(c) PROVE TypeOK'
    <2>1. calls[c].user \in Users
      BY <1>2 DEF IssueSession, CallsLinked
    <2>2. calls[c].at \in Nat
      BY DEF TypeOK, Call
    <2>3. PICK at \in Nat : CreateSessionAndRefreshToken(calls[c].user, at)
      BY <1>2, <1>c, <2>2 DEF IssueSession
    <2> QED BY <1>2, <1>b, <2>1, <2>3, CreateType DEF IssueSession, TypeOK, users
  <1>3. ASSUME NEW c \in Calls, NEW t \in TokenIds, UpdateSession(c, t) PROVE TypeOK'
    BY <1>3, <1>a, <1>c DEF UpdateSession, Start, TypeOK, Call, Ops, tables, users, history
  <1>4. ASSUME NEW c \in Calls, ReadSession(c) PROVE TypeOK'
    <2>1. CASE calls' = [calls EXCEPT ![c].op = "updateUser"]
      BY <1>4, <2>1 DEF ReadSession, TypeOK, Call, Ops, tables, users, history
    <2>2. CASE Return(c)
      BY <1>4, <1>b, <2>2 DEF ReadSession, TypeOK, tables, users, history
    <2> QED BY <1>4, <2>1, <2>2 DEF ReadSession
  <1>5. ASSUME NEW c \in Calls, ReadUser(c) PROVE TypeOK'
    <2>1. CASE calls' = [calls EXCEPT ![c].op = "updateRotate"]
      BY <1>5, <2>1 DEF ReadUser, TypeOK, Call, Ops, tables, users, history
    <2>2. CASE Return(c)
      BY <1>5, <1>b, <2>2 DEF ReadUser, TypeOK, tables, users, history
    <2> QED BY <1>5, <2>1, <2>2 DEF ReadUser
  <1>6. ASSUME NEW c \in Calls, RotateSession(c) PROVE TypeOK'
    <2> DEFINE t == calls[c].token
    <2>1. CASE Rotatable(t)
      <3>1. /\ t \in TokenIds
            /\ refresh[t].session \in SessionIds
            /\ refresh[t].user \in Users
        BY <1>6 DEF RotateSession, TokensLinked, CallsLinked
      <3>2. calls[c].at + RotatedTtl \in Nat /\ calls[c].at + RefreshTtl \in Nat
        BY ConstantsAssumption DEF TypeOK, Call
      <3>3. /\ InsertSession(refresh[t].user, calls[c].at + RotatedTtl, refresh[t].session)
            /\ InsertRefreshToken(nextSession, refresh[t].user, calls[c].at + RefreshTtl, t)
            /\ nextSession \in SessionIds
        BY <1>6, <2>1 DEF RotateSession, Rotate, InsertSession
      <3>4. /\ sessions' \in [SessionIds -> Session]
            /\ nextSession' \in 1 .. MaxSessions + 1
            /\ parent' \in [SessionIds -> SessionIds \cup {0}]
            /\ family' \in [SessionIds -> SessionIds \cup {0}]
        BY <3>1, <3>2, <3>3, InsertSessionType
      <3>5. /\ refresh' \in [TokenIds -> RefreshToken]
            /\ nextToken' \in 1 .. MaxTokens + 1
        BY <3>1, <3>2, <3>3, InsertTokenType
      <3> QED BY <1>6, <1>b, <3>4, <3>5 DEF RotateSession, TypeOK, users
    <2>2. CASE ~Rotatable(t)
      BY <1>6, <1>b, <2>2 DEF RotateSession, TypeOK, users
    <2> QED BY <2>1, <2>2
  <1>7. ASSUME NEW c \in Calls, NEW s \in SessionIds, SignOut(c, s) PROVE TypeOK'
    <2>1. calls' \in [Calls -> Call]
      BY <1>7, <1>a DEF SignOut, Start, TypeOK, Call, Ops
    <2>2. sessions' \in [SessionIds -> Session]
      BY <1>7, RowWritesType DEF SignOut, RevokeIfExists, TypeOK
    <2> QED BY <1>7, <2>1, <2>2 DEF SignOut, TypeOK, users, history
  <1>8. ASSUME NEW c \in Calls, SignOutTokens(c) PROVE TypeOK'
    BY <1>8, <1>b, TokenWritesType DEF SignOutTokens, TypeOK, users, history
  <1>9. ASSUME NEW c \in Calls, NEW s \in SessionIds, RevokeSession(c, s) PROVE TypeOK'
    BY <1>9, <1>a DEF RevokeSession, Start, TypeOK, Call, Ops, tables, users, history
  <1>10. ASSUME NEW c \in Calls, RevokeOne(c) PROVE TypeOK'
    BY <1>10, <1>b, RowWritesType DEF RevokeOne, RevokeIfExists, TypeOK, users, history
  <1>11. ASSUME NEW c \in Calls, NEW s \in SessionIds, RevokeOtherSessions(c, s) PROVE TypeOK'
    <2>1. calls' \in [Calls -> Call]
      BY <1>11, <1>a DEF RevokeOtherSessions, Start, TypeOK, Call, Ops, Session
    <2> QED BY <1>11, <2>1 DEF RevokeOtherSessions, TypeOK, tables, users, history
  <1>12. ASSUME NEW c \in Calls, RevokeOthers(c) PROVE TypeOK'
    BY <1>12, <1>b, RowWritesType DEF RevokeOthers, TypeOK, users, history
  <1>13. ASSUME NEW c \in Calls, Crash(c) PROVE TypeOK'
    BY <1>13, <1>b DEF Crash, TypeOK, tables, users, history
  <1> QED BY <1>1, <1>2, <1>3, <1>4, <1>5, <1>6, <1>7, <1>8, <1>9, <1>10, <1>11,
             <1>12, <1>13 DEF CallStep

(* A step of the host's mutations keeps every table well typed. *)
LEMMA TypeStoreStep == TypeOK /\ RowsInOrder /\ StoreStep => TypeOK'
  <1> SUFFICES ASSUME TypeOK, RowsInOrder, StoreStep PROVE TypeOK'
    OBVIOUS
  <1>1. ASSUME NEW before \in 0 .. now, CleanupExpiredSessions(before) PROVE TypeOK'
    BY <1>1, RowWritesType DEF CleanupExpiredSessions, TypeOK, users, history
  <1>2. ASSUME NEW before \in 0 .. now, CleanupExpiredRefreshTokens(before) PROVE TypeOK'
    BY <1>2, TokenWritesType DEF CleanupExpiredRefreshTokens, TypeOK, users, history
  <1>3. ASSUME NEW s \in SessionIds, CreateRefreshToken(s) PROVE TypeOK'
    <2>1. sessions[s].user \in Users
      BY <1>3, ConstantsAssumption
      DEF CreateRefreshToken, SessionExists, RowsInOrder, TypeOK, SessionIds
    <2>2. now + RefreshTtl \in Nat
      BY ConstantsAssumption DEF TypeOK
    <2>3. InsertRefreshToken(s, sessions[s].user, now + RefreshTtl, 0)
      BY <1>3 DEF CreateRefreshToken
    <2>4. refresh' \in [TokenIds -> RefreshToken] /\ nextToken' \in 1 .. MaxTokens + 1
      BY <2>1, <2>2, <2>3, InsertTokenType
    <2> QED BY <1>3, <2>4 DEF CreateRefreshToken, TypeOK, users, history
  <1>4. ASSUME NEW t \in TokenIds, ConsumeRefreshToken(t) PROVE TypeOK'
    BY <1>4, TokenWritesType DEF ConsumeRefreshToken, TypeOK, users, history
  <1> QED BY <1>1, <1>2, <1>3, <1>4 DEF StoreStep

-----------------------------------------------------------------------------
(* What a step does to the rows of authSessions: it closes some, or it      *)
(* inserts one, in place of a usable session of the same user or of none.   *)
(* Only a rotation, which computed its expiry in an earlier transaction,    *)
(* may insert a row that has expired already.                               *)

RowsOnlyClose ==
    /\ UNCHANGED <<nextSession, parent, family>>
    /\ now' >= now
    /\ \A s \in SessionIds :
          /\ sessions'[s].user = sessions[s].user
          /\ sessions'[s].expiresAt = sessions[s].expiresAt
          /\ \/ sessions'[s].state = sessions[s].state
             \/ /\ sessions[s].state \in {"active", "revoked"}
                /\ sessions'[s].state \in {"revoked", "deleted"}

InsertsAfter(old, u, e) ==
    /\ now' = now
    /\ old # 0 => Usable(old) /\ sessions[old].user = u
    /\ InsertSession(u, e, old)

RowInserted ==
    \E old \in SessionIds \cup {0}, u \in Users, e \in Nat : InsertsAfter(old, u, e)

(* Revoking or deleting rows that exist only closes. *)
LEMMA WritesClose ==
    ASSUME TypeOK, UNCHANGED <<nextSession, parent, family>>, now' = now,
           NEW S \in SUBSET SessionIds, \A s \in S : SessionExists(s),
           sessions' \in {RevokeRows(S), DeleteRows(S), sessions}
    PROVE  RowsOnlyClose
  <1>1. now' >= now
    BY ConstantsAssumption DEF TypeOK
  <1>2. CASE sessions' = RevokeRows(S)
    BY <1>1, <1>2 DEF RowsOnlyClose, RevokeRows, SessionExists, TypeOK, Session
  <1>3. CASE sessions' = DeleteRows(S)
    BY <1>1, <1>3 DEF RowsOnlyClose, DeleteRows, SessionExists, TypeOK, Session
  <1>4. CASE sessions' = sessions
    BY <1>1, <1>4 DEF RowsOnlyClose
  <1> QED BY <1>2, <1>3, <1>4

(* A sign-in inserts a row without a predecessor. *)
LEMMA CreateInserts ==
    ASSUME TypeOK, NEW u \in Users, NEW at \in Nat, now' = now,
           CreateSessionAndRefreshToken(u, at)
    PROVE  RowInserted
  <1>1. PICK ttl \in SessionTtls : InsertSession(u, at + ttl, 0)
    BY DEF CreateSessionAndRefreshToken
  <1>2. at + ttl \in Nat
    BY ConstantsAssumption
  <1> QED BY <1>1, <1>2 DEF RowInserted, InsertsAfter

(* Every step closes rows or inserts one. *)
LEMMA RowsStep ==
    ASSUME TypeOK, RowsInOrder, TokensLinked, CallsLinked, [Next]_vars
    PROVE  RowsOnlyClose \/ RowInserted
  <1>a. now \in Nat
    BY ConstantsAssumption DEF TypeOK
  <1>b. ASSUME UNCHANGED <<sessions, nextSession, parent, family>>, now' = now
        PROVE  RowsOnlyClose
    BY <1>a, <1>b DEF RowsOnlyClose
  <1>1. CASE UserStep
    <2>1. ASSUME NEW u \in Users, NEW provider \in Providers, NEW open \in BOOLEAN,
                 Provision(u, provider, open)
          PROVE  RowsOnlyClose \/ RowInserted
      <3>1. CASE open
        BY <1>a, <2>1, <3>1, CreateInserts DEF Provision
      <3>2. CASE ~open
        BY <2>1, <3>2, <1>b DEF Provision
      <3> QED BY <3>1, <3>2
    <2>2. ASSUME NEW u \in Users, ResetPassword(u) PROVE RowsOnlyClose
      <3> DEFINE S == {s \in OldestRows(u, ResetRevokeBatch) : Usable(s)}
      <3>1. S \in SUBSET SessionIds /\ \A s \in S : SessionExists(s)
        BY DEF OldestRows, RowsOf
      <3>2. sessions' \in {RevokeRows(S), sessions}
        BY <2>2 DEF ResetPassword
      <3> QED BY <2>2, <3>1, <3>2, WritesClose DEF ResetPassword
    <2>3. ASSUME NEW u \in Users, DeleteUser(u) PROVE RowsOnlyClose
      BY <2>3, WritesClose DEF DeleteUser, RowsOf, history
    <2>4. ASSUME NEW u \in Users, CreateSession(u) PROVE RowInserted
      <3>1. PICK ttl \in SessionTtls : InsertSession(u, now + ttl, 0)
        BY <2>4 DEF CreateSession
      <3>2. now + ttl \in Nat /\ now' = now
        BY <1>a, <2>4, ConstantsAssumption DEF CreateSession
      <3> QED BY <3>1, <3>2 DEF RowInserted, InsertsAfter
    <2>5. ASSUME NEW u \in Users, RevokeRefreshTokensForUser(u) PROVE RowsOnlyClose
      BY <1>b, <2>5 DEF RevokeRefreshTokensForUser, history
    <2> QED BY <1>1, <2>1, <2>2, <2>3, <2>4, <2>5 DEF UserStep
  <1>2. CASE CallStep
    <2>1. ASSUME NEW c \in Calls,
                 \/ \E u \in Users : SignIn(c, u)
                 \/ \E t \in TokenIds : UpdateSession(c, t)
                 \/ ReadSession(c)
                 \/ ReadUser(c)
                 \/ SignOutTokens(c)
                 \/ \E s \in SessionIds : RevokeSession(c, s)
                 \/ \E s \in SessionIds : RevokeOtherSessions(c, s)
                 \/ Crash(c)
          PROVE  RowsOnlyClose
      BY <1>b, <2>1
      DEF SignIn, UpdateSession, ReadSession, ReadUser, SignOutTokens, RevokeSession,
          RevokeOtherSessions, Crash, tables, history
    <2>2. ASSUME NEW c \in Calls, IssueSession(c) PROVE RowInserted
      <3>1. calls[c].at \in Nat /\ calls[c].user \in Users /\ now' = now
        BY <2>2 DEF IssueSession, CallsLinked, TypeOK, Call
      <3>2. PICK at \in Nat : CreateSessionAndRefreshToken(calls[c].user, at)
        BY <1>a, <2>2, <3>1 DEF IssueSession
      <3> QED BY <3>1, <3>2, CreateInserts
    <2>3. ASSUME NEW c \in Calls, RotateSession(c) PROVE RowsOnlyClose \/ RowInserted
      <3> DEFINE t == calls[c].token
                 old == refresh[t].session
                 u == refresh[t].user
                 e == calls[c].at + RotatedTtl
      <3>1. CASE Rotatable(t)
        <4>1. t \in TokenIds /\ t < nextToken
          BY <2>3 DEF RotateSession, CallsLinked
        <4>2. old \in SessionIds /\ u \in Users /\ sessions[old].user = u
          BY <4>1 DEF TokensLinked
        <4>3. e \in Nat
          BY ConstantsAssumption DEF TypeOK, Call
        <4>4. InsertSession(u, e, old) /\ Usable(old) /\ now' = now
          BY <2>3, <3>1 DEF RotateSession, Rotate, Rotatable
        <4>5. old # 0
          BY <4>2, ConstantsAssumption DEF SessionIds
        <4>6. InsertsAfter(old, u, e)
          BY <4>2, <4>4, <4>5 DEF InsertsAfter
        <4> QED BY <4>2, <4>3, <4>6 DEF RowInserted
      <3>2. CASE ~Rotatable(t)
        BY <1>b, <2>3, <3>2 DEF RotateSession
      <3> QED BY <3>1, <3>2
    <2>4. ASSUME NEW s \in SessionIds, RevokeIfExists(s),
                 UNCHANGED <<now, nextSession, parent, family>>
          PROVE  RowsOnlyClose
      <3>1. CASE SessionExists(s)
        BY <2>4, <3>1, WritesClose DEF RevokeIfExists
      <3>2. CASE ~SessionExists(s)
        BY <1>b, <2>4, <3>2 DEF RevokeIfExists
      <3> QED BY <3>1, <3>2
    <2>5. ASSUME NEW c \in Calls, NEW s \in SessionIds, SignOut(c, s) PROVE RowsOnlyClose
      BY <2>4, <2>5 DEF SignOut, history
    <2>6. ASSUME NEW c \in Calls, RevokeOne(c) PROVE RowsOnlyClose
      <3>1. calls[c].session \in SessionIds
        BY <2>6 DEF RevokeOne, CallsLinked
      <3> QED BY <2>4, <2>6, <3>1 DEF RevokeOne, history
    <2>7. ASSUME NEW c \in Calls, RevokeOthers(c) PROVE RowsOnlyClose
      <3> DEFINE S == {s \in OldestRows(calls[c].user, MaxSessionsPerUser) :
                         Usable(s) /\ s # calls[c].session}
      <3>1. S \in SUBSET SessionIds /\ \A s \in S : SessionExists(s)
        BY DEF OldestRows, RowsOf
      <3> QED BY <2>7, <3>1, WritesClose DEF RevokeOthers, history
    <2> QED BY <1>2, <2>1, <2>2, <2>3, <2>5, <2>6, <2>7 DEF CallStep
  <1>3. CASE StoreStep
    <2>1. ASSUME NEW before \in 0 .. now, CleanupExpiredSessions(before) PROVE RowsOnlyClose
      <3> DEFINE S == FirstExpired({s \in SessionIds : SessionExists(s)
                                      /\ sessions[s].expiresAt < before}, sessions)
      <3>1. S \in SUBSET SessionIds /\ \A s \in S : SessionExists(s)
        BY DEF FirstExpired
      <3> QED BY <2>1, <3>1, WritesClose DEF CleanupExpiredSessions, history
    <2>2. ASSUME \/ \E before \in 0 .. now : CleanupExpiredRefreshTokens(before)
                 \/ \E s \in SessionIds : CreateRefreshToken(s)
                 \/ \E t \in TokenIds : ConsumeRefreshToken(t)
          PROVE  RowsOnlyClose
      BY <1>b, <2>2
      DEF CleanupExpiredRefreshTokens, CreateRefreshToken, ConsumeRefreshToken, history
    <2> QED BY <1>3, <2>1, <2>2 DEF StoreStep
  <1>4. CASE Tick
    BY <1>a, <1>4 DEF Tick, RowsOnlyClose, tables, history
  <1>5. CASE UNCHANGED vars
    BY <1>b, <1>5 DEF vars, tables, history
  <1> QED BY <1>1, <1>2, <1>3, <1>4, <1>5 DEF Next

-----------------------------------------------------------------------------
(* The insert, field by field                                              *)

(* What an insert leaves of the rows and the history, and what it adds. *)
LEMMA InsertEffect ==
    ASSUME TypeOK, RowsInOrder, NEW old \in SessionIds \cup {0}, NEW u \in Users,
           NEW e \in Nat, InsertsAfter(old, u, e)
    PROVE  /\ nextSession \in SessionIds
           /\ nextSession' = nextSession + 1
           /\ old # 0 => old < nextSession
           /\ sessions'[nextSession] = [state |-> "active", user |-> u, expiresAt |-> e]
           /\ parent'[nextSession] = old
           /\ family'[nextSession] = IF old = 0 THEN nextSession ELSE family[old]
           /\ old # 0 => /\ sessions'[old].state = "revoked"
                         /\ sessions'[old].user = sessions[old].user
           /\ \A s \in SessionIds \ {nextSession} : parent'[s] = parent[s]
                                                 /\ family'[s] = family[s]
           /\ \A s \in SessionIds \ {nextSession, old} : sessions'[s] = sessions[s]
  <1>1. nextSession \in SessionIds /\ nextSession' = nextSession + 1
    BY DEF InsertsAfter, InsertSession
  <1>2. old # 0 => old < nextSession
    BY ConstantsAssumption DEF InsertsAfter, Usable, RowsInOrder, TypeOK, SessionIds
  <1>3. RevokeRows({old}) \in [SessionIds -> Session]
    BY RowWritesType
  <1>4. sessions' = [RevokeRows({old}) EXCEPT ![nextSession] =
                       [state |-> "active", user |-> u, expiresAt |-> e]]
    BY DEF InsertsAfter, InsertSession
  <1>5. /\ sessions'[nextSession] = [state |-> "active", user |-> u, expiresAt |-> e]
        /\ \A s \in SessionIds \ {nextSession} : sessions'[s] = RevokeRows({old})[s]
    BY <1>1, <1>3, <1>4
  <1>6. /\ \A s \in SessionIds \ {old} : RevokeRows({old})[s] = sessions[s]
        /\ old # 0 => /\ RevokeRows({old})[old].state = "revoked"
                      /\ RevokeRows({old})[old].user = sessions[old].user
    BY DEF RevokeRows, TypeOK, Session
  <1>7. /\ parent'[nextSession] = old
        /\ family'[nextSession] = IF old = 0 THEN nextSession ELSE family[old]
        /\ \A s \in SessionIds \ {nextSession} : parent'[s] = parent[s]
                                              /\ family'[s] = family[s]
    BY <1>1 DEF InsertsAfter, InsertSession, TypeOK
  <1>8. old # 0 => old \in SessionIds \ {nextSession}
    BY <1>1, <1>2, ConstantsAssumption DEF SessionIds
  <1> QED BY <1>1, <1>2, <1>5, <1>6, <1>7, <1>8

-----------------------------------------------------------------------------
(* The invariants about rows                                               *)

(* Closing rows disturbs none of them. *)
LEMMA CloseKeepsRows ==
    ASSUME TypeOK, TypeOK', RowsInOrder, ParentsSpent, OneSuccessor, OneOpenPerFamily,
           RowsOnlyClose
    PROVE  RowsInOrder' /\ ParentsSpent' /\ OneSuccessor' /\ OneOpenPerFamily'
  <1>1. RowsInOrder'
    BY DEF RowsOnlyClose, RowsInOrder
  <1>2. ParentsSpent'
    <2> SUFFICES ASSUME NEW s \in SessionIds, parent[s] # 0
                 PROVE  sessions'[parent[s]].state \in {"revoked", "deleted"}
      BY DEF ParentsSpent, RowsOnlyClose
    <2>1. parent[s] \in SessionIds
      BY DEF TypeOK
    <2> QED BY <2>1 DEF ParentsSpent, RowsOnlyClose
  <1>3. OneSuccessor'
    BY DEF OneSuccessor, RowsOnlyClose
  <1>4. OneOpenPerFamily'
    BY DEF OneOpenPerFamily, RowsOnlyClose
  <1> QED BY <1>1, <1>2, <1>3, <1>4

(* Nor does an insert: it spends the only open session of its family. *)
LEMMA InsertKeepsRows ==
    ASSUME TypeOK, TypeOK', RowsInOrder, ParentsSpent, OneSuccessor, OneOpenPerFamily,
           RowInserted
    PROVE  RowsInOrder' /\ ParentsSpent' /\ OneSuccessor' /\ OneOpenPerFamily'
  <1>1. PICK old \in SessionIds \cup {0}, u \in Users, e \in Nat : InsertsAfter(old, u, e)
    BY DEF RowInserted
  <1> DEFINE n == nextSession
  <1>2. /\ n \in SessionIds
        /\ nextSession' = n + 1
        /\ old # 0 => old < n
        /\ sessions'[n] = [state |-> "active", user |-> u, expiresAt |-> e]
        /\ parent'[n] = old
        /\ family'[n] = IF old = 0 THEN n ELSE family[old]
        /\ old # 0 => sessions'[old].state = "revoked" /\ sessions'[old].user = sessions[old].user
        /\ \A s \in SessionIds \ {n} : parent'[s] = parent[s] /\ family'[s] = family[s]
        /\ \A s \in SessionIds \ {n, old} : sessions'[s] = sessions[s]
    BY <1>1, InsertEffect
  <1>3. n \in Nat /\ SessionIds \subseteq Nat \ {0}
    BY ConstantsAssumption DEF TypeOK, SessionIds
  <1>4. old # 0 => sessions[old].state = "active"
    BY <1>1 DEF InsertsAfter, Usable
  <1> HIDE DEF n
  <1>5. RowsInOrder'
    <2> SUFFICES ASSUME NEW s \in SessionIds
                 PROVE  /\ s < n + 1 => /\ sessions'[s].state # "none"
                                        /\ sessions'[s].user \in Users
                                        /\ family'[s] \in SessionIds
                                        /\ family'[s] <= s
                        /\ s >= n + 1 => /\ sessions'[s].state = "none"
                                         /\ parent'[s] = 0
                                         /\ family'[s] = 0
      BY <1>2 DEF RowsInOrder
    <2>1. CASE s = n
      <3>1. family'[n] \in SessionIds /\ family'[n] <= n
        <4>1. CASE old = 0
          BY <1>2, <1>3, <4>1
        <4>2. CASE old # 0
          <5>1. family'[n] = family[old] /\ old \in SessionIds /\ old < n
            BY <1>2, <4>2
          <5>2. family[old] \in SessionIds /\ family[old] <= old
            BY <5>1 DEF RowsInOrder, n
          <5>3. family[old] \in Nat /\ old \in Nat
            BY <1>3, <5>1, <5>2
          <5>4. family[old] <= n
            BY <1>3, <5>1, <5>2, <5>3
          <5> QED BY <5>1, <5>2, <5>4
        <4> QED BY <4>1, <4>2
      <3> QED BY <1>2, <1>3, <2>1, <3>1
    <2>2. CASE s # n
      <3>1. s < n + 1 <=> s < n
        BY <1>3, <2>2
      <3>2. family'[s] = family[s] /\ parent'[s] = parent[s]
        BY <1>2, <2>2
      <3>3. CASE s = old
        BY <1>2, <1>3, <2>2, <3>1, <3>2, <3>3 DEF RowsInOrder, n
      <3>4. CASE s # old
        <4>1. sessions'[s] = sessions[s]
          BY <1>2, <2>2, <3>4
        <4> QED BY <1>3, <2>2, <3>1, <3>2, <4>1 DEF RowsInOrder, n
      <3> QED BY <3>3, <3>4
    <2> QED BY <2>1, <2>2
  <1>6. ParentsSpent'
    <2> SUFFICES ASSUME NEW s \in SessionIds, parent'[s] # 0
                 PROVE  sessions'[parent'[s]].state \in {"revoked", "deleted"}
      BY DEF ParentsSpent
    <2>1. CASE s = n
      BY <1>2, <2>1
    <2>2. CASE s # n
      <3>1. parent'[s] = parent[s] /\ parent[s] \in SessionIds
        BY <1>2, <2>2 DEF TypeOK
      <3>2. sessions[parent[s]].state \in {"revoked", "deleted"}
        BY <2>2, <3>1 DEF ParentsSpent
      <3>3. parent[s] # n
        BY <1>2, <1>3, <3>1, <3>2 DEF RowsInOrder, n
      <3> QED BY <1>2, <3>1, <3>2, <3>3
    <2> QED BY <2>1, <2>2
  <1>7. OneSuccessor'
    <2>1. ASSUME NEW s \in SessionIds \ {n}, old # 0 PROVE parent[s] # old
      BY <1>4, <2>1 DEF ParentsSpent
    <2> QED BY <1>2, <2>1 DEF OneSuccessor
  <1>8. OneOpenPerFamily'
    <2>1. ASSUME NEW s \in SessionIds \ {n}, sessions'[s].state = "active"
          PROVE  family'[s] # family'[n]
      <3>1. s # old /\ sessions[s].state = "active" /\ family'[s] = family[s]
        <4>1. s # old
          BY <1>2, <1>3, <2>1
        <4> QED BY <1>2, <2>1, <4>1
      <3>2. s < n /\ family[s] <= s
        <4>1. ~(s >= n)
          BY <3>1 DEF RowsInOrder, n
        <4>2. s < n
          BY <1>3, <4>1
        <4> QED BY <4>2 DEF RowsInOrder, n
      <3>3. CASE old = 0
        BY <1>2, <1>3, <3>1, <3>2, <3>3 DEF TypeOK
      <3>4. CASE old # 0
        BY <1>2, <1>4, <3>1, <3>4 DEF OneOpenPerFamily
      <3> QED BY <3>3, <3>4
    <2> SUFFICES ASSUME NEW r \in SessionIds, NEW s \in SessionIds,
                        sessions'[r].state = "active", sessions'[s].state = "active",
                        family'[r] = family'[s]
                 PROVE  r = s
      BY DEF OneOpenPerFamily
    <2>2. CASE r # n /\ s # n
      <3>1. /\ r # old /\ sessions'[r] = sessions[r] /\ family'[r] = family[r]
            /\ s # old /\ sessions'[s] = sessions[s] /\ family'[s] = family[s]
        <4>1. r # old /\ s # old
          BY <1>2, <1>3, <2>2
        <4> QED BY <1>2, <2>2, <4>1
      <3> QED BY <3>1 DEF OneOpenPerFamily
    <2> QED BY <2>1, <2>2
  <1> QED BY <1>5, <1>6, <1>7, <1>8

-----------------------------------------------------------------------------
(* The invariants about refresh tokens and calls in progress               *)

\* What a step does to authRefreshTokens.
TokensOnlyClose ==
    /\ nextToken' = nextToken
    /\ \A t \in TokenIds :
          /\ refresh'[t].session = refresh[t].session
          /\ refresh'[t].user = refresh[t].user
          /\ refresh[t].state = "none" => refresh'[t].state = "none"

TokenInserted ==
    \E s \in SessionIds, u \in Users, e \in Nat, old \in TokenIds \cup {0} :
        /\ s < nextSession'
        /\ sessions'[s].user = u
        /\ old # 0 => refresh[old].state # "none"
        /\ InsertRefreshToken(s, u, e, old)

(* The tokens that a revocation finds in its page exist. *)
LEMMA LiveTokensExist ==
    ASSUME NEW T \in SUBSET TokenIds, NEW limit
    PROVE  /\ LiveTokensOf(T, limit) \in SUBSET TokenIds
           /\ \A t \in LiveTokensOf(T, limit) : refresh[t].state # "none"
  BY DEF LiveTokensOf

(* Revoking or deleting tokens that exist only closes. *)
LEMMA TokenWritesClose ==
    ASSUME TypeOK, nextToken' = nextToken,
           NEW T \in SUBSET TokenIds, \A t \in T : refresh[t].state # "none",
           refresh' \in {RevokeTokens(T), DeleteTokens(T), refresh}
    PROVE  TokensOnlyClose
  <1>1. CASE refresh' = RevokeTokens(T)
    BY <1>1 DEF TokensOnlyClose, RevokeTokens, TypeOK, RefreshToken
  <1>2. CASE refresh' = DeleteTokens(T)
    BY <1>2 DEF TokensOnlyClose, DeleteTokens, TypeOK, RefreshToken
  <1>3. CASE refresh' = refresh
    BY <1>3 DEF TokensOnlyClose
  <1> QED BY <1>1, <1>2, <1>3

(* A sign-in inserts the token of the session it inserts. *)
LEMMA CreateInsertsToken ==
    ASSUME TypeOK, RowsInOrder, NEW u \in Users, NEW at \in Nat, now' = now,
           CreateSessionAndRefreshToken(u, at)
    PROVE  TokenInserted
  <1>1. PICK ttl \in SessionTtls : InsertSession(u, at + ttl, 0)
    BY DEF CreateSessionAndRefreshToken
  <1>2. at + ttl \in Nat /\ at + RefreshTtl \in Nat
    BY ConstantsAssumption
  <1>3. /\ nextSession \in SessionIds
        /\ nextSession' = nextSession + 1
        /\ sessions'[nextSession].user = u
    <2>1. PICK e \in Nat : InsertSession(u, e, 0)
      BY <1>1, <1>2
    <2>2. InsertsAfter(0, u, e)
      BY <2>1 DEF InsertsAfter
    <2>3. /\ nextSession \in SessionIds
          /\ nextSession' = nextSession + 1
          /\ sessions'[nextSession] = [state |-> "active", user |-> u, expiresAt |-> e]
      BY <2>2, InsertEffect
    <2> QED BY <2>3
  <1>4. nextSession < nextSession'
    BY <1>3 DEF SessionIds
  <1>5. InsertRefreshToken(nextSession, u, at + RefreshTtl, 0)
    BY DEF CreateSessionAndRefreshToken
  <1> QED BY <1>2, <1>3, <1>4, <1>5 DEF TokenInserted

(* Every step closes tokens or inserts one for a session of its user. *)
LEMMA TokensStep ==
    ASSUME TypeOK, RowsInOrder, TokensLinked, CallsLinked, [Next]_vars
    PROVE  TokensOnlyClose \/ TokenInserted
  <1>b. ASSUME UNCHANGED <<refresh, nextToken>> PROVE TokensOnlyClose
    BY <1>b DEF TokensOnlyClose
  <1>1. CASE UserStep
    <2>1. ASSUME NEW u \in Users, NEW provider \in Providers, NEW open \in BOOLEAN,
                 Provision(u, provider, open)
          PROVE  TokensOnlyClose \/ TokenInserted
      <3>1. CASE open
        <4>1. PICK at \in Nat : CreateSessionAndRefreshToken(u, at)
          BY <2>1, <3>1, ConstantsAssumption DEF Provision, TypeOK
        <4> QED BY <2>1, <4>1, CreateInsertsToken DEF Provision
      <3>2. CASE ~open
        BY <2>1, <3>2, <1>b DEF Provision
      <3> QED BY <3>1, <3>2
    <2>2. ASSUME NEW u \in Users, ResetPassword(u) \/ CreateSession(u) PROVE TokensOnlyClose
      BY <1>b, <2>2 DEF ResetPassword, CreateSession
    <2>3. ASSUME NEW u \in Users, DeleteUser(u) PROVE TokensOnlyClose
      BY <2>3, TokenWritesClose DEF DeleteUser, TokenExists
    <2>4. ASSUME NEW u \in Users, RevokeRefreshTokensForUser(u) PROVE TokensOnlyClose
      <3> DEFINE T == {t \in TokenIds : refresh[t].user = u}
      <3>1. refresh' = RevokeTokens(LiveTokensOf(T, MaxTokensPerUser))
        BY <2>4 DEF RevokeRefreshTokensForUser
      <3>2. nextToken' = nextToken
        BY <2>4 DEF RevokeRefreshTokensForUser
      <3>3. T \in SUBSET TokenIds
        OBVIOUS
      <3> HIDE DEF T
      <3> QED BY <3>1, <3>2, <3>3, LiveTokensExist, TokenWritesClose
    <2> QED BY <1>1, <2>1, <2>2, <2>3, <2>4 DEF UserStep
  <1>2. CASE CallStep
    <2>1. ASSUME NEW c \in Calls,
                 \/ \E u \in Users : SignIn(c, u)
                 \/ \E t \in TokenIds : UpdateSession(c, t)
                 \/ ReadSession(c)
                 \/ ReadUser(c)
                 \/ \E s \in SessionIds : SignOut(c, s)
                 \/ \E s \in SessionIds : RevokeSession(c, s)
                 \/ RevokeOne(c)
                 \/ \E s \in SessionIds : RevokeOtherSessions(c, s)
                 \/ RevokeOthers(c)
                 \/ Crash(c)
          PROVE  TokensOnlyClose
      BY <1>b, <2>1
      DEF SignIn, UpdateSession, ReadSession, ReadUser, SignOut, RevokeSession, RevokeOne,
          RevokeOtherSessions, RevokeOthers, Crash, tables
    <2>2. ASSUME NEW c \in Calls, IssueSession(c) PROVE TokenInserted
      <3>1. calls[c].at \in Nat /\ calls[c].user \in Users /\ now \in Nat /\ now' = now
        BY <2>2, ConstantsAssumption DEF IssueSession, CallsLinked, TypeOK, Call
      <3>2. PICK at \in Nat : CreateSessionAndRefreshToken(calls[c].user, at)
        BY <2>2, <3>1 DEF IssueSession
      <3> QED BY <3>1, <3>2, CreateInsertsToken
    <2>3. ASSUME NEW c \in Calls, RotateSession(c) PROVE TokensOnlyClose \/ TokenInserted
      <3> DEFINE t == calls[c].token
                 old == refresh[t].session
                 u == refresh[t].user
                 e == calls[c].at + RotatedTtl
                 n == nextSession
      <3>1. CASE Rotatable(t)
        <4>1. t \in TokenIds /\ t < nextToken
          BY <2>3 DEF RotateSession, CallsLinked
        <4>2. old \in SessionIds /\ u \in Users /\ sessions[old].user = u
          BY <4>1 DEF TokensLinked
        <4>3. e \in Nat /\ calls[c].at + RefreshTtl \in Nat
          BY ConstantsAssumption DEF TypeOK, Call
        <4>4. InsertsAfter(old, u, e)
          <5>1. old # 0
            BY <4>2, ConstantsAssumption DEF SessionIds
          <5> QED BY <2>3, <3>1, <4>2, <5>1 DEF RotateSession, Rotate, Rotatable, InsertsAfter
        <4>5. n \in SessionIds /\ nextSession' = n + 1 /\ sessions'[n].user = u
          <5>1. /\ n \in SessionIds
                /\ nextSession' = n + 1
                /\ sessions'[n] = [state |-> "active", user |-> u, expiresAt |-> e]
            BY <4>2, <4>3, <4>4, InsertEffect
          <5> QED BY <5>1
        <4>6. n < nextSession'
          BY <4>5 DEF SessionIds
        <4>7. InsertRefreshToken(n, u, calls[c].at + RefreshTtl, t)
          BY <2>3, <3>1 DEF RotateSession, Rotate
        <4>8. refresh[t].state # "none"
          BY <3>1 DEF Rotatable
        <4> QED BY <4>1, <4>2, <4>3, <4>5, <4>6, <4>7, <4>8 DEF TokenInserted
      <3>2. CASE ~Rotatable(t)
        BY <1>b, <2>3, <3>2 DEF RotateSession
      <3> QED BY <3>1, <3>2
    <2>4. ASSUME NEW c \in Calls, SignOutTokens(c) PROVE TokensOnlyClose
      <3> DEFINE T == {t \in TokenIds : refresh[t].session = calls[c].session}
      <3>1. refresh' = RevokeTokens(LiveTokensOf(T, MaxTokensPerSession))
        BY <2>4 DEF SignOutTokens
      <3>2. nextToken' = nextToken
        BY <2>4 DEF SignOutTokens
      <3>3. T \in SUBSET TokenIds
        OBVIOUS
      <3> HIDE DEF T
      <3> QED BY <3>1, <3>2, <3>3, LiveTokensExist, TokenWritesClose
    <2> QED BY <1>2, <2>1, <2>2, <2>3, <2>4 DEF CallStep
  <1>3. CASE StoreStep
    <2>1. ASSUME NEW before \in 0 .. now, CleanupExpiredSessions(before) PROVE TokensOnlyClose
      BY <1>b, <2>1 DEF CleanupExpiredSessions
    <2>2. ASSUME NEW before \in 0 .. now, CleanupExpiredRefreshTokens(before)
          PROVE  TokensOnlyClose
      <3> DEFINE T == FirstExpired({t \in TokenIds : TokenExists(t)
                                      /\ refresh[t].expiresAt < before}, refresh)
      <3>1. T \in SUBSET TokenIds /\ \A t \in T : refresh[t].state # "none"
        BY DEF FirstExpired, TokenExists
      <3> QED BY <2>2, <3>1, TokenWritesClose DEF CleanupExpiredRefreshTokens
    <2>3. ASSUME NEW s \in SessionIds, CreateRefreshToken(s) PROVE TokenInserted
      <3>1. sessions[s].user \in Users /\ s < nextSession
        BY <2>3, ConstantsAssumption
        DEF CreateRefreshToken, SessionExists, RowsInOrder, TypeOK, SessionIds
      <3>2. now + RefreshTtl \in Nat
        BY ConstantsAssumption DEF TypeOK
      <3>3. /\ InsertRefreshToken(s, sessions[s].user, now + RefreshTtl, 0)
            /\ UNCHANGED <<sessions, nextSession>>
        BY <2>3 DEF CreateRefreshToken
      <3> QED BY <3>1, <3>2, <3>3 DEF TokenInserted
    <2>4. ASSUME NEW t \in TokenIds, ConsumeRefreshToken(t) PROVE TokensOnlyClose
      BY <2>4, TokenWritesClose DEF ConsumeRefreshToken
    <2> QED BY <1>3, <2>1, <2>2, <2>3, <2>4 DEF StoreStep
  <1>4. CASE Tick \/ UNCHANGED vars
    BY <1>b, <1>4 DEF Tick, vars, tables
  <1> QED BY <1>1, <1>2, <1>3, <1>4 DEF Next

(* Tokens keep naming a session of their user. *)
LEMMA TokensKeepLinked ==
    ASSUME TypeOK, TypeOK', RowsInOrder, TokensLinked, RowsOnlyClose \/ RowInserted,
           TokensOnlyClose \/ TokenInserted
    PROVE  TokensLinked'
  <1>1. /\ nextSession' >= nextSession
        /\ \A s \in SessionIds : s < nextSession => sessions'[s].user = sessions[s].user
    <2>1. CASE RowsOnlyClose
      BY <2>1, ConstantsAssumption DEF RowsOnlyClose, TypeOK
    <2>2. CASE RowInserted
      <3>1. PICK old \in SessionIds \cup {0}, u \in Users, e \in Nat : InsertsAfter(old, u, e)
        BY <2>2 DEF RowInserted
      <3>2. /\ nextSession \in SessionIds
            /\ nextSession' = nextSession + 1
            /\ old # 0 => sessions'[old].user = sessions[old].user
            /\ \A s \in SessionIds \ {nextSession, old} : sessions'[s] = sessions[s]
        BY <3>1, InsertEffect
      <3>3. nextSession \in Nat /\ SessionIds \subseteq Nat \ {0}
        BY <3>2 DEF SessionIds
      <3>4. ASSUME NEW s \in SessionIds, s < nextSession
            PROVE  sessions'[s].user = sessions[s].user
        <4>1. s # nextSession /\ s # 0
          BY <3>3, <3>4
        <4> QED BY <3>2, <4>1
      <3> QED BY <3>2, <3>3, <3>4
    <2> QED BY <2>1, <2>2
  <1>2. CASE TokensOnlyClose
    <2> SUFFICES ASSUME NEW t \in TokenIds
                 PROVE  /\ t < nextToken => /\ refresh[t].session \in SessionIds
                                            /\ refresh[t].session < nextSession'
                                            /\ refresh[t].user \in Users
                                            /\ refresh[t].user = sessions'[refresh[t].session].user
                        /\ t >= nextToken => refresh'[t].state = "none"
      BY <1>2 DEF TokensLinked, TokensOnlyClose
    <2>1. t >= nextToken => refresh'[t].state = "none"
      BY <1>2 DEF TokensLinked, TokensOnlyClose
    <2>2. ASSUME t < nextToken
          PROVE  /\ refresh[t].session \in SessionIds
                 /\ refresh[t].session < nextSession'
                 /\ refresh[t].user \in Users
                 /\ refresh[t].user = sessions'[refresh[t].session].user
      <3>1. /\ refresh[t].session \in SessionIds
            /\ refresh[t].session < nextSession
            /\ refresh[t].user \in Users
            /\ refresh[t].user = sessions[refresh[t].session].user
        BY <2>2 DEF TokensLinked
      <3>2. refresh[t].session < nextSession'
        BY <1>1, <3>1, ConstantsAssumption DEF TypeOK, SessionIds
      <3> QED BY <1>1, <3>1, <3>2
    <2> QED BY <2>1, <2>2
  <1>3. CASE TokenInserted
    <2>1. PICK s \in SessionIds, u \in Users, e \in Nat, old \in TokenIds \cup {0} :
              /\ s < nextSession'
              /\ sessions'[s].user = u
              /\ old # 0 => refresh[old].state # "none"
              /\ InsertRefreshToken(s, u, e, old)
      BY <1>3 DEF TokenInserted
    <2>2. RevokeTokens({old}) \in [TokenIds -> RefreshToken]
      BY TokenWritesType
    <2>3. /\ nextToken \in TokenIds /\ nextToken' = nextToken + 1
          /\ refresh'[nextToken] = [state |-> "active", session |-> s, user |-> u, expiresAt |-> e]
          /\ \A t \in TokenIds \ {nextToken} : refresh'[t] = RevokeTokens({old})[t]
      BY <2>1, <2>2 DEF InsertRefreshToken
    <2>4. \A t \in TokenIds \ {nextToken} :
              /\ refresh'[t].session = refresh[t].session
              /\ refresh'[t].user = refresh[t].user
              /\ refresh[t].state = "none" /\ t # old => refresh'[t].state = "none"
      BY <2>3 DEF RevokeTokens, TypeOK, RefreshToken
    <2>5. nextToken \in Nat /\ TokenIds \subseteq Nat
      BY <2>3 DEF TokenIds
    <2> SUFFICES ASSUME NEW t \in TokenIds
                 PROVE  /\ t < nextToken + 1 =>
                              /\ refresh'[t].session \in SessionIds
                              /\ refresh'[t].session < nextSession'
                              /\ refresh'[t].user \in Users
                              /\ refresh'[t].user = sessions'[refresh'[t].session].user
                        /\ t >= nextToken + 1 => refresh'[t].state = "none"
      BY <2>3 DEF TokensLinked
    <2>6. CASE t = nextToken
      <3>1. ~(t >= nextToken + 1)
        BY <2>5, <2>6
      <3>2. refresh'[t].session = s /\ refresh'[t].user = u
        BY <2>3, <2>6
      <3> QED BY <2>1, <3>1, <3>2
    <2>7. CASE t # nextToken
      <3>1. (t < nextToken + 1 => t < nextToken) /\ (t >= nextToken + 1 => t >= nextToken)
        BY <2>5, <2>7
      <3>2. refresh'[t].session = refresh[t].session /\ refresh'[t].user = refresh[t].user
        BY <2>4, <2>7
      <3>3. ASSUME t < nextToken
            PROVE  /\ refresh[t].session \in SessionIds
                   /\ refresh[t].session < nextSession'
                   /\ refresh[t].user \in Users
                   /\ refresh[t].user = sessions'[refresh[t].session].user
        <4>1. /\ refresh[t].session \in SessionIds
              /\ refresh[t].session < nextSession
              /\ refresh[t].user \in Users
              /\ refresh[t].user = sessions[refresh[t].session].user
          BY <3>3 DEF TokensLinked
        <4>2. refresh[t].session < nextSession'
          BY <1>1, <4>1, ConstantsAssumption DEF TypeOK, SessionIds
        <4> QED BY <1>1, <4>1, <4>2
      <3>4. ASSUME t >= nextToken PROVE refresh'[t].state = "none"
        <4>1. refresh[t].state = "none" /\ t # old
          BY <2>1, <3>4 DEF TokensLinked, TokenIds
        <4> QED BY <2>4, <2>7, <4>1
      <3> QED BY <3>1, <3>2, <3>3, <3>4
    <2> QED BY <2>6, <2>7
  <1> QED BY <1>2, <1>3

(* Calls in progress keep knowing what they have read. *)
LEMMA CallsKeepLinked ==
    ASSUME TypeOK, TypeOK', RowsInOrder, TokensLinked, CallsLinked, [Next]_vars,
           TokensOnlyClose \/ TokenInserted
    PROVE  CallsLinked'
  <1>1. nextToken' = nextToken \/ nextToken' = nextToken + 1
    BY DEF TokensOnlyClose, TokenInserted, InsertRefreshToken
  <1>2. \A t \in TokenIds : t < nextToken => t < nextToken'
    BY <1>1, ConstantsAssumption DEF TypeOK, TokenIds
  <1>3. ASSUME NEW c \in Calls, NEW call,
               calls' = calls \/ calls' = [calls EXCEPT ![c] = call],
               /\ call.op \in {"signIn", "revokeOthers"} => call.user \in Users
               /\ call.op \in {"updateRead", "updateUser", "updateRotate"} =>
                     call.token \in TokenIds /\ call.token < nextToken
               /\ call.op \in {"signOutTokens", "revokeOne", "revokeOthers"} =>
                     call.session \in SessionIds
        PROVE  CallsLinked'
    <2> SUFFICES ASSUME NEW d \in Calls
                 PROVE  /\ calls'[d].op \in {"signIn", "revokeOthers"} => calls'[d].user \in Users
                        /\ calls'[d].op \in {"updateRead", "updateUser", "updateRotate"} =>
                              calls'[d].token \in TokenIds /\ calls'[d].token < nextToken'
                        /\ calls'[d].op \in {"signOutTokens", "revokeOne", "revokeOthers"} =>
                              calls'[d].session \in SessionIds
      BY DEF CallsLinked
    <2>1. calls'[d] = calls[d] \/ calls'[d] = call
      BY <1>3 DEF TypeOK
    <2>2. CASE calls'[d] = calls[d]
      BY <1>2, <2>2 DEF CallsLinked
    <2>3. CASE calls'[d] = call
      BY <1>2, <1>3, <2>3
    <2> QED BY <2>1, <2>2, <2>3
  <1>4. ASSUME UNCHANGED calls PROVE CallsLinked'
    BY <1>2, <1>4 DEF CallsLinked
  <1>5. ASSUME NEW c \in Calls, Return(c) PROVE CallsLinked'
    BY <1>3, <1>5 DEF Return, Idle
  <1>6. CASE UserStep
    BY <1>4, <1>6
    DEF UserStep, Provision, ResetPassword, DeleteUser, CreateSession, RevokeRefreshTokensForUser
  <1>7. CASE StoreStep
    BY <1>4, <1>7
    DEF StoreStep, CleanupExpiredSessions, CleanupExpiredRefreshTokens, CreateRefreshToken,
        ConsumeRefreshToken
  <1>8. CASE Tick \/ UNCHANGED vars
    BY <1>4, <1>8 DEF Tick, vars
  <1>9. CASE CallStep
    <2>a. Idle.op = "idle" /\ Idle = [op |-> "idle", user |-> Nobody, session |-> 0,
                                      token |-> 0, at |-> 0]
      BY DEF Idle
    <2>1. ASSUME NEW c \in Calls,
                 \/ IssueSession(c)
                 \/ RotateSession(c)
                 \/ SignOutTokens(c)
                 \/ RevokeOne(c)
                 \/ RevokeOthers(c)
                 \/ Crash(c)
          PROVE  CallsLinked'
      BY <1>5, <2>1 DEF IssueSession, RotateSession, SignOutTokens, RevokeOne, RevokeOthers, Crash
    <2>2. ASSUME NEW c \in Calls, NEW u \in Users, SignIn(c, u) PROVE CallsLinked'
      <3> DEFINE call == [Idle EXCEPT !.op = "signIn", !.user = u, !.at = now]
      <3>1. call.op = "signIn" /\ call.user = u
        BY <2>a
      <3>2. calls' = [calls EXCEPT ![c] = call]
        BY <2>2 DEF SignIn, Start
      <3> HIDE DEF call
      <3> QED BY <1>3, <3>1, <3>2
    <2>3. ASSUME NEW c \in Calls, NEW t \in TokenIds, UpdateSession(c, t) PROVE CallsLinked'
      <3> DEFINE call == [Idle EXCEPT !.op = "updateRead", !.token = t, !.at = now]
      <3>1. call.op = "updateRead" /\ call.token = t
        BY <2>a
      <3>2. calls' = [calls EXCEPT ![c] = call] /\ t < nextToken
        <4>1. refresh[t].state # "none"
          BY <2>3 DEF UpdateSession, TokenExists
        <4>2. ~(t >= nextToken)
          BY <4>1 DEF TokensLinked
        <4>3. t < nextToken
          BY <4>2, ConstantsAssumption DEF TypeOK, TokenIds
        <4> QED BY <2>3, <4>3 DEF UpdateSession, Start
      <3> HIDE DEF call
      <3> QED BY <1>3, <3>1, <3>2
    <2>4. ASSUME NEW c \in Calls, NEW op \in {"updateUser", "updateRotate"},
                 calls[c].op \in {"updateRead", "updateUser"},
                 calls' = [calls EXCEPT ![c].op = op]
          PROVE  CallsLinked'
      <3> DEFINE call == [calls[c] EXCEPT !.op = op]
      <3>1. call.op = op /\ call.token = calls[c].token
        BY DEF TypeOK, Call
      <3>2. calls' = [calls EXCEPT ![c] = call]
        BY <2>4
      <3>3. call.token \in TokenIds /\ call.token < nextToken
        BY <2>4, <3>1 DEF CallsLinked
      <3> HIDE DEF call
      <3> QED BY <1>3, <3>1, <3>2, <3>3
    <2>5. ASSUME NEW c \in Calls, ReadSession(c) PROVE CallsLinked'
      BY <1>5, <2>4, <2>5 DEF ReadSession
    <2>6. ASSUME NEW c \in Calls, ReadUser(c) PROVE CallsLinked'
      BY <1>5, <2>4, <2>6 DEF ReadUser
    <2>7. ASSUME NEW c \in Calls, NEW s \in SessionIds, NEW op \in {"signOutTokens", "revokeOne"},
                 calls' = [calls EXCEPT ![c] = [Idle EXCEPT !.op = op, !.session = s]]
          PROVE  CallsLinked'
      <3> DEFINE call == [Idle EXCEPT !.op = op, !.session = s]
      <3>1. call.op = op /\ call.session = s
        BY <2>a
      <3>2. calls' = [calls EXCEPT ![c] = call]
        BY <2>7
      <3> HIDE DEF call
      <3> QED BY <1>3, <3>1, <3>2
    <2>8. ASSUME NEW c \in Calls, NEW s \in SessionIds, SignOut(c, s) \/ RevokeSession(c, s)
          PROVE  CallsLinked'
      BY <2>7, <2>8 DEF SignOut, RevokeSession, Start
    <2>9. ASSUME NEW c \in Calls, NEW s \in SessionIds, RevokeOtherSessions(c, s)
          PROVE  CallsLinked'
      <3> DEFINE u == sessions[s].user
                 call == [Idle EXCEPT !.op = "revokeOthers", !.user = u, !.session = s]
      <3>1. call.op = "revokeOthers" /\ call.user = u /\ call.session = s
        BY <2>a
      <3>2. calls' = [calls EXCEPT ![c] = call]
        BY <2>9 DEF RevokeOtherSessions, Start
      <3>3. u \in Users
        BY <2>9, ConstantsAssumption
        DEF RevokeOtherSessions, Authorized, TokenVerifies, RowsInOrder
      <3> HIDE DEF call
      <3> QED BY <1>3, <3>1, <3>2, <3>3
    <2> QED BY <1>9, <2>1, <2>2, <2>3, <2>5, <2>6, <2>8, <2>9 DEF CallStep
  <1> QED BY <1>6, <1>7, <1>8, <1>9 DEF Next

-----------------------------------------------------------------------------
(* The theorems                                                            *)

(* Every step of the store keeps the tables and the calls well typed. *)
LEMMA TypeStep ==
    ASSUME TypeOK, RowsInOrder, TokensLinked, CallsLinked, [Next]_vars
    PROVE  TypeOK'
  <1>1. CASE Tick
    BY <1>1, ConstantsAssumption DEF Tick, TypeOK, tables, users, history
  <1>2. CASE UNCHANGED vars
    BY <1>2 DEF vars, TypeOK, tables, users, history
  <1> QED BY <1>1, <1>2, TypeUserStep, TypeCallStep, TypeStoreStep DEF Next

(* The empty store satisfies the inductive invariant. *)
LEMMA InvInit == Init => IInv
  <1> SUFFICES ASSUME Init PROVE IInv
    OBVIOUS
  <1>1. TypeOK
    BY ConstantsAssumption
    DEF Init, TypeOK, UserStates, Session, RowStates, RefreshToken, Call, Ops, Idle
  <1>2. RowsInOrder /\ ParentsSpent /\ OneSuccessor /\ OneOpenPerFamily
    BY ConstantsAssumption
    DEF Init, RowsInOrder, ParentsSpent, OneSuccessor, OneOpenPerFamily, SessionIds
  <1>3. TokensLinked
    BY ConstantsAssumption DEF Init, TokensLinked, TokenIds
  <1>4. CallsLinked
    BY DEF Init, CallsLinked, Idle
  <1> QED BY <1>1, <1>2, <1>3, <1>4 DEF IInv

(* Every step of the store preserves the inductive invariant. *)
LEMMA InvStep == IInv /\ [Next]_vars => IInv'
  <1> SUFFICES ASSUME IInv, [Next]_vars PROVE IInv'
    OBVIOUS
  <1> USE DEF IInv
  <1>1. TypeOK'
    BY TypeStep
  <1>2. RowsOnlyClose \/ RowInserted
    BY RowsStep
  <1>3. TokensOnlyClose \/ TokenInserted
    BY TokensStep
  <1>4. RowsInOrder' /\ ParentsSpent' /\ OneSuccessor' /\ OneOpenPerFamily'
    BY <1>1, <1>2, CloseKeepsRows, InsertKeepsRows
  <1>5. TokensLinked'
    BY <1>1, <1>2, <1>3, TokensKeepLinked
  <1>6. CallsLinked'
    BY <1>1, <1>3, CallsKeepLinked
  <1> QED BY <1>1, <1>4, <1>5, <1>6

(* The inductive invariant holds in every state of the store: rows and tokens *)
(* stay linked, a session has one successor, a sign-in one open session.     *)
THEOREM InductiveInvariant == Spec => []IInv
  BY InvInit, InvStep, PTL DEF Spec

(* The tables, the calls in progress and the history stay well typed. *)
THEOREM TypeCorrect == Spec => []TypeOK
  <1>1. IInv => TypeOK
    BY DEF IInv
  <1> QED BY <1>1, InductiveInvariant, PTL

(* A session is rotated at most once, however many updateSession calls run. *)
THEOREM RotatedAtMostOnce == Spec => []OneSuccessor
  <1>1. IInv => OneSuccessor
    BY DEF IInv
  <1> QED BY <1>1, InductiveInvariant, PTL

(* At most one session of each sign-in is open. *)
THEOREM OneOpenSession == Spec => []OneOpenPerFamily
  <1>1. IInv => OneOpenPerFamily
    BY DEF IInv
  <1> QED BY <1>1, InductiveInvariant, PTL

(* No step brings back a sign-in that has no usable session left. *)
LEMMA NoResurrectionStep ==
    ASSUME IInv, [Next]_vars, NEW f \in SessionIds, Opened(f), ~FamilyUsable(f)
    PROVE  ~FamilyUsable(f)'
  <1> USE DEF IInv
  <1>1. TypeOK'
    BY TypeStep
  <1> SUFFICES ASSUME NEW s \in SessionIds, family'[s] = f, Usable(s)' PROVE FALSE
    BY DEF FamilyUsable
  <1>2. /\ sessions'[s].state = "active" /\ sessions'[s].expiresAt > now'
        /\ now \in Nat /\ now' \in Nat /\ sessions'[s].expiresAt \in Nat
    BY <1>1, ConstantsAssumption DEF Usable, TypeOK, Session
  <1>3. CASE RowsOnlyClose
    <2>1. /\ sessions[s].state = "active"
          /\ sessions[s].expiresAt = sessions'[s].expiresAt
          /\ now <= now'
          /\ family[s] = f
      BY <1>2, <1>3 DEF RowsOnlyClose
    <2>2. Usable(s)
      BY <1>2, <2>1 DEF Usable
    <2> QED BY <2>1, <2>2 DEF FamilyUsable
  <1>4. CASE RowInserted
    <2>1. PICK old \in SessionIds \cup {0}, u \in Users, e \in Nat : InsertsAfter(old, u, e)
      BY <1>4 DEF RowInserted
    <2>2. /\ nextSession \in SessionIds
          /\ family'[nextSession] = IF old = 0 THEN nextSession ELSE family[old]
          /\ old # 0 => sessions'[old].state = "revoked"
          /\ \A r \in SessionIds \ {nextSession} : family'[r] = family[r]
          /\ \A r \in SessionIds \ {nextSession, old} : sessions'[r] = sessions[r]
      BY <2>1, InsertEffect
    <2>3. CASE s = nextSession
      <3>1. CASE old = 0
        <4>1. f = nextSession
          BY <2>2, <2>3, <3>1
        <4> QED BY <2>2, <4>1 DEF Opened, SessionIds
      <3>2. CASE old # 0
        <4>1. old \in SessionIds /\ family[old] = f /\ Usable(old)
          BY <2>1, <2>2, <2>3, <3>2 DEF InsertsAfter
        <4> QED BY <4>1 DEF FamilyUsable
    <3> QED BY <3>1, <3>2
    <2>4. CASE s # nextSession
      <3>1. s # old
        BY <1>2, <2>2, <2>4 DEF SessionIds
      <3>2. sessions'[s] = sessions[s] /\ family[s] = f /\ now' = now
        BY <2>1, <2>2, <2>4, <3>1 DEF InsertsAfter
      <3>3. Usable(s)
        BY <1>2, <3>2 DEF Usable
      <3> QED BY <3>2, <3>3 DEF FamilyUsable
    <2> QED BY <2>3, <2>4
  <1> QED BY <1>3, <1>4, RowsStep

(* Once every session of a sign-in is gone, only another sign-in helps. *)
THEOREM ClosedForGood == Spec => NoResurrection
  <1>1. ASSUME IInv, [Next]_vars
        PROVE  \A f \in SessionIds : Opened(f) /\ ~FamilyUsable(f) => ~FamilyUsable(f)'
    BY <1>1, NoResurrectionStep
  <1>2. IInv /\ [Next]_vars =>
          [\A f \in SessionIds : Opened(f) /\ ~FamilyUsable(f) => ~FamilyUsable(f)']_vars
    BY <1>1
  <1> QED BY <1>2, InductiveInvariant, PTL DEF Spec, NoResurrection

-----------------------------------------------------------------------------
(* Password reset                                                          *)

(* A page that is at least as long as the table holds every row of a user. *)
LEMMA WholePage ==
    ASSUME TypeOK, NEW u \in Users, NEW limit \in Nat, limit >= MaxSessions
    PROVE  OldestRows(u, limit) = RowsOf(u)
  <1>1. IsFiniteSet(SessionIds) /\ Cardinality(SessionIds) = MaxSessions
    BY FS_Interval, ConstantsAssumption DEF SessionIds
  <1>2. ASSUME NEW s \in RowsOf(u)
        PROVE  Cardinality({r \in RowsOf(u) : r < s}) < limit
    <2> DEFINE Older == {r \in RowsOf(u) : r < s}
    <2>1. s \in SessionIds /\ Older \subseteq SessionIds \ {s}
      BY DEF RowsOf, SessionIds
    <2>2. IsFiniteSet(SessionIds \ {s}) /\ Cardinality(SessionIds \ {s}) = MaxSessions - 1
      BY <1>1, <2>1, FS_RemoveElement
    <2>3. IsFiniteSet(Older) /\ Cardinality(Older) <= MaxSessions - 1
      BY <2>1, <2>2, FS_Subset
    <2>4. Cardinality(Older) \in Nat
      BY <2>3, FS_CardinalityType
    <2> QED BY <2>3, <2>4, ConstantsAssumption
  <1> QED BY <1>2 DEF OldestRows

\* No reset lies in the future.
MarksPassed == \A u \in Users : resetMark[u] <= nextSession

ResetInv == IInv /\ MarksPassed /\ ResetEndsOlderFamilies

(* Only a reset moves the mark of a user. *)
LEMMA MarksStep ==
    ASSUME [Next]_vars
    PROVE  UNCHANGED resetMark \/ \E u \in Users : ResetPassword(u)
  <1>1. CASE UserStep
    BY <1>1 DEF UserStep, Provision, DeleteUser, CreateSession, RevokeRefreshTokensForUser, history
  <1>2. CASE CallStep
    BY <1>2
    DEF CallStep, SignIn, IssueSession, UpdateSession, ReadSession, ReadUser, RotateSession,
        SignOut, SignOutTokens, RevokeSession, RevokeOne, RevokeOtherSessions, RevokeOthers,
        Crash, history
  <1>3. CASE StoreStep
    BY <1>3
    DEF StoreStep, CleanupExpiredSessions, CleanupExpiredRefreshTokens, CreateRefreshToken,
        ConsumeRefreshToken, history
  <1>4. CASE Tick \/ UNCHANGED vars
    BY <1>4 DEF Tick, vars, history
  <1> QED BY <1>1, <1>2, <1>3, <1>4 DEF Next

(* With the option on and a page as long as the table, the reset reaches   *)
(* every session, and no later step lets an older sign-in back in.         *)
LEMMA ResetStep ==
    ASSUME RevokeOnReset, ResetRevokeBatch >= MaxSessions, ResetInv, [Next]_vars
    PROVE  ResetInv'
  <1> USE DEF IInv, ResetInv
  <1>1. IInv'
    BY InvStep
  <1>2. nextSession \in Nat /\ nextSession' \in Nat /\ now \in Nat /\ now' \in Nat
    BY <1>1, ConstantsAssumption DEF TypeOK
  <1>a. SessionIds \subseteq Nat \ {0}
    BY DEF SessionIds
  <1>3. nextSession <= nextSession'
    <2>1. CASE RowsOnlyClose
      BY <1>2, <2>1 DEF RowsOnlyClose
    <2>2. CASE RowInserted
      BY <1>2, <2>2 DEF RowInserted, InsertsAfter, InsertSession
    <2> QED BY <2>1, <2>2, RowsStep
  <1>4. CASE UNCHANGED resetMark
    <2>1. MarksPassed'
      BY <1>2, <1>3, <1>4, ConstantsAssumption DEF MarksPassed, TypeOK
    <2>2. ResetEndsOlderFamilies'
      <3> SUFFICES ASSUME NEW s \in SessionIds, Usable(s)'
                   PROVE  family'[s] >= resetMark[sessions'[s].user]
        BY <1>4 DEF ResetEndsOlderFamilies
      <3>1. sessions'[s].state = "active" /\ sessions'[s].expiresAt > now'
        BY DEF Usable
      <3>2. CASE RowsOnlyClose
        <4>1. /\ sessions[s].state = "active"
              /\ sessions[s].expiresAt = sessions'[s].expiresAt
              /\ sessions[s].user = sessions'[s].user
              /\ family[s] = family'[s]
              /\ now <= now'
          BY <3>1, <3>2 DEF RowsOnlyClose
        <4>2. Usable(s)
          BY <1>2, <3>1, <4>1 DEF Usable, TypeOK, Session
        <4> QED BY <4>1, <4>2 DEF ResetEndsOlderFamilies
      <3>3. CASE RowInserted
        <4>1. PICK old \in SessionIds \cup {0}, u \in Users, e \in Nat : InsertsAfter(old, u, e)
          BY <3>3 DEF RowInserted
        <4>2. /\ nextSession \in SessionIds
              /\ sessions'[nextSession] = [state |-> "active", user |-> u, expiresAt |-> e]
              /\ family'[nextSession] = IF old = 0 THEN nextSession ELSE family[old]
              /\ old # 0 => sessions'[old].state = "revoked"
              /\ \A r \in SessionIds \ {nextSession} : family'[r] = family[r]
              /\ \A r \in SessionIds \ {nextSession, old} : sessions'[r] = sessions[r]
          BY <4>1, InsertEffect
        <4>3. CASE s = nextSession
          <5>1. sessions'[s].user = u
            BY <4>2, <4>3
          <5>2. CASE old = 0
            <6>1. family'[s] = nextSession
              BY <4>2, <4>3, <5>2
            <6>2. resetMark[u] <= nextSession /\ resetMark[u] \in Nat
              BY ConstantsAssumption DEF MarksPassed, TypeOK
            <6> QED BY <1>2, <5>1, <6>1, <6>2
          <5>3. CASE old # 0
            <6>1. /\ old \in SessionIds
                  /\ family'[s] = family[old]
                  /\ Usable(old)
                  /\ sessions[old].user = u
              BY <4>1, <4>2, <4>3, <5>3 DEF InsertsAfter
            <6> QED BY <5>1, <6>1 DEF ResetEndsOlderFamilies
          <5> QED BY <5>2, <5>3
        <4>4. CASE s # nextSession
          <5>1. s # old
            BY <1>a, <3>1, <4>2, <4>4
          <5>2. sessions'[s] = sessions[s] /\ family'[s] = family[s] /\ now' = now
            BY <4>1, <4>2, <4>4, <5>1 DEF InsertsAfter
          <5>3. Usable(s)
            BY <3>1, <5>2 DEF Usable
          <5> QED BY <5>2, <5>3 DEF ResetEndsOlderFamilies
        <4> QED BY <4>3, <4>4
      <3> QED BY <3>2, <3>3, RowsStep
    <2> QED BY <1>1, <2>1, <2>2
  <1>5. ASSUME NEW u \in Users, ResetPassword(u) PROVE ResetInv'
    <2> DEFINE S == {s \in RowsOf(u) : Usable(s)}
    <2>1. OldestRows(u, ResetRevokeBatch) = RowsOf(u)
      BY WholePage, ConstantsAssumption
    <2>2. /\ sessions' = RevokeRows(S)
          /\ resetMark' = [resetMark EXCEPT ![u] = nextSession]
          /\ UNCHANGED <<now, nextSession, family>>
      BY <1>5, <2>1 DEF ResetPassword
    <2>3. MarksPassed'
      BY <1>2, <2>2, ConstantsAssumption DEF MarksPassed, TypeOK
    <2>4. ResetEndsOlderFamilies'
      <3> SUFFICES ASSUME NEW s \in SessionIds, Usable(s)'
                   PROVE  family'[s] >= resetMark'[sessions'[s].user]
        BY DEF ResetEndsOlderFamilies
      <3>1. s \notin S /\ sessions'[s] = sessions[s]
        BY <2>2 DEF RevokeRows, Usable, TypeOK, Session
      <3>2. Usable(s)
        BY <2>2, <3>1 DEF Usable
      <3>3. sessions[s].user # u
        BY <3>1, <3>2 DEF RowsOf, SessionExists, Usable
      <3>4. sessions[s].user \in Users
        BY <1>2, <1>a, <3>2 DEF Usable, RowsInOrder
      <3>5. resetMark'[sessions[s].user] = resetMark[sessions[s].user]
        BY <2>2, <3>3, <3>4 DEF TypeOK
      <3> QED BY <2>2, <3>1, <3>2, <3>5 DEF ResetEndsOlderFamilies
    <2> QED BY <1>1, <2>3, <2>4
  <1> QED BY <1>4, <1>5, MarksStep

(* After a password reset no older sign-in is usable: the option is on and *)
(* the reset reads as many rows as the user can have.                      *)
THEOREM ResetEndsOlder ==
    ASSUME RevokeOnReset, ResetRevokeBatch >= MaxSessions
    PROVE  Spec => []ResetEndsOlderFamilies
  <1>1. Init => ResetInv
    <2>1. Init => MarksPassed
      BY DEF Init, MarksPassed
    <2>2. Init => ResetEndsOlderFamilies
      BY DEF Init, ResetEndsOlderFamilies, Usable
    <2> QED BY <2>1, <2>2, InvInit DEF ResetInv
  <1>2. ResetInv /\ [Next]_vars => ResetInv'
    BY ResetStep
  <1>3. ResetInv => ResetEndsOlderFamilies
    BY DEF ResetInv
  <1> QED BY <1>1, <1>2, <1>3, PTL DEF Spec


-----------------------------------------------------------------------------
(* Rotation and the user                                                   *)

(* Only a rotation gives a session a parent, and it asks for the user. *)
LEMMA RenewalStep ==
    ASSUME IInv, [Next]_vars, NEW s \in SessionIds, parent[s] # parent'[s]
    PROVE  Registered(sessions'[s].user)
  <1> USE DEF IInv
  <1>1. ASSUME NEW u, NEW e, InsertSession(u, e, 0) PROVE FALSE
    <2>1. parent' = [parent EXCEPT ![nextSession] = 0] /\ nextSession \in SessionIds
      BY <1>1 DEF InsertSession
    <2>2. parent[nextSession] = 0
      BY <2>1 DEF RowsInOrder, SessionIds
    <2> QED BY <2>1, <2>2 DEF TypeOK
  <1>2. ASSUME NEW u, NEW at, CreateSessionAndRefreshToken(u, at) PROVE FALSE
    BY <1>1, <1>2 DEF CreateSessionAndRefreshToken
  <1>3. ~Tick /\ ~UNCHANGED vars
    BY DEF Tick, vars, history
  <1>4. ~UserStep
    <2>1. ASSUME NEW u \in Users, NEW provider \in Providers, NEW open \in BOOLEAN,
                 Provision(u, provider, open)
          PROVE  FALSE
      BY <1>2, <2>1 DEF Provision
    <2>2. ASSUME NEW u \in Users,
                 ResetPassword(u) \/ DeleteUser(u) \/ RevokeRefreshTokensForUser(u)
          PROVE  FALSE
      BY <2>2 DEF ResetPassword, DeleteUser, RevokeRefreshTokensForUser, history
    <2>3. ASSUME NEW u \in Users, CreateSession(u) PROVE FALSE
      BY <1>1, <2>3 DEF CreateSession
    <2> QED BY <2>1, <2>2, <2>3 DEF UserStep
  <1>5. ~StoreStep
    BY DEF StoreStep, CleanupExpiredSessions, CleanupExpiredRefreshTokens, CreateRefreshToken,
           ConsumeRefreshToken, history
  <1>6. PICK c \in Calls : IssueSession(c) \/ RotateSession(c)
    BY <1>3, <1>4, <1>5
    DEF Next, CallStep, SignIn, UpdateSession, ReadSession, ReadUser, SignOut, SignOutTokens,
        RevokeSession, RevokeOne, RevokeOtherSessions, RevokeOthers, Crash, history
  <1>7. ~IssueSession(c)
    BY <1>2 DEF IssueSession
  <1> DEFINE t == calls[c].token
             u == refresh[t].user
  <1>8. Rotatable(t) /\ Rotate(t, calls[c].at)
    BY <1>6, <1>7 DEF RotateSession
  <1>9. Registered(u)
    BY <1>8 DEF Rotatable, HasPasswordIdentity
  <1>10. PICK old, e : InsertSession(u, e, old)
    BY <1>8 DEF Rotate
  <1> HIDE DEF t, u
  <1>11. s = nextSession
    BY <1>10 DEF InsertSession, TypeOK
  <1>12. sessions'[nextSession].user = u
    <2> DEFINE row == [state |-> "active", user |-> u, expiresAt |-> e]
    <2>1. row.user = u
      OBVIOUS
    <2>2. sessions' = [RevokeRows({old}) EXCEPT ![nextSession] = row]
      BY <1>10 DEF InsertSession
    <2> HIDE DEF row
    <2>3. RevokeRows({old}) = [r \in SessionIds |-> RevokeRows({old})[r]]
      BY DEF RevokeRows
    <2>4. sessions'[nextSession] = row
      BY <1>11, <2>2, <2>3
    <2> QED BY <2>1, <2>4
  <1> QED BY <1>9, <1>11, <1>12

(* No rotation serves a user who is gone, whatever the sign-ins that were  *)
(* in progress when deleteUser ran have inserted since.                    *)
THEOREM DeletedUsersStayGone == Spec => DeletedUsersAreNotRenewed
  <1>1. IInv /\ [Next]_vars =>
          [\A s \in SessionIds : parent[s] # parent'[s] => Registered(sessions'[s].user)]_vars
    BY RenewalStep
  <1> QED BY <1>1, InductiveInvariant, PTL DEF Spec, DeletedUsersAreNotRenewed

-----------------------------------------------------------------------------
(* One token per session, unless the host adds tokens                      *)

OneTokenPerSession ==
    ~HostCalls =>
        \A t, v \in TokenIds :
            /\ t < nextToken
            /\ v < nextToken
            /\ refresh[t].session = refresh[v].session
            => t = v

TokenInv == IInv /\ OneTokenPerSession

(* A token is inserted with its session. *)
LEMMA TokenWithSession ==
    ASSUME IInv, ~HostCalls, [Next]_vars, nextToken' # nextToken
    PROVE  \E u, e, old : InsertRefreshToken(nextSession, u, e, old)
  <1>1. ASSUME NEW u, NEW at, CreateSessionAndRefreshToken(u, at)
        PROVE  \E e, old : InsertRefreshToken(nextSession, u, e, old)
    BY <1>1 DEF CreateSessionAndRefreshToken
  <1>2. ~Tick /\ ~UNCHANGED vars /\ ~StoreStep
    BY DEF Tick, vars, tables, StoreStep, CleanupExpiredSessions, CleanupExpiredRefreshTokens,
           CreateRefreshToken, ConsumeRefreshToken
  <1>3. CASE UserStep
    <2>1. PICK u \in Users, provider \in Providers, open \in BOOLEAN : Provision(u, provider, open)
      BY <1>3 DEF UserStep, ResetPassword, DeleteUser, CreateSession, RevokeRefreshTokensForUser
    <2> QED BY <1>1, <2>1 DEF Provision
  <1>4. CASE CallStep
    <2>1. PICK c \in Calls : IssueSession(c) \/ RotateSession(c)
      BY <1>4 DEF CallStep, SignIn, UpdateSession, ReadSession, ReadUser, SignOut, SignOutTokens,
                  RevokeSession, RevokeOne, RevokeOtherSessions, RevokeOthers, Crash, tables
    <2>2. CASE IssueSession(c)
      BY <1>1, <2>2 DEF IssueSession
    <2>3. CASE RotateSession(c)
      BY <2>3 DEF RotateSession, Rotate
    <2> QED BY <2>1, <2>2, <2>3
  <1> QED BY <1>2, <1>3, <1>4 DEF Next

LEMMA TokenInvStep == TokenInv /\ [Next]_vars => TokenInv'
  <1> SUFFICES ASSUME TokenInv, [Next]_vars, ~HostCalls PROVE OneTokenPerSession'
    BY InvStep DEF TokenInv, OneTokenPerSession
  <1>1. IInv /\ IInv' /\ TypeOK /\ TokensLinked
    BY InvStep DEF TokenInv, IInv
  <1>2. nextToken \in Nat /\ nextSession \in Nat /\ \A t \in TokenIds : t \in Nat
    BY <1>1, ConstantsAssumption DEF TypeOK, TokenIds
  <1>3. CASE TokensOnlyClose
    BY <1>3 DEF TokensOnlyClose, TokenInv, OneTokenPerSession
  <1>4. CASE TokenInserted
    <2>1. nextToken' = nextToken + 1
      BY <1>4 DEF TokenInserted, InsertRefreshToken
    <2>2. PICK u, e, old : InsertRefreshToken(nextSession, u, e, old)
      BY <1>1, <1>2, <2>1, TokenWithSession
    <2>3. nextToken \in TokenIds /\ refresh'[nextToken].session = nextSession
      <3> DEFINE row == [state |-> "active", session |-> nextSession, user |-> u, expiresAt |-> e]
      <3>1. row.session = nextSession
        OBVIOUS
      <3>2. /\ refresh' = [RevokeTokens({old}) EXCEPT ![nextToken] = row]
            /\ nextToken \in TokenIds
        BY <2>2 DEF InsertRefreshToken
      <3> HIDE DEF row
      <3>3. RevokeTokens({old}) = [r \in TokenIds |-> RevokeTokens({old})[r]]
        BY DEF RevokeTokens
      <3> QED BY <3>1, <3>2, <3>3
    <2>4. ASSUME NEW t \in TokenIds, t # nextToken
          PROVE  refresh'[t].session = refresh[t].session
      <3>1. refresh'[t] = RevokeTokens({old})[t]
        <4> DEFINE row == [state |-> "active", session |-> nextSession, user |-> u, expiresAt |-> e]
        <4>1. refresh' = [RevokeTokens({old}) EXCEPT ![nextToken] = row]
          BY <2>2 DEF InsertRefreshToken
        <4> HIDE DEF row
        <4>2. RevokeTokens({old}) = [r \in TokenIds |-> RevokeTokens({old})[r]]
          BY DEF RevokeTokens
        <4> QED BY <2>4, <4>1, <4>2
      <3> QED BY <1>1, <3>1 DEF RevokeTokens, TypeOK, RefreshToken
    <2>5. \A t \in TokenIds : t < nextToken => refresh[t].session < nextSession /\ refresh[t].session \in Nat
      BY <1>1, ConstantsAssumption DEF TokensLinked, SessionIds
    <2> SUFFICES ASSUME NEW t \in TokenIds, NEW v \in TokenIds, t < nextToken', v < nextToken',
                        refresh'[t].session = refresh'[v].session
                 PROVE  t = v
      BY DEF OneTokenPerSession
    <2>6. CASE t = nextToken /\ v # nextToken
      <3>1. v < nextToken
        BY <1>2, <2>1, <2>6
      <3> QED BY <1>2, <2>3, <2>4, <2>5, <2>6, <3>1
    <2>7. CASE v = nextToken /\ t # nextToken
      <3>1. t < nextToken
        BY <1>2, <2>1, <2>7
      <3> QED BY <1>2, <2>3, <2>4, <2>5, <2>7, <3>1
    <2>8. CASE t # nextToken /\ v # nextToken
      <3>1. t < nextToken /\ v < nextToken
        BY <1>2, <2>1, <2>8
      <3> QED BY <2>4, <2>8, <3>1 DEF TokenInv, OneTokenPerSession
    <2> QED BY <2>6, <2>7, <2>8
  <1> QED BY <1>1, <1>3, <1>4, TokensStep DEF IInv

(* Of the tokens of a sign-in, at most one can be rotated, unless the host *)
(* itself adds tokens to a session.                                        *)
THEOREM OneRotatable == Spec => []OneRotatablePerFamily
  <1>1. Init => TokenInv
    <2> SUFFICES ASSUME Init PROVE TokenInv
      OBVIOUS
    <2>1. IInv
      BY InvInit
    <2>2. nextToken = 1 /\ \A t \in TokenIds : t \in Nat /\ t >= 1
      BY ConstantsAssumption DEF Init, TokenIds
    <2> QED BY <2>1, <2>2 DEF TokenInv, OneTokenPerSession
  <1>2. TokenInv => OneRotatablePerFamily
    <2> SUFFICES ASSUME TokenInv, ~HostCalls, NEW t \in TokenIds, NEW v \in TokenIds,
                        Rotatable(t), Rotatable(v),
                        family[refresh[t].session] = family[refresh[v].session]
                 PROVE  t = v
      BY DEF OneRotatablePerFamily
    <2>1. /\ refresh[t].state = "active" /\ refresh[v].state = "active"
          /\ sessions[refresh[t].session].state = "active"
          /\ sessions[refresh[v].session].state = "active"
      BY DEF Rotatable, Usable
    <2>2. /\ t < nextToken /\ v < nextToken
          /\ refresh[t].session \in SessionIds /\ refresh[v].session \in SessionIds
      <3>1. nextToken \in Nat /\ t \in Nat /\ v \in Nat
        BY ConstantsAssumption DEF TokenInv, IInv, TypeOK, TokenIds
      <3>2. ~(t >= nextToken) /\ ~(v >= nextToken)
        BY <2>1 DEF TokenInv, IInv, TokensLinked
      <3> QED BY <3>1, <3>2 DEF TokenInv, IInv, TokensLinked
    <2>3. refresh[t].session = refresh[v].session
      BY <2>1, <2>2 DEF TokenInv, IInv, OneOpenPerFamily
    <2> QED BY <2>2, <2>3 DEF TokenInv, OneTokenPerSession
  <1> QED BY <1>1, <1>2, TokenInvStep, PTL DEF Spec

-----------------------------------------------------------------------------
(* The store implements SessionFamilies                                    *)

\* The first session of a sign-in, which names its family.
Root(f) == Opened(f) /\ family[f] = f

\* The head is the usable session of the family, and says when there is none.
HeadsKnown ==
    /\ FamilyHead \in [SessionIds -> 0 .. MaxSessions + 1]
    /\ \A f \in SessionIds :
          /\ ~Root(f) => FamilyHead[f] = 0
          /\ Root(f) /\ ~FamilyUsable(f) => FamilyHead[f] = MaxSessions + 1
          /\ \A s \in SessionIds :
                Root(f) /\ family[s] = f /\ Usable(s) => FamilyHead[f] = s

(* A family has one usable session at most, so CHOOSE has no choice. *)
LEMMA HeadsAreKnown == IInv => HeadsKnown
  <1> SUFFICES ASSUME IInv PROVE HeadsKnown
    OBVIOUS
  <1>0. MaxSessions \in Nat /\ SessionIds = 1 .. MaxSessions
    BY ConstantsAssumption DEF SessionIds
  <1>1. ASSUME NEW f \in SessionIds, ~Root(f) PROVE FamilyHead[f] = 0
    BY <1>1 DEF FamilyHead, Root
  <1>2. ASSUME NEW f \in SessionIds, Root(f), ~FamilyUsable(f)
        PROVE  FamilyHead[f] = MaxSessions + 1
    BY <1>2 DEF FamilyHead, Root
  <1>3. ASSUME NEW f \in SessionIds, NEW s \in SessionIds, Root(f), family[s] = f, Usable(s)
        PROVE  FamilyHead[f] = s
    <2>1. FamilyUsable(f)
      BY <1>3 DEF FamilyUsable
    <2> DEFINE P(r) == family[r] = f /\ Usable(r)
               h == CHOOSE r \in SessionIds : P(r)
    <2>2. FamilyHead[f] = h
      BY <1>3, <2>1 DEF FamilyHead, Root
    <2>3. h \in SessionIds /\ P(h)
      <3>1. P(s)
        BY <1>3
      <3> HIDE DEF P
      <3> QED BY <3>1
    <2>4. h = s
      BY <1>3, <2>3 DEF IInv, OneOpenPerFamily, Usable
    <2> QED BY <2>2, <2>4
  <1>4. FamilyHead \in [SessionIds -> 0 .. MaxSessions + 1]
    <2>1. ASSUME NEW f \in SessionIds PROVE FamilyHead[f] \in 0 .. MaxSessions + 1
      <3>1. CASE ~Root(f)
        BY <1>0, <1>1, <3>1
      <3>2. CASE Root(f) /\ ~FamilyUsable(f)
        BY <1>0, <1>2, <3>2
      <3>3. CASE Root(f) /\ FamilyUsable(f)
        BY <1>0, <1>3, <3>3 DEF FamilyUsable
      <3> QED BY <3>1, <3>2, <3>3
    <2> DEFINE H(f) == FamilyHead[f]
    <2>2. FamilyHead = [f \in SessionIds |-> H(f)]
      BY DEF FamilyHead
    <2> QED BY <2>1, <2>2
  <1> QED BY <1>1, <1>2, <1>3, <1>4 DEF HeadsKnown

(* The head of a family is a session that exists. *)
LEMMA HeadsInUse ==
    ASSUME IInv, NEW f \in SessionIds, FamilyHead[f] \in SessionIds
    PROVE  /\ Root(f)
           /\ FamilyHead[f] < nextSession
           /\ family[FamilyHead[f]] = f
           /\ Usable(FamilyHead[f])
  <1>1. HeadsKnown
    BY HeadsAreKnown
  <1>2. MaxSessions \in Nat /\ SessionIds = 1 .. MaxSessions
    BY ConstantsAssumption DEF SessionIds
  <1>3. Root(f)
    BY <1>1, <1>2 DEF HeadsKnown
  <1>4. FamilyUsable(f)
    BY <1>1, <1>2, <1>3 DEF HeadsKnown
  <1>5. PICK s \in SessionIds : family[s] = f /\ Usable(s)
    BY <1>4 DEF FamilyUsable
  <1>6. FamilyHead[f] = s
    BY <1>1, <1>3, <1>5 DEF HeadsKnown
  <1>7. s < nextSession
    <2>1. ~(s >= nextSession) /\ nextSession \in Nat /\ s \in Nat
      BY <1>2, <1>5 DEF Usable, IInv, RowsInOrder, TypeOK
    <2> QED BY <2>1
  <1> QED BY <1>3, <1>5, <1>6, <1>7

(* Closing rows closes the families whose head is among them. *)
LEMMA RowsCloseFamilies ==
    ASSUME IInv, IInv', HeadsKnown, HeadsKnown', RowsOnlyClose
    PROVE  [Abstract!FamiliesNext]_FamilyHead
  <1> DEFINE F == {f \in SessionIds : FamilyHead[f] \in SessionIds /\ FamilyHead'[f] # FamilyHead[f]}
  <1>1. MaxSessions \in Nat /\ SessionIds = 1 .. MaxSessions
    BY ConstantsAssumption DEF SessionIds
  <1>2. ASSUME NEW s \in SessionIds, Usable(s)' PROVE Usable(s) /\ family'[s] = family[s]
    <2>1. /\ sessions'[s].state = "active" /\ sessions[s].expiresAt > now'
          /\ now' >= now /\ family' = family
      BY <1>2 DEF Usable, RowsOnlyClose
    <2>2. sessions[s].state = "active"
      BY <2>1 DEF RowsOnlyClose
    <2>3. now \in Nat /\ now' \in Nat /\ sessions[s].expiresAt \in Nat
      BY ConstantsAssumption DEF IInv, TypeOK, Session
    <2>4. sessions[s].expiresAt > now
      BY <2>1, <2>3
    <2> QED BY <2>1, <2>2, <2>4 DEF Usable
  <1>3. ASSUME NEW f \in SessionIds PROVE Root(f)' <=> Root(f)
    BY DEF Root, Opened, RowsOnlyClose
  <1>4. ASSUME NEW f \in SessionIds
        PROVE  FamilyHead'[f] = IF f \in F THEN MaxSessions + 1 ELSE FamilyHead[f]
    <2>1. CASE ~Root(f)
      BY <1>1, <1>3, <2>1 DEF HeadsKnown
    <2>2. CASE Root(f) /\ ~FamilyUsable(f)'
      <3>1. FamilyHead'[f] = MaxSessions + 1
        BY <1>3, <2>2 DEF HeadsKnown
      <3>2. CASE FamilyUsable(f)
        BY <1>1, <2>2, <3>1, <3>2 DEF HeadsKnown, FamilyUsable
      <3>3. CASE ~FamilyUsable(f)
        BY <1>1, <2>2, <3>1, <3>3 DEF HeadsKnown
      <3> QED BY <3>2, <3>3
    <2>3. CASE Root(f) /\ FamilyUsable(f)'
      <3>1. PICK s \in SessionIds : family'[s] = f /\ Usable(s)'
        BY <2>3 DEF FamilyUsable
      <3>2. FamilyHead'[f] = s
        BY <1>3, <2>3, <3>1 DEF HeadsKnown
      <3>3. FamilyHead[f] = s
        BY <1>2, <2>3, <3>1 DEF HeadsKnown
      <3> QED BY <3>2, <3>3
    <2> QED BY <2>1, <2>2, <2>3
  <1>5. FamilyHead' = [f \in SessionIds |-> IF f \in F THEN MaxSessions + 1 ELSE FamilyHead[f]]
    <2>1. FamilyHead' = [f \in SessionIds |-> FamilyHead'[f]]
      BY DEF HeadsKnown
    <2> HIDE DEF F
    <2> QED BY <1>4, <2>1
  <1>6. Abstract!Close(F)
    BY <1>1, <1>5 DEF Abstract!Close, Abstract!IsOpen, Abstract!Families, Abstract!Closed
  <1>7. F \in SUBSET Abstract!Families
    BY <1>1 DEF Abstract!Families
  <1> QED BY <1>6, <1>7 DEF Abstract!FamiliesNext

(* A sign-in opens a family and a rotation moves the head of one, or       *)
(* either closes it when the session is stored too late to be used.        *)
LEMMA InsertMovesHead ==
    ASSUME IInv, IInv', HeadsKnown, HeadsKnown', RowInserted
    PROVE  [Abstract!FamiliesNext]_FamilyHead
  <1>1. PICK old \in SessionIds \cup {0}, u \in Users, e \in Nat : InsertsAfter(old, u, e)
    BY DEF RowInserted
  <1>0. nextSession \in SessionIds
    BY <1>1, InsertEffect DEF IInv
  <1>n. PICK n \in SessionIds : n = nextSession
    BY <1>0
  <1>g. PICK g : g = IF old = 0 THEN n ELSE family[old]
    OBVIOUS
  <1>2. /\ n \in SessionIds
        /\ nextSession' = n + 1
        /\ old # 0 => old < n
        /\ sessions'[n] = [state |-> "active", user |-> u, expiresAt |-> e]
        /\ family'[n] = g
        /\ old # 0 => sessions'[old].state = "revoked"
        /\ \A s \in SessionIds \ {n} : family'[s] = family[s]
        /\ \A s \in SessionIds \ {n, old} : sessions'[s] = sessions[s]
    BY <1>1, <1>n, <1>g, InsertEffect DEF IInv
  <1>3. /\ MaxSessions \in Nat /\ SessionIds = 1 .. MaxSessions /\ n \in Nat
        /\ Abstract!Families = SessionIds
    BY <1>n, ConstantsAssumption DEF IInv, TypeOK, SessionIds, Abstract!Families
  <1>4. /\ now' = now
        /\ old # 0 => Usable(old)
    BY <1>1 DEF InsertsAfter
  <1>5. g \in SessionIds /\ (old # 0 => g < n)
    <2>1. CASE old = 0
      BY <1>2, <1>g, <2>1
    <2>2. CASE old # 0
      <3>1. family[old] \in SessionIds /\ family[old] <= old
        BY <1>2, <1>n, <2>2 DEF IInv, RowsInOrder
      <3>2. family[old] < n
        BY <1>2, <1>3, <2>2, <3>1
      <3> QED BY <1>g, <2>2, <3>1, <3>2
    <2> QED BY <2>1, <2>2
  <1>6. \A h \in SessionIds : FamilyHead[h] # n
    BY <1>2, <1>3, <1>n, HeadsInUse
  <1>7. ASSUME NEW f \in SessionIds, f # g PROVE FamilyHead'[f] = FamilyHead[f]
    <2>1. CASE f = n
      <3>1. ~Root(f) /\ ~Root(f)'
        BY <1>2, <1>3, <1>7, <1>n, <2>1 DEF Root, Opened
      <3> QED BY <3>1 DEF HeadsKnown
    <2>2. CASE f # n
      <3>1. Root(f)' <=> Root(f)
        BY <1>2, <1>3, <1>n, <2>2 DEF Root, Opened
      <3>2. ASSUME NEW s \in SessionIds
            PROVE  family'[s] = f /\ Usable(s)' <=> family[s] = f /\ Usable(s)
        <4>1. CASE s = n
          <5>1. family'[n] # f
            BY <1>2, <1>7
          <5>2. ~Usable(n)
            BY <1>2, <1>3, <1>n DEF Usable, IInv, RowsInOrder
          <5> QED BY <4>1, <5>1, <5>2
        <4>2. CASE s # n /\ s = old
          BY <1>2, <1>3, <1>7, <1>g, <4>2
        <4>3. CASE s # n /\ s # old
          BY <1>2, <1>4, <4>3 DEF Usable
        <4> QED BY <4>1, <4>2, <4>3
      <3>3. CASE ~Root(f)
        BY <3>1, <3>3 DEF HeadsKnown
      <3>4. CASE Root(f) /\ FamilyUsable(f)
        <4>1. PICK s \in SessionIds : family[s] = f /\ Usable(s)
          BY <3>4 DEF FamilyUsable
        <4>2. family'[s] = f /\ Usable(s)'
          BY <3>2, <4>1
        <4>3. FamilyHead[f] = s
          BY <3>4, <4>1 DEF HeadsKnown
        <4>4. FamilyHead'[f] = s
          BY <3>1, <3>4, <4>2 DEF HeadsKnown
        <4> QED BY <4>3, <4>4
      <3>5. CASE Root(f) /\ ~FamilyUsable(f)
        <4>1. ~FamilyUsable(f)'
          BY <3>2, <3>5 DEF FamilyUsable
        <4> QED BY <3>1, <3>5, <4>1 DEF HeadsKnown
      <3> QED BY <3>3, <3>4, <3>5
    <2> QED BY <2>1, <2>2
  <1>8. ASSUME NEW v, FamilyHead'[g] = v PROVE FamilyHead' = [FamilyHead EXCEPT ![g] = v]
    BY <1>5, <1>7, <1>8 DEF HeadsKnown
  <1>9. Usable(n)' <=> e > now
    BY <1>2, <1>4 DEF Usable
  <1>10. CASE old = 0
    <2>1. g = n /\ Root(n)' /\ ~Root(n)
      BY <1>2, <1>3, <1>10, <1>n, <1>g DEF Root, Opened
    <2>2. FamilyHead[n] = 0
      BY <1>2, <2>1 DEF HeadsKnown
    <2>3. CASE e > now
      <3>1. FamilyHead'[n] = n
        BY <1>2, <1>9, <2>1, <2>3 DEF HeadsKnown
      <3>2. FamilyHead' = [FamilyHead EXCEPT ![n] = n]
        BY <1>8, <2>1, <3>1
      <3>3. Abstract!Open(n)
        BY <1>3, <1>6, <2>2, <3>2 DEF Abstract!Open, Abstract!Unopened
      <3> QED BY <1>2, <1>3, <3>3 DEF Abstract!FamiliesNext
    <2>4. CASE ~(e > now)
      <3>1. ASSUME NEW s \in SessionIds, family'[s] = n, Usable(s)' PROVE FALSE
        <4>1. s # n
          BY <1>9, <2>4, <3>1
        <4>2. sessions'[s].state = "active" /\ sessions'[n].state = "active"
          BY <1>2, <3>1 DEF Usable
        <4>3. s = n
          BY <1>2, <2>1, <3>1, <4>2 DEF IInv, OneOpenPerFamily
        <4> QED BY <4>1, <4>3
      <3>2. FamilyHead'[n] = MaxSessions + 1
        BY <1>2, <2>1, <3>1 DEF HeadsKnown, FamilyUsable
      <3>3. FamilyHead' = [FamilyHead EXCEPT ![n] = MaxSessions + 1]
        BY <1>8, <2>1, <3>2
      <3>4. Abstract!Miss(n)
        BY <2>2, <3>3 DEF Abstract!Miss, Abstract!Unopened, Abstract!Closed
      <3> QED BY <1>2, <1>3, <3>4 DEF Abstract!FamiliesNext
    <2> QED BY <2>3, <2>4
  <1>11. CASE old # 0
    <2>1. old \in SessionIds /\ Usable(old) /\ family[old] = g /\ g # n
      BY <1>3, <1>4, <1>5, <1>11, <1>g
    <2>2. Root(g)' <=> Root(g)
      BY <1>2, <1>3, <1>5, <1>n, <2>1 DEF Root, Opened
    <2>3. CASE ~Root(g)
      <3>1. FamilyHead'[g] = FamilyHead[g]
        BY <1>5, <2>2, <2>3 DEF HeadsKnown
      <3>2. FamilyHead' = FamilyHead
        BY <1>5, <1>7, <3>1 DEF HeadsKnown
      <3> QED BY <3>2
    <2>4. CASE Root(g)
      <3>1. FamilyHead[g] = old
        BY <1>5, <2>1, <2>4 DEF HeadsKnown
      <3>2. CASE e > now
        <4>1. FamilyHead'[g] = n
          BY <1>2, <1>5, <1>9, <2>2, <2>4, <3>2 DEF HeadsKnown
        <4>2. FamilyHead' = [FamilyHead EXCEPT ![g] = n]
          BY <1>8, <4>1
        <4>3. Abstract!Advance(g, n)
          BY <1>2, <1>3, <1>6, <1>11, <2>1, <3>1, <4>2 DEF Abstract!Advance, Abstract!IsOpen
        <4> QED BY <1>2, <1>3, <1>5, <4>3 DEF Abstract!FamiliesNext
      <3>3. CASE ~(e > now)
        <4>1. ASSUME NEW s \in SessionIds, family'[s] = g, Usable(s)' PROVE FALSE
          <5>1. s # n /\ s # old
            BY <1>2, <1>9, <1>11, <3>3, <4>1 DEF Usable
          <5>2. sessions'[s].state = "active" /\ sessions'[n].state = "active"
            BY <1>2, <4>1 DEF Usable
          <5>3. s = n
            BY <1>2, <4>1, <5>2 DEF IInv, OneOpenPerFamily
          <5> QED BY <5>1, <5>3
        <4>2. FamilyHead'[g] = MaxSessions + 1
          BY <1>5, <2>2, <2>4, <4>1 DEF HeadsKnown, FamilyUsable
        <4>3. FamilyHead' = [f \in SessionIds |-> IF f \in {g} THEN MaxSessions + 1
                                                             ELSE FamilyHead[f]]
          BY <1>7, <4>2 DEF HeadsKnown
        <4>4. Abstract!Close({g})
          BY <1>3, <2>1, <3>1, <4>3 DEF Abstract!Close, Abstract!IsOpen, Abstract!Closed
        <4> QED BY <1>3, <1>5, <4>4 DEF Abstract!FamiliesNext
      <3> QED BY <3>2, <3>3
    <2> QED BY <2>3, <2>4
  <1> QED BY <1>10, <1>11

(* Every step of the store is a step of SessionFamilies or invisible to it. *)
LEMMA FamiliesStep ==
    ASSUME IInv, IInv', HeadsKnown, HeadsKnown', [Next]_vars
    PROVE  [Abstract!FamiliesNext]_FamilyHead
  BY RowsStep, RowsCloseFamilies, InsertMovesHead DEF IInv

(* No session is in use before the first sign-in. *)
LEMMA FamiliesStart == Init => Abstract!FamiliesInit
  <1> SUFFICES ASSUME Init PROVE Abstract!FamiliesInit
    OBVIOUS
  <1>1. SessionIds = Abstract!Families /\ \A f \in SessionIds : ~Opened(f)
    BY ConstantsAssumption DEF Init, Opened, SessionIds, Abstract!Families
  <1> QED BY <1>1 DEF FamilyHead, Abstract!FamiliesInit, Abstract!Unopened

(* Whatever the calls, the clean-ups and the clock do, a client sees what  *)
(* SessionFamilies promises: a sign-in has one session in use at a time,   *)
(* it moves on to new sessions only, and once closed it stays closed.      *)
THEOREM StoreImplementsFamilies == Spec => ImplementsFamilies
  <1>1. IInv /\ IInv' /\ [Next]_vars => [Abstract!FamiliesNext]_FamilyHead
    <2>1. IInv' => HeadsKnown'
      BY HeadsAreKnown, PTL
    <2> QED BY <2>1, HeadsAreKnown, FamiliesStep
  <1> QED BY <1>1, InductiveInvariant, FamiliesStart, PTL
          DEF Spec, ImplementsFamilies, Abstract!FamiliesSpec

(* What SessionFamilies says of its heads holds of it: a new head is the   *)
(* head of no other family, and is later than the one before.              *)
LEMMA FamiliesKeep ==
    ASSUME Abstract!FamiliesTypeOK, Abstract!HeadsDistinct, [Abstract!FamiliesNext]_FamilyHead
    PROVE  /\ Abstract!FamiliesTypeOK'
           /\ Abstract!HeadsDistinct'
           /\ \A f \in Abstract!Families : FamilyHead'[f] >= FamilyHead[f]
  <1> USE DEF Abstract!Families, Abstract!Unopened, Abstract!Closed, Abstract!FamiliesTypeOK,
              Abstract!IsOpen
  <1>0. MaxSessions \in Nat
    BY ConstantsAssumption
  <1>1. ASSUME NEW f \in Abstract!Families, NEW s \in Abstract!Families,
               s > FamilyHead[f],
               \A g \in Abstract!Families : FamilyHead[g] # s,
               FamilyHead' = [FamilyHead EXCEPT ![f] = s]
        PROVE  /\ Abstract!FamiliesTypeOK'
               /\ Abstract!HeadsDistinct'
               /\ \A g \in Abstract!Families : FamilyHead'[g] >= FamilyHead[g]
    BY <1>0, <1>1 DEF Abstract!HeadsDistinct
  <1>2. ASSUME NEW f \in Abstract!Families, Abstract!Open(f)
        PROVE  /\ Abstract!FamiliesTypeOK'
               /\ Abstract!HeadsDistinct'
               /\ \A g \in Abstract!Families : FamilyHead'[g] >= FamilyHead[g]
    <2>1. f > FamilyHead[f]
      BY <1>0, <1>2 DEF Abstract!Open
    <2> QED BY <1>1, <1>2, <2>1 DEF Abstract!Open
  <1>3. ASSUME NEW f \in Abstract!Families, NEW s \in Abstract!Families, Abstract!Advance(f, s)
        PROVE  /\ Abstract!FamiliesTypeOK'
               /\ Abstract!HeadsDistinct'
               /\ \A g \in Abstract!Families : FamilyHead'[g] >= FamilyHead[g]
    BY <1>1, <1>3 DEF Abstract!Advance
  <1>4. ASSUME NEW F \in SUBSET Abstract!Families, Abstract!Close(F)
        PROVE  /\ Abstract!FamiliesTypeOK'
               /\ Abstract!HeadsDistinct'
               /\ \A g \in Abstract!Families : FamilyHead'[g] >= FamilyHead[g]
    BY <1>0, <1>4 DEF Abstract!Close, Abstract!HeadsDistinct
  <1>5. CASE UNCHANGED FamilyHead
    BY <1>0, <1>5 DEF Abstract!HeadsDistinct
  <1>6. ASSUME NEW f \in Abstract!Families, Abstract!Miss(f)
        PROVE  /\ Abstract!FamiliesTypeOK'
               /\ Abstract!HeadsDistinct'
               /\ \A g \in Abstract!Families : FamilyHead'[g] >= FamilyHead[g]
    BY <1>0, <1>6 DEF Abstract!Miss, Abstract!HeadsDistinct
  <1> QED BY <1>2, <1>3, <1>4, <1>5, <1>6 DEF Abstract!FamiliesNext

(* So no session of the store is the one in use of two sign-ins, and the   *)
(* session in use of a sign-in is only ever replaced by a later one: one   *)
(* that was rotated, signed out or revoked is never in use again.          *)
THEOREM HeadsNeverReturn == Spec => []Abstract!HeadsDistinct /\ Abstract!HeadsOnlyAdvance
  <1> DEFINE FamiliesInv == Abstract!FamiliesTypeOK /\ Abstract!HeadsDistinct
  <1>1. Abstract!FamiliesInit => FamiliesInv
    BY ConstantsAssumption
       DEF Abstract!FamiliesInit, Abstract!FamiliesTypeOK, Abstract!HeadsDistinct,
           Abstract!Families, Abstract!Unopened, Abstract!Closed, Abstract!IsOpen
  <1>2. FamiliesInv /\ [Abstract!FamiliesNext]_FamilyHead => FamiliesInv'
    BY FamiliesKeep
  <1>3. FamiliesInv /\ [Abstract!FamiliesNext]_FamilyHead
           => [\A f \in Abstract!Families : FamilyHead'[f] >= FamilyHead[f]]_FamilyHead
    BY FamiliesKeep
  <1> QED BY <1>1, <1>2, <1>3, StoreImplementsFamilies, PTL
          DEF ImplementsFamilies, Abstract!FamiliesSpec, Abstract!HeadsOnlyAdvance
=============================================================================
