-------------------------- MODULE McpOAuth_proofs ---------------------------
(***************************************************************************)
(* Proofs about the grants of the authorization server and, in the last    *)
(* part, about the keys that sign its access tokens, for any number of     *)
(* users, clients, requests and actions in progress, codes, tokens and     *)
(* keys, and whatever the lifetimes are.                                   *)
(***************************************************************************)
EXTENDS McpOAuth, McpSigningKeys, TLAPS

-----------------------------------------------------------------------------
(* The inductive invariant                                                 *)

\* Rows are inserted in order; a family is named by its first token, and a
\* token follows its parent.
TokensInOrder ==
    \A t \in TokenIds :
        /\ t < nextToken => /\ tokens[t].state # "none"
                            /\ tokens[t].family \in TokenIds
                            /\ tokens[t].family <= t
                            /\ tokens[t].parent < t
        /\ t >= nextToken => tokens[t].state = "none"

\* A token descends from a code that is spent.
CodesSpent ==
    \A t \in TokenIds :
        t < nextToken => codeOf[t] \in CodeIds /\ codes[codeOf[t]].state = "consumed"

CodesInOrder == \A k \in CodeIds : k >= nextCode => codes[k].state = "none"

\* What a token request knows of the row it was given.
RequestsLinked ==
    \A r \in Requests :
        /\ requests[r].op \in {"consumeCode", "issueToken"} => requests[r].code \in CodeIds
        /\ requests[r].op = "redeem" =>
              requests[r].token \in TokenIds /\ requests[r].token < nextToken

\* A request about to issue a token is alone with its code, and no token was
\* issued for that code before.
IssuesAlone ==
    \A r \in Requests :
        requests[r].op = "issueToken" =>
            /\ codes[requests[r].code].state = "consumed"
            /\ requests[r].scopes = codes[requests[r].code].scopes
            /\ \A t \in TokenIds : t < nextToken => codeOf[t] # requests[r].code
            /\ \A q \in Requests \ {r} :
                  requests[q].op = "issueToken" => requests[q].code # requests[r].code

\* A token that was presented again has its family revoked.
ReusedRevoked == \A t \in reused : t < nextToken /\ tokens[t].family \in revokedFamilies

IInv ==
    /\ TypeOK
    /\ TokensInOrder
    /\ CodesSpent
    /\ CodesInOrder
    /\ RequestsLinked
    /\ IssuesAlone
    /\ ReusedRevoked
    /\ OneLiveTokenPerFamily
    /\ CodeGrantsOneFamily
    /\ GrantsOnlyNarrow

-----------------------------------------------------------------------------
(* Type correctness                                                        *)

(* A request that has ended is a request. *)
LEMMA IdleType == Idle \in Request
  BY DEF Idle, Request, Ops

(* A request that goes on to another step, with other scopes, is one. *)
LEMMA RequestWriteType ==
    ASSUME TypeOK, NEW r \in Requests, NEW op \in Ops, NEW S \in SUBSET Scopes
    PROVE  [requests EXCEPT ![r].op = op, ![r].scopes = S] \in [Requests -> Request]
  <1> DEFINE q == [requests[r] EXCEPT !.op = op, !.scopes = S]
  <1>1. requests \in [Requests -> Request]
    BY DEF TypeOK
  <1>2. q \in Request
    BY <1>1 DEF Request
  <1>3. [requests EXCEPT ![r].op = op, ![r].scopes = S] = [requests EXCEPT ![r] = q]
    BY <1>1 DEF Request
  <1> QED
    <2> HIDE DEF q
    <2> QED BY <1>1, <1>2, <1>3

(* The row that createMcpOAuthRefreshToken inserts is well typed. *)
LEMMA InsertType ==
    ASSUME TypeOK, NEW T \in [TokenIds -> RefreshToken],
           NEW f \in TokenIds, NEW p \in TokenIds \cup {0}, NEW holder,
           holder.client \in Clients \cup {Nobody},
           holder.subject \in Subjects \cup {Nobody},
           NEW S \in SUBSET Scopes, NEW k \in CodeIds \cup {0},
           InsertRefreshToken(T, f, p, holder, S, k)
    PROVE  /\ tokens' \in [TokenIds -> RefreshToken]
           /\ nextToken' \in 1 .. MaxTokens + 1
           /\ codeOf' \in [TokenIds -> CodeIds \cup {0}]
  <1>1. now + AbsoluteLifetime \in Nat /\ now + InactivityLifetime \in Nat
    BY McpAssumption DEF TypeOK
  <1>2. tokens' \in [TokenIds -> RefreshToken]
    BY <1>1 DEF InsertRefreshToken, RefreshToken, RowStates
  <1>3. nextToken' \in 1 .. MaxTokens + 1
    BY McpAssumption DEF InsertRefreshToken, TypeOK, TokenIds
  <1>4. codeOf' \in [TokenIds -> CodeIds \cup {0}]
    BY DEF InsertRefreshToken, TypeOK
  <1> QED BY <1>2, <1>3, <1>4

(* Every step keeps the tables and the requests well typed. *)
LEMMA TypeStep == TypeOK /\ TokensInOrder /\ CodesSpent /\ RequestsLinked /\ [Next]_vars => TypeOK'
  <1> SUFFICES ASSUME TypeOK, TokensInOrder, CodesSpent, RequestsLinked, [Next]_vars
               PROVE  TypeOK'
    OBVIOUS
  <1> USE DEF grants
  <1>a. ASSUME NEW r \in Requests, requests' = [requests EXCEPT ![r] = Idle]
        PROVE  requests' \in [Requests -> Request]
    BY <1>a, IdleType DEF TypeOK
  <1>1. CASE Tick
    BY <1>1, McpAssumption DEF Tick, TypeOK
  <1>2. ASSUME NEW s \in Subjects,
               SignIn(s) \/ EndSession(s) \/ CleanupSession(s) \/ DeleteUser(s)
        PROVE  TypeOK'
    BY <1>2 DEF SignIn, EndSession, CleanupSession, DeleteUser, TypeOK, SubjectStates
  <1>3. ASSUME NEW c \in Clients, RegisterDynamicClient(c) PROVE TypeOK'
    BY <1>3 DEF RegisterDynamicClient, TypeOK
  <1>4. ASSUME NEW r \in Requests, NEW s \in Subjects, AuthorizeRequest(r, s) PROVE TypeOK'
    <2>1. PICK c \in registered : \E S \in SUBSET clients[c] \ {{}} :
             requests' = [requests EXCEPT ![r] =
                            [Idle EXCEPT !.op = "resolveSession", !.client = c,
                               !.allowed = clients[c], !.scopes = S, !.subject = s]]
      BY <1>4 DEF AuthorizeRequest
    <2>2. PICK S \in SUBSET clients[c] :
             requests' = [requests EXCEPT ![r] =
                            [Idle EXCEPT !.op = "resolveSession", !.client = c,
                               !.allowed = clients[c], !.scopes = S, !.subject = s]]
      BY <2>1
    <2>3. c \in Clients /\ clients[c] \in SUBSET Scopes /\ S \in SUBSET Scopes
      BY DEF TypeOK
    <2>4. requests' \in [Requests -> Request]
      BY <2>2, <2>3 DEF TypeOK, Idle, Request, Ops
    <2> QED BY <1>4, <2>4 DEF AuthorizeRequest, TypeOK
  <1>5. ASSUME NEW r \in Requests, NEW k \in CodeIds, TokenRequest(r, k) PROVE TypeOK'
    <2>1. PICK c \in registered :
             requests' = [requests EXCEPT ![r] =
                            [Idle EXCEPT !.op = "consumeCode", !.client = c,
                               !.allowed = clients[c], !.code = k]]
      BY <1>5 DEF TokenRequest
    <2>2. c \in Clients /\ clients[c] \in SUBSET Scopes
      BY DEF TypeOK
    <2>3. requests' \in [Requests -> Request]
      BY <2>1, <2>2 DEF TypeOK, Idle, Request, Ops
    <2> QED BY <1>5, <2>3 DEF TokenRequest, TypeOK
  <1>6. ASSUME NEW r \in Requests, NEW t \in TokenIds, RefreshRequest(r, t) PROVE TypeOK'
    <2>1. PICK c \in registered : \E S \in SUBSET clients[c] :
             requests' = [requests EXCEPT ![r] =
                            [Idle EXCEPT !.op = "redeem", !.client = c,
                               !.allowed = clients[c], !.scopes = S, !.token = t]]
      BY <1>6 DEF RefreshRequest
    <2>2. PICK S \in SUBSET clients[c] :
             requests' = [requests EXCEPT ![r] =
                            [Idle EXCEPT !.op = "redeem", !.client = c,
                               !.allowed = clients[c], !.scopes = S, !.token = t]]
      BY <2>1
    <2>3. c \in Clients /\ clients[c] \in SUBSET Scopes /\ S \in SUBSET Scopes
      BY DEF TypeOK
    <2>4. requests' \in [Requests -> Request]
      BY <2>2, <2>3 DEF TypeOK, Idle, Request, Ops
    <2> QED BY <1>6, <2>4 DEF RefreshRequest, TypeOK
  <1>7. ASSUME NEW r \in Requests, ResolveSession(r) PROVE TypeOK'
    BY <1>7 DEF ResolveSession, TypeOK, Request, Ops
  <1>8. ASSUME NEW r \in Requests, ResolveIdentity(r) PROVE TypeOK'
    <2>1. PICK S \in SUBSET requests[r].scopes :
             requests' = [requests EXCEPT ![r].op = "createCode", ![r].scopes = S]
      BY <1>8 DEF ResolveIdentity
    <2>2. S \in SUBSET Scopes
      BY DEF TypeOK, Request
    <2>3. requests' \in [Requests -> Request]
      BY <2>1, <2>2, RequestWriteType DEF Ops
    <2> QED BY <1>8, <2>3 DEF ResolveIdentity, TypeOK
  <1>9. ASSUME NEW r \in Requests, CreateAuthorizationCode(r) PROVE TypeOK'
    <2>1. requests' \in [Requests -> Request]
      BY <1>9, <1>a DEF CreateAuthorizationCode
    <2>2. now + CodeTtl \in Nat
      BY McpAssumption DEF TypeOK
    <2>3. codes' \in [CodeIds -> Code]
      BY <1>9, <2>2 DEF CreateAuthorizationCode, TypeOK, Code, Request, RowStates
    <2>4. nextCode' \in 1 .. MaxCodes + 1
      BY <1>9, McpAssumption DEF CreateAuthorizationCode, TypeOK, CodeIds
    <2> QED BY <1>9, <2>1, <2>3, <2>4 DEF CreateAuthorizationCode, TypeOK
  <1>10. ASSUME NEW r \in Requests, ConsumeAuthorizationCode(r) PROVE TypeOK'
    <2> DEFINE k == requests[r].code
    <2>1. k \in CodeIds
      BY <1>10 DEF ConsumeAuthorizationCode, RequestsLinked
    <2>2. codes' \in [CodeIds -> Code]
      <3>1. codes \in [CodeIds -> Code] /\ codes[k] \in Code
        BY <2>1 DEF TypeOK
      <3>2. [codes[k] EXCEPT !.state = "consumed"] \in Code
        BY <3>1 DEF Code, RowStates
      <3>3. codes' = [codes EXCEPT ![k] = [codes[k] EXCEPT !.state = "consumed"]]
        BY <1>10 DEF ConsumeAuthorizationCode
      <3> HIDE DEF k
      <3> QED BY <2>1, <3>1, <3>2, <3>3
    <2>3. codes[k].scopes \in SUBSET Scopes
      BY <2>1 DEF TypeOK, Code
    <2>4. requests' \in [Requests -> Request]
      <3>1. CASE requests' = [requests EXCEPT ![r].op = "issueToken",
                                              ![r].scopes = codes[k].scopes]
        BY <2>3, <3>1, RequestWriteType DEF Ops
      <3>2. CASE requests' = [requests EXCEPT ![r] = Idle]
        BY <1>a, <3>2
      <3> QED BY <1>10, <3>1, <3>2 DEF ConsumeAuthorizationCode
    <2> QED BY <1>10, <2>2, <2>4 DEF ConsumeAuthorizationCode, TypeOK
  <1>11. ASSUME NEW r \in Requests, IssueRefreshToken(r) PROVE TypeOK'
    <2> DEFINE k == requests[r].code
    <2>1. k \in CodeIds /\ nextToken \in TokenIds
      BY <1>11 DEF IssueRefreshToken, RequestsLinked, InsertRefreshToken
    <2>2. /\ codes[k].client \in Clients \cup {Nobody}
          /\ codes[k].subject \in Subjects \cup {Nobody}
          /\ requests[r].scopes \in SUBSET Scopes
          /\ tokens \in [TokenIds -> RefreshToken]
      BY <2>1 DEF TypeOK, Code, Request
    <2>3. InsertRefreshToken(tokens, nextToken, 0, codes[k], requests[r].scopes, k)
      BY <1>11 DEF IssueRefreshToken
    <2>4. /\ tokens' \in [TokenIds -> RefreshToken]
          /\ nextToken' \in 1 .. MaxTokens + 1
          /\ codeOf' \in [TokenIds -> CodeIds \cup {0}]
      BY <2>1, <2>2, <2>3, InsertType
    <2>5. requests' \in [Requests -> Request]
      BY <1>11, <1>a DEF IssueRefreshToken
    <2> QED BY <1>11, <2>4, <2>5 DEF IssueRefreshToken, TypeOK
  <1>12. ASSUME NEW r \in Requests, RotateRefreshToken(r) PROVE TypeOK'
    <2> DEFINE t == requests[r].token
               T == [tokens EXCEPT ![t].state = "consumed"]
               S == GrantedScopes(t, requests[r].scopes)
    <2>1. t \in TokenIds /\ t < nextToken
      BY <1>12 DEF RotateRefreshToken, RequestsLinked
    <2>2. T \in [TokenIds -> RefreshToken]
      BY <2>1 DEF TypeOK, RefreshToken, RowStates
    <2>3. /\ tokens[t].client \in Clients \cup {Nobody}
          /\ tokens[t].subject \in Subjects \cup {Nobody}
          /\ tokens[t].family \in TokenIds
          /\ codeOf[t] \in CodeIds
          /\ S \in SUBSET Scopes
      BY <2>1 DEF TypeOK, RefreshToken, Request, TokensInOrder, CodesSpent, GrantedScopes
    <2>4. InsertRefreshToken(T, tokens[t].family, t, tokens[t], S, codeOf[t])
      BY <1>12 DEF RotateRefreshToken
    <2>5. /\ tokens' \in [TokenIds -> RefreshToken]
          /\ nextToken' \in 1 .. MaxTokens + 1
          /\ codeOf' \in [TokenIds -> CodeIds \cup {0}]
      <3> HIDE DEF T, S, t
      <3> QED BY <2>1, <2>2, <2>3, <2>4, InsertType
    <2>6. requests' \in [Requests -> Request]
      BY <1>12, <1>a DEF RotateRefreshToken
    <2> QED BY <1>12, <2>5, <2>6 DEF RotateRefreshToken, TypeOK
  <1>13. ASSUME NEW r \in Requests, RevokeFamily(r) PROVE TypeOK'
    <2>1. requests[r].token \in TokenIds /\ tokens[requests[r].token].family \in TokenIds
      BY <1>13 DEF RevokeFamily, RequestsLinked, TokensInOrder
    <2>2. requests' \in [Requests -> Request]
      BY <1>13, <1>a DEF RevokeFamily
    <2> QED BY <1>13, <2>1, <2>2 DEF RevokeFamily, TypeOK
  <1>14. ASSUME NEW r \in Requests, EndRequest(r) PROVE TypeOK'
    BY <1>14, <1>a DEF EndRequest, TypeOK
  <1>15. CASE UNCHANGED vars
    BY <1>15 DEF vars, TypeOK
  <1> QED BY <1>1, <1>2, <1>3, <1>4, <1>5, <1>6, <1>7, <1>8, <1>9, <1>10, <1>11, <1>12,
             <1>13, <1>14, <1>15 DEF Next

-----------------------------------------------------------------------------
(* The invariant is inductive                                              *)

(* The invariant holds of the empty tables. *)
LEMMA InvInit == Init => IInv
  <1> SUFFICES ASSUME Init PROVE IInv
    OBVIOUS
  <1> USE McpAssumption DEF Init
  <1>1. TypeOK
    BY IdleType DEF TypeOK, SubjectStates, Code, RefreshToken, RowStates, CodeIds, TokenIds
  <1>2. TokensInOrder /\ CodesSpent /\ CodesInOrder
    BY DEF TokensInOrder, CodesSpent, CodesInOrder, TokenIds, CodeIds
  <1>3. RequestsLinked /\ IssuesAlone /\ ReusedRevoked
    BY DEF RequestsLinked, IssuesAlone, ReusedRevoked, Idle
  <1>4. OneLiveTokenPerFamily /\ CodeGrantsOneFamily /\ GrantsOnlyNarrow
    BY DEF OneLiveTokenPerFamily, CodeGrantsOneFamily, GrantsOnlyNarrow
  <1> QED BY <1>1, <1>2, <1>3, <1>4 DEF IInv

(* A row of the refresh tokens has been written when its number was given. *)
LEMMA InsertedTokens ==
    ASSUME IInv
    PROVE  /\ nextToken \in Nat
           /\ \A t \in TokenIds : /\ t \in Nat
                                  /\ tokens[t].state # "none" <=> t < nextToken
  BY McpAssumption DEF IInv, TypeOK, TokensInOrder, TokenIds

(* What is at most the row after n is before n or is n. *)
LEMMA BeforeNext == \A t, n \in Nat : t < n + 1 <=> t < n \/ t = n
  OBVIOUS

(* A step that writes no grant keeps what the invariant says of grants. *)
LEMMA QuietGrants ==
    ASSUME IInv, UNCHANGED grants
    PROVE  /\ TokensInOrder' /\ CodesSpent' /\ CodesInOrder' /\ ReusedRevoked'
           /\ OneLiveTokenPerFamily' /\ CodeGrantsOneFamily' /\ GrantsOnlyNarrow'
  <1> USE DEF grants, IInv
  <1>1. TokensInOrder' /\ CodesSpent' /\ CodesInOrder' /\ ReusedRevoked'
    BY DEF TokensInOrder, CodesSpent, CodesInOrder, ReusedRevoked
  <1>2. OneLiveTokenPerFamily' /\ CodeGrantsOneFamily' /\ GrantsOnlyNarrow'
    BY DEF OneLiveTokenPerFamily, CodeGrantsOneFamily, GrantsOnlyNarrow
  <1> QED BY <1>1, <1>2

(* Such a step may also move one request, to any step but the issue of a  *)
(* token, if the request knows the row it is about.                        *)
LEMMA QuietRequest ==
    ASSUME IInv, UNCHANGED grants, NEW r \in Requests, NEW q,
           requests' = [requests EXCEPT ![r] = q],
           q.op # "issueToken",
           q.op = "consumeCode" => q.code \in CodeIds,
           q.op = "redeem" => q.token \in TokenIds /\ q.token < nextToken
    PROVE  RequestsLinked' /\ IssuesAlone'
  <1> USE DEF grants
  <1>1. requests \in [Requests -> Request]
    BY DEF IInv, TypeOK
  <1>2. \A x \in Requests : requests'[x] = IF x = r THEN q ELSE requests[x]
    BY <1>1
  <1>3. RequestsLinked'
    BY <1>2 DEF IInv, RequestsLinked
  <1>4. IssuesAlone'
    BY <1>2 DEF IInv, IssuesAlone
  <1> QED BY <1>3, <1>4

(* A request that ends asks nothing of the tables. *)
LEMMA IdleIsQuiet ==
    Idle.op # "issueToken" /\ Idle.op # "consumeCode" /\ Idle.op # "redeem"
  BY DEF Idle

(* A new authorization code keeps the invariant: no token descends from it. *)
LEMMA InvCreateCode ==
    ASSUME IInv, TypeOK', NEW r \in Requests, CreateAuthorizationCode(r)
    PROVE  IInv'
  <1> USE DEF CreateAuthorizationCode
  <1>1. /\ nextCode \in CodeIds
        /\ codes[nextCode].state = "none"
        /\ \A k \in CodeIds \ {nextCode} : codes'[k] = codes[k]
    BY McpAssumption DEF IInv, TypeOK, CodesInOrder, CodeIds
  <1>2. \A x \in Requests : requests'[x] = IF x = r THEN Idle ELSE requests[x]
    BY DEF IInv, TypeOK
  <1>3. \A t \in TokenIds : t < nextToken => codes'[codeOf[t]] = codes[codeOf[t]]
    BY <1>1 DEF IInv, CodesSpent
  <1>4. TokensInOrder' /\ CodesSpent'
    BY <1>3 DEF IInv, TokensInOrder, CodesSpent
  <1>5. CodesInOrder'
    BY <1>1, McpAssumption DEF IInv, TypeOK, CodesInOrder, CodeIds
  <1>6. RequestsLinked'
    BY <1>2, IdleIsQuiet DEF IInv, RequestsLinked
  <1>7. IssuesAlone'
    <2> SUFFICES ASSUME NEW x \in Requests, requests'[x].op = "issueToken"
                 PROVE  /\ codes'[requests'[x].code].state = "consumed"
                        /\ requests'[x].scopes = codes'[requests'[x].code].scopes
                        /\ \A t \in TokenIds : t < nextToken' => codeOf'[t] # requests'[x].code
                        /\ \A q \in Requests \ {x} :
                              requests'[q].op = "issueToken" => requests'[q].code # requests'[x].code
      BY DEF IssuesAlone
    <2>1. requests'[x] = requests[x] /\ requests[x].code \in CodeIds
      BY <1>2, IdleIsQuiet DEF IInv, RequestsLinked
    <2>2. codes'[requests[x].code] = codes[requests[x].code]
      BY <1>1, <2>1 DEF IInv, IssuesAlone
    <2> QED BY <1>2, <2>1, <2>2, IdleIsQuiet DEF IInv, IssuesAlone
  <1>8. ReusedRevoked' /\ OneLiveTokenPerFamily' /\ CodeGrantsOneFamily'
    BY DEF IInv, ReusedRevoked, OneLiveTokenPerFamily, CodeGrantsOneFamily
  <1>9. GrantsOnlyNarrow'
    BY <1>3, InsertedTokens DEF IInv, GrantsOnlyNarrow
  <1> QED BY <1>4, <1>5, <1>6, <1>7, <1>8, <1>9 DEF IInv

(* Spending a code keeps the invariant: nobody else has spent it. *)
LEMMA InvConsumeCode ==
    ASSUME IInv, TypeOK', NEW r \in Requests, ConsumeAuthorizationCode(r)
    PROVE  IInv'
  <1> DEFINE k == requests[r].code
  <1> USE DEF ConsumeAuthorizationCode
  <1>1. k \in CodeIds /\ codes[k].state = "live"
    BY DEF IInv, RequestsLinked, Consumable
  <1>2. \A j \in CodeIds : /\ codes'[j].scopes = codes[j].scopes
                           /\ codes'[j].client = codes[j].client
                           /\ codes'[j].subject = codes[j].subject
                           /\ codes'[j].state = IF j = k THEN "consumed" ELSE codes[j].state
    BY <1>1 DEF IInv, TypeOK, Code
  <1>3. /\ \A x \in Requests \ {r} : requests'[x] = requests[x]
        /\ requests'[r] = Idle
           \/ /\ requests'[r].op = "issueToken"
              /\ requests'[r].scopes = codes[k].scopes
              /\ requests'[r].code = k
    BY DEF IInv, TypeOK, Request
  <1>4. \A t \in TokenIds : t < nextToken => codeOf[t] # k
    BY <1>1 DEF IInv, CodesSpent
  <1>5. TokensInOrder' /\ CodesSpent'
    BY <1>2 DEF IInv, TokensInOrder, CodesSpent
  <1>6. CodesInOrder'
    BY <1>1, <1>2 DEF IInv, CodesInOrder
  <1>7. RequestsLinked'
    BY <1>1, <1>3, IdleIsQuiet DEF IInv, RequestsLinked
  <1>8. IssuesAlone'
    <2> SUFFICES ASSUME NEW x \in Requests, requests'[x].op = "issueToken"
                 PROVE  /\ codes'[requests'[x].code].state = "consumed"
                        /\ requests'[x].scopes = codes'[requests'[x].code].scopes
                        /\ \A t \in TokenIds : t < nextToken' => codeOf'[t] # requests'[x].code
                        /\ \A q \in Requests \ {x} :
                              requests'[q].op = "issueToken" => requests'[q].code # requests'[x].code
      BY DEF IssuesAlone
    <2>1. ASSUME NEW q \in Requests \ {r}, requests[q].op = "issueToken"
          PROVE  requests[q].code \in CodeIds \ {k}
      BY <1>1, <2>1 DEF IInv, RequestsLinked, IssuesAlone
    <2>2. CASE x = r
      BY <1>1, <1>2, <1>3, <1>4, <2>1, <2>2, IdleIsQuiet
    <2>3. CASE x # r
      <3>1. requests'[x] = requests[x] /\ requests[x].code \in CodeIds \ {k}
        BY <1>3, <2>1, <2>3
      <3>2. /\ codes[requests[x].code].state = "consumed"
            /\ requests[x].scopes = codes[requests[x].code].scopes
            /\ \A t \in TokenIds : t < nextToken => codeOf[t] # requests[x].code
            /\ \A q \in Requests \ {x} :
                  requests[q].op = "issueToken" => requests[q].code # requests[x].code
        BY <3>1 DEF IInv, IssuesAlone
      <3>3. UNCHANGED <<codeOf, nextToken>>
        OBVIOUS
      <3>4. codes'[requests'[x].code].state = "consumed"
        BY <1>2, <3>1, <3>2
      <3>5. requests'[x].scopes = codes'[requests'[x].code].scopes
        BY <1>2, <3>1, <3>2
      <3>6. ASSUME NEW q \in Requests \ {x}, requests'[q].op = "issueToken"
            PROVE  requests'[q].code # requests'[x].code
        BY <1>3, <3>1, <3>2, <3>6, IdleIsQuiet
      <3> QED BY <3>1, <3>2, <3>3, <3>4, <3>5, <3>6
    <2> QED BY <2>2, <2>3
  <1>9. ReusedRevoked' /\ OneLiveTokenPerFamily' /\ CodeGrantsOneFamily'
    BY DEF IInv, ReusedRevoked, OneLiveTokenPerFamily, CodeGrantsOneFamily
  <1>10. GrantsOnlyNarrow'
    <2>1. UNCHANGED <<tokens, codeOf>>
      OBVIOUS
    <2>2. ASSUME NEW t \in TokenIds, tokens[t].state # "none"
          PROVE  codeOf[t] \in CodeIds
      BY <2>2, InsertedTokens DEF IInv, CodesSpent
    <2>3. GrantsOnlyNarrow
      BY DEF IInv
    <2> HIDE DEF ConsumeAuthorizationCode
    <2>4. ASSUME NEW t \in TokenIds, tokens[t].state # "none"
          PROVE  /\ codes'[codeOf[t]].scopes = codes[codeOf[t]].scopes
                 /\ codes'[codeOf[t]].client = codes[codeOf[t]].client
                 /\ codes'[codeOf[t]].subject = codes[codeOf[t]].subject
      BY <1>2, <2>2, <2>4
    <2> QED BY <2>1, <2>3, <2>4 DEF GrantsOnlyNarrow
  <1> QED BY <1>5, <1>6, <1>7, <1>8, <1>9, <1>10 DEF IInv

(* The first token of a family keeps the invariant: its code was spent by *)
(* this request alone.                                                     *)
LEMMA InvIssue ==
    ASSUME IInv, TypeOK', NEW r \in Requests, IssueRefreshToken(r)
    PROVE  IInv'
  <1> DEFINE k == requests[r].code
             n == nextToken
  <1>1. /\ k \in CodeIds /\ codes[k].state = "consumed"
        /\ requests[r].op = "issueToken" /\ requests[r].scopes = codes[k].scopes
        /\ \A t \in TokenIds : t < n => codeOf[t] # k
    BY DEF IInv, RequestsLinked, IssuesAlone, IssueRefreshToken
  <1>2. /\ n \in TokenIds /\ n \in Nat /\ nextToken' = n + 1
        /\ \A t \in TokenIds \ {n} : tokens'[t] = tokens[t] /\ codeOf'[t] = codeOf[t]
        /\ codeOf'[n] = k
        /\ tokens'[n].state = "live" /\ tokens'[n].family = n /\ tokens'[n].parent = 0
        /\ tokens'[n].client = codes[k].client /\ tokens'[n].subject = codes[k].subject
        /\ tokens'[n].scopes = codes[k].scopes
    BY <1>1, InsertedTokens DEF IssueRefreshToken, InsertRefreshToken, IInv, TypeOK
  <1>3. /\ requests'[r] = Idle
        /\ \A x \in Requests \ {r} : requests'[x] = requests[x]
    BY DEF IssueRefreshToken, IInv, TypeOK
  <1>4. UNCHANGED <<codes, nextCode, revokedFamilies, reused>>
    BY DEF IssueRefreshToken
  <1>5. \A t \in TokenIds : t \in Nat /\ (t < n + 1 <=> t < n \/ t = n)
    <2>1. \A t \in TokenIds : t \in Nat
      BY InsertedTokens
    <2> HIDE DEF n
    <2> QED BY <1>2, <2>1, BeforeNext
  <1> HIDE DEF n, k
  <1>6. TokensInOrder'
    BY <1>2, <1>5 DEF IInv, TokensInOrder, n, TokenIds
  <1>7. CodesSpent' /\ CodesInOrder'
    BY <1>1, <1>2, <1>4, <1>5 DEF IInv, CodesSpent, CodesInOrder, n
  <1>8. RequestsLinked'
    BY <1>2, <1>3, <1>5, IdleIsQuiet DEF IInv, RequestsLinked, n
  <1>9. IssuesAlone'
    <2> SUFFICES ASSUME NEW x \in Requests, requests'[x].op = "issueToken"
                 PROVE  /\ codes'[requests'[x].code].state = "consumed"
                        /\ requests'[x].scopes = codes'[requests'[x].code].scopes
                        /\ \A t \in TokenIds : t < nextToken' => codeOf'[t] # requests'[x].code
                        /\ \A q \in Requests \ {x} :
                              requests'[q].op = "issueToken" => requests'[q].code # requests'[x].code
      BY DEF IssuesAlone
    <2>1. x # r /\ requests'[x] = requests[x] /\ requests[x].code # k
      BY <1>1, <1>3, IdleIsQuiet DEF IInv, IssuesAlone, k
    <2>2. \A t \in TokenIds : t < nextToken' => codeOf'[t] # requests'[x].code
      BY <1>2, <1>3, <1>5, <2>1 DEF IInv, IssuesAlone, n
    <2> QED BY <1>3, <1>4, <2>1, <2>2, IdleIsQuiet DEF IInv, IssuesAlone
  <1>10. ReusedRevoked'
    <2>1. ASSUME NEW t \in reused PROVE t \in TokenIds \ {n} /\ t < n /\ t < n + 1
      BY <1>2, <1>5 DEF IInv, TypeOK, ReusedRevoked, n
    <2> QED BY <1>2, <1>4, <2>1 DEF IInv, ReusedRevoked
  <1>11. OneLiveTokenPerFamily'
    <2>1. ASSUME NEW t \in TokenIds, t # n, tokens'[t].state = "live"
          PROVE  tokens'[t].family # n
      BY <1>2, <1>5, <2>1, InsertedTokens DEF IInv, TokensInOrder, n, TokenIds
    <2> SUFFICES ASSUME NEW t \in TokenIds, NEW v \in TokenIds,
                        tokens'[t].state = "live", tokens'[v].state = "live",
                        tokens'[t].family = tokens'[v].family
                 PROVE  t = v
      BY DEF OneLiveTokenPerFamily
    <2>2. CASE t = n \/ v = n
      BY <1>2, <2>1, <2>2
    <2>3. CASE t # n /\ v # n
      BY <1>2, <2>3 DEF IInv, OneLiveTokenPerFamily
    <2> QED BY <2>2, <2>3
  <1>12. CodeGrantsOneFamily'
    <2>1. ASSUME NEW t \in TokenIds, t # n, tokens'[t].state # "none"
          PROVE  codeOf'[t] # k
      BY <1>1, <1>2, <2>1, InsertedTokens DEF n
    <2> SUFFICES ASSUME NEW t \in TokenIds, NEW v \in TokenIds,
                        tokens'[t].state # "none", tokens'[v].state # "none",
                        codeOf'[t] = codeOf'[v]
                 PROVE  tokens'[t].family = tokens'[v].family
      BY DEF CodeGrantsOneFamily
    <2>2. CASE t = n \/ v = n
      BY <1>2, <2>1, <2>2
    <2>3. CASE t # n /\ v # n
      BY <1>2, <2>3 DEF IInv, CodeGrantsOneFamily
    <2> QED BY <2>2, <2>3
  <1>13. GrantsOnlyNarrow'
    <2>1. ASSUME NEW t \in TokenIds, t # n, tokens'[t].state # "none", tokens[t].parent # 0
          PROVE  tokens'[tokens[t].parent] = tokens[tokens[t].parent]
      <3>1. t < n
        BY <1>2, <2>1, InsertedTokens DEF n
      <3>2. tokens[t].parent \in TokenIds /\ tokens[t].parent < t
        BY <2>1, <3>1 DEF IInv, TypeOK, RefreshToken, TokensInOrder, n
      <3>3. tokens[t].parent # n
        BY <1>2, <1>5, <3>1, <3>2
      <3> QED BY <1>2, <3>2, <3>3
    <2> QED BY <1>2, <1>4, <2>1 DEF IInv, GrantsOnlyNarrow
  <1> QED BY <1>6, <1>7, <1>8, <1>9, <1>10, <1>11, <1>12, <1>13 DEF IInv

(* Rotation keeps the invariant: the token it replaces was the live one of *)
(* its family, and its successor takes over code, client and subject.      *)
LEMMA InvRotate ==
    ASSUME IInv, TypeOK', NEW r \in Requests, RotateRefreshToken(r)
    PROVE  IInv'
  <1> DEFINE p == requests[r].token
             n == nextToken
             S == GrantedScopes(p, requests[r].scopes)
  <1>1. /\ p \in TokenIds /\ p < n /\ tokens[p].state = "live"
        /\ S \subseteq tokens[p].scopes
    BY DEF IInv, RequestsLinked, RotateRefreshToken, Redeemable, Active, ScopesGrantable,
           GrantedScopes
  <1>2. /\ n \in TokenIds /\ n \in Nat /\ p # n /\ nextToken' = n + 1
        /\ tokens' = [[tokens EXCEPT ![p].state = "consumed"] EXCEPT ![n] =
                        [state |-> "live", family |-> tokens[p].family, parent |-> p,
                         client |-> tokens[p].client, subject |-> tokens[p].subject,
                         scopes |-> S, expiresAt |-> now + AbsoluteLifetime,
                         inactivityExpiresAt |-> now + InactivityLifetime]]
        /\ codeOf' = [codeOf EXCEPT ![n] = codeOf[p]]
    BY <1>1, InsertedTokens DEF RotateRefreshToken, InsertRefreshToken
  <1>3. /\ \A t \in TokenIds \ {n} :
              /\ codeOf'[t] = codeOf[t]
              /\ tokens'[t].family = tokens[t].family
              /\ tokens'[t].parent = tokens[t].parent
              /\ tokens'[t].client = tokens[t].client
              /\ tokens'[t].subject = tokens[t].subject
              /\ tokens'[t].scopes = tokens[t].scopes
              /\ tokens'[t].state = IF t = p THEN "consumed" ELSE tokens[t].state
        /\ codeOf'[n] = codeOf[p]
        /\ tokens'[n].state = "live" /\ tokens'[n].family = tokens[p].family
        /\ tokens'[n].parent = p /\ tokens'[n].client = tokens[p].client
        /\ tokens'[n].subject = tokens[p].subject /\ tokens'[n].scopes = S
    <2> HIDE DEF p, n, S
    <2>1. tokens \in [TokenIds -> RefreshToken] /\ codeOf \in [TokenIds -> CodeIds \cup {0}]
      BY DEF IInv, TypeOK
    <2> QED BY <1>1, <1>2, <2>1 DEF RefreshToken
  <1>4. /\ requests'[r] = Idle
        /\ \A x \in Requests \ {r} : requests'[x] = requests[x]
    BY DEF RotateRefreshToken, IInv, TypeOK
  <1>5. UNCHANGED <<codes, nextCode, revokedFamilies, reused>>
    BY DEF RotateRefreshToken
  <1>6. \A t \in TokenIds : t \in Nat /\ (t < n + 1 <=> t < n \/ t = n)
    <2>1. \A t \in TokenIds : t \in Nat
      BY InsertedTokens
    <2> HIDE DEF n
    <2> QED BY <1>2, <2>1, BeforeNext
  <1>7. /\ tokens[p].family \in TokenIds /\ tokens[p].family <= p
        /\ codeOf[p] \in CodeIds /\ codes[codeOf[p]].state = "consumed"
    BY <1>1 DEF IInv, TokensInOrder, CodesSpent
  <1> HIDE DEF n, p, S
  <1>8. TokensInOrder'
    <2>1. tokens[p].family <= n /\ p < n
      BY <1>1, <1>2, <1>6, <1>7
    <2>2. ASSUME NEW t \in TokenIds, t # n, t < n
          PROVE  /\ tokens'[t].state # "none"
                 /\ tokens'[t].family \in TokenIds
                 /\ tokens'[t].family <= t
                 /\ tokens'[t].parent < t
      BY <1>3, <2>2 DEF IInv, TokensInOrder, n
    <2>3. ASSUME NEW t \in TokenIds, t >= n + 1
          PROVE  t # n /\ tokens'[t].state = "none"
      <3>1. t # n /\ t # p /\ t >= n
        BY <1>1, <1>2, <1>6, <2>3
      <3> QED BY <1>3, <3>1 DEF IInv, TokensInOrder, n
    <2>4. /\ tokens'[n].state # "none"
          /\ tokens'[n].family \in TokenIds
          /\ tokens'[n].family <= n
          /\ tokens'[n].parent < n
          /\ ~(n >= n + 1)
      BY <1>2, <1>3, <1>7, <2>1
    <2>5. nextToken' = n + 1
      BY <1>2
    <2> QED BY <1>6, <2>2, <2>3, <2>4, <2>5 DEF TokensInOrder
  <1>9. CodesSpent' /\ CodesInOrder'
    BY <1>2, <1>3, <1>5, <1>6, <1>7 DEF IInv, CodesSpent, CodesInOrder, n
  <1>10. RequestsLinked'
    BY <1>2, <1>4, <1>6, IdleIsQuiet DEF IInv, RequestsLinked, n
  <1>11. IssuesAlone'
    <2> SUFFICES ASSUME NEW x \in Requests, requests'[x].op = "issueToken"
                 PROVE  /\ codes'[requests'[x].code].state = "consumed"
                        /\ requests'[x].scopes = codes'[requests'[x].code].scopes
                        /\ \A t \in TokenIds : t < nextToken' => codeOf'[t] # requests'[x].code
                        /\ \A q \in Requests \ {x} :
                              requests'[q].op = "issueToken" => requests'[q].code # requests'[x].code
      BY DEF IssuesAlone
    <2>1. x # r /\ requests'[x] = requests[x]
      BY <1>4, IdleIsQuiet
    <2>2. \A t \in TokenIds : t < n => codeOf[t] # requests[x].code
      BY <2>1 DEF IInv, IssuesAlone, n
    <2>3. \A t \in TokenIds : t < nextToken' => codeOf'[t] # requests'[x].code
      BY <1>1, <1>2, <1>3, <1>6, <2>1, <2>2
    <2> QED BY <1>4, <1>5, <2>1, <2>3, IdleIsQuiet DEF IInv, IssuesAlone
  <1>12. ReusedRevoked'
    BY <1>2, <1>3, <1>5, <1>6 DEF IInv, TypeOK, ReusedRevoked, n
  <1>13. OneLiveTokenPerFamily'
    <2>1. ASSUME NEW t \in TokenIds, t # n, tokens'[t].state = "live"
          PROVE  tokens'[t].family # tokens[p].family
      BY <1>1, <1>3, <2>1 DEF IInv, OneLiveTokenPerFamily
    <2> QED BY <1>3, <2>1 DEF IInv, OneLiveTokenPerFamily
  <1>14. CodeGrantsOneFamily'
    <2>1. ASSUME NEW t \in TokenIds, t # n, tokens'[t].state # "none", codeOf'[t] = codeOf[p]
          PROVE  tokens'[t].family = tokens[p].family
      BY <1>1, <1>3, <2>1 DEF IInv, CodeGrantsOneFamily
    <2> QED BY <1>1, <1>3, <2>1 DEF IInv, CodeGrantsOneFamily
  <1>15. GrantsOnlyNarrow'
    <2>1. ASSUME NEW t \in TokenIds, t # n, tokens'[t].state # "none"
          PROVE  /\ tokens[t].state # "none" /\ t < n
                 /\ tokens[t].parent # 0 =>
                       tokens[t].parent \in TokenIds \ {n}
      BY <1>1, <1>2, <1>3, <1>6, <2>1, InsertedTokens
         DEF IInv, TypeOK, RefreshToken, TokensInOrder, n
    <2>2. /\ S \subseteq codes[codeOf[p]].scopes
          /\ tokens[p].client = codes[codeOf[p]].client
          /\ tokens[p].subject = codes[codeOf[p]].subject
      BY <1>1 DEF IInv, GrantsOnlyNarrow
    <2>3. ASSUME NEW t \in TokenIds, tokens'[t].state # "none"
          PROVE  /\ tokens'[t].scopes \subseteq codes'[codeOf'[t]].scopes
                 /\ tokens'[t].client = codes'[codeOf'[t]].client
                 /\ tokens'[t].subject = codes'[codeOf'[t]].subject
                 /\ tokens'[t].parent # 0 =>
                       tokens'[t].scopes \subseteq tokens'[tokens'[t].parent].scopes
      <3>1. CASE t = n
        <4>1. p \in TokenIds \ {n} /\ tokens'[p].scopes = tokens[p].scopes
          BY <1>1, <1>2, <1>3
        <4>2. codes' = codes
          BY <1>5
        <4> QED BY <1>1, <1>3, <2>2, <3>1, <4>1, <4>2
      <3>2. CASE t # n
        BY <1>3, <1>5, <2>1, <2>3, <3>2 DEF IInv, GrantsOnlyNarrow
      <3> QED BY <3>1, <3>2
    <2> QED BY <2>3 DEF GrantsOnlyNarrow
  <1> QED BY <1>8, <1>9, <1>10, <1>11, <1>12, <1>13, <1>14, <1>15 DEF IInv

(* Revoking a family, when one of its consumed tokens comes back, keeps    *)
(* the invariant.                                                          *)
LEMMA InvRevokeFamily ==
    ASSUME IInv, TypeOK', NEW r \in Requests, RevokeFamily(r)
    PROVE  IInv'
  <1> USE DEF RevokeFamily
  <1>1. requests[r].token \in TokenIds /\ requests[r].token < nextToken
    BY DEF IInv, RequestsLinked
  <1>2. /\ requests'[r] = Idle
        /\ \A x \in Requests \ {r} : requests'[x] = requests[x]
    BY DEF IInv, TypeOK
  <1>3. TokensInOrder' /\ CodesSpent' /\ CodesInOrder'
    BY DEF IInv, TokensInOrder, CodesSpent, CodesInOrder
  <1>4. RequestsLinked'
    BY <1>2, IdleIsQuiet DEF IInv, RequestsLinked
  <1>5. IssuesAlone'
    BY <1>2, IdleIsQuiet DEF IInv, IssuesAlone
  <1>6. ReusedRevoked'
    BY <1>1 DEF IInv, ReusedRevoked
  <1>7. OneLiveTokenPerFamily' /\ CodeGrantsOneFamily' /\ GrantsOnlyNarrow'
    BY DEF IInv, OneLiveTokenPerFamily, CodeGrantsOneFamily, GrantsOnlyNarrow
  <1> QED BY <1>3, <1>4, <1>5, <1>6, <1>7 DEF IInv

(* Every step keeps the invariant. *)
LEMMA InvStep == IInv /\ [Next]_vars => IInv'
  <1> SUFFICES ASSUME IInv, [Next]_vars PROVE IInv'
    OBVIOUS
  <1>a. TypeOK'
    BY TypeStep DEF IInv
  <1>b. ASSUME UNCHANGED grants, RequestsLinked', IssuesAlone' PROVE IInv'
    BY <1>a, <1>b, QuietGrants DEF IInv
  <1>c. ASSUME UNCHANGED grants, UNCHANGED requests PROVE IInv'
    <2>1. RequestsLinked' /\ IssuesAlone'
      BY <1>c DEF IInv, RequestsLinked, IssuesAlone, grants
    <2> QED BY <1>b, <1>c, <2>1
  <1>d. \A r \in Requests : requests[r] \in Request
    BY DEF IInv, TypeOK
  <1>1. CASE Tick
    BY <1>1, <1>c DEF Tick
  <1>2. ASSUME NEW s \in Subjects,
               SignIn(s) \/ EndSession(s) \/ CleanupSession(s) \/ DeleteUser(s)
        PROVE  IInv'
    BY <1>2, <1>c DEF SignIn, EndSession, CleanupSession, DeleteUser
  <1>3. ASSUME NEW c \in Clients, RegisterDynamicClient(c) PROVE IInv'
    BY <1>3, <1>c DEF RegisterDynamicClient
  <1>4. ASSUME NEW r \in Requests, NEW s \in Subjects, AuthorizeRequest(r, s) PROVE IInv'
    <2>1. PICK c \in registered : \E S \in SUBSET clients[c] \ {{}} :
             requests' = [requests EXCEPT ![r] =
                            [Idle EXCEPT !.op = "resolveSession", !.client = c,
                               !.allowed = clients[c], !.scopes = S, !.subject = s]]
      BY <1>4 DEF AuthorizeRequest
    <2>2. PICK S : requests' = [requests EXCEPT ![r] =
                                  [Idle EXCEPT !.op = "resolveSession", !.client = c,
                                     !.allowed = clients[c], !.scopes = S, !.subject = s]]
      BY <2>1
    <2> DEFINE q == [Idle EXCEPT !.op = "resolveSession", !.client = c,
                                 !.allowed = clients[c], !.scopes = S, !.subject = s]
    <2>3. q.op = "resolveSession"
      BY DEF Idle
    <2>4. UNCHANGED grants
      BY <1>4 DEF AuthorizeRequest
    <2>5. requests' = [requests EXCEPT ![r] = q]
      BY <2>2
    <2> HIDE DEF q
    <2> QED BY <1>b, <2>3, <2>4, <2>5, QuietRequest
  <1>5. ASSUME NEW r \in Requests, NEW k \in CodeIds, TokenRequest(r, k) PROVE IInv'
    <2>1. PICK c : requests' = [requests EXCEPT ![r] =
                                  [Idle EXCEPT !.op = "consumeCode", !.client = c,
                                     !.allowed = clients[c], !.code = k]]
      BY <1>5 DEF TokenRequest
    <2> DEFINE q == [Idle EXCEPT !.op = "consumeCode", !.client = c,
                                 !.allowed = clients[c], !.code = k]
    <2>2. q.op = "consumeCode" /\ q.code \in CodeIds
      BY DEF Idle
    <2>3. UNCHANGED grants
      BY <1>5 DEF TokenRequest
    <2>4. requests' = [requests EXCEPT ![r] = q]
      BY <2>1
    <2> HIDE DEF q
    <2> QED BY <1>b, <2>2, <2>3, <2>4, QuietRequest
  <1>6. ASSUME NEW r \in Requests, NEW t \in TokenIds, RefreshRequest(r, t) PROVE IInv'
    <2>1. PICK c : \E S \in SUBSET clients[c] :
             requests' = [requests EXCEPT ![r] =
                            [Idle EXCEPT !.op = "redeem", !.client = c,
                               !.allowed = clients[c], !.scopes = S, !.token = t]]
      BY <1>6 DEF RefreshRequest
    <2>2. PICK S : requests' = [requests EXCEPT ![r] =
                                  [Idle EXCEPT !.op = "redeem", !.client = c,
                                     !.allowed = clients[c], !.scopes = S, !.token = t]]
      BY <2>1
    <2> DEFINE q == [Idle EXCEPT !.op = "redeem", !.client = c,
                                 !.allowed = clients[c], !.scopes = S, !.token = t]
    <2>3. q.op = "redeem" /\ q.token = t
      BY DEF Idle
    <2>4. t < nextToken
      BY <1>6, InsertedTokens DEF RefreshRequest
    <2>5. UNCHANGED grants
      BY <1>6 DEF RefreshRequest
    <2>6. requests' = [requests EXCEPT ![r] = q]
      BY <2>2
    <2> HIDE DEF q
    <2> QED BY <1>b, <2>3, <2>4, <2>5, <2>6, QuietRequest
  <1>7. ASSUME NEW r \in Requests, ResolveSession(r) PROVE IInv'
    <2> DEFINE q == [requests[r] EXCEPT !.op = "resolveIdentity"]
    <2>1. q.op = "resolveIdentity"
      BY <1>d DEF Request
    <2>2. requests' = [requests EXCEPT ![r] = q] /\ UNCHANGED grants
      BY <1>7 DEF ResolveSession
    <2> HIDE DEF q
    <2> QED BY <1>b, <2>1, <2>2, QuietRequest
  <1>8. ASSUME NEW r \in Requests, ResolveIdentity(r) PROVE IInv'
    <2>1. PICK S : requests' = [requests EXCEPT ![r].op = "createCode", ![r].scopes = S]
      BY <1>8 DEF ResolveIdentity
    <2> DEFINE q == [requests[r] EXCEPT !.op = "createCode", !.scopes = S]
    <2>2. q.op = "createCode"
      BY <1>d DEF Request
    <2>3. requests' = [requests EXCEPT ![r] = q]
      <3>1. requests \in [Requests -> Request]
        BY DEF IInv, TypeOK
      <3> QED BY <2>1, <3>1 DEF Request
    <2>4. UNCHANGED grants
      BY <1>8 DEF ResolveIdentity
    <2> HIDE DEF q
    <2> QED BY <1>b, <2>2, <2>3, <2>4, QuietRequest
  <1>9. ASSUME NEW r \in Requests, CreateAuthorizationCode(r) PROVE IInv'
    BY <1>9, <1>a, InvCreateCode
  <1>10. ASSUME NEW r \in Requests, ConsumeAuthorizationCode(r) PROVE IInv'
    BY <1>10, <1>a, InvConsumeCode
  <1>11. ASSUME NEW r \in Requests, IssueRefreshToken(r) PROVE IInv'
    BY <1>11, <1>a, InvIssue
  <1>12. ASSUME NEW r \in Requests, RotateRefreshToken(r) PROVE IInv'
    BY <1>12, <1>a, InvRotate
  <1>13. ASSUME NEW r \in Requests, RevokeFamily(r) PROVE IInv'
    BY <1>13, <1>a, InvRevokeFamily
  <1>14. ASSUME NEW r \in Requests, EndRequest(r) PROVE IInv'
    <2>1. requests' = [requests EXCEPT ![r] = Idle] /\ UNCHANGED grants
      BY <1>14 DEF EndRequest
    <2> QED BY <1>b, <2>1, IdleIsQuiet, QuietRequest
  <1>15. CASE UNCHANGED vars
    BY <1>15, <1>c DEF vars
  <1> QED BY <1>1, <1>2, <1>3, <1>4, <1>5, <1>6, <1>7, <1>8, <1>9, <1>10, <1>11, <1>12,
             <1>13, <1>14, <1>15 DEF Next

(* The invariant holds in every reachable state. *)
THEOREM Invariance == Spec => []IInv
  BY InvInit, InvStep, PTL DEF Spec

-----------------------------------------------------------------------------
(* The properties                                                          *)

(* The tables, the requests in progress and the history are well typed.    *)
THEOREM TypeCorrect == Spec => []TypeOK
  <1>1. IInv => TypeOK
    BY DEF IInv
  <1> QED BY Invariance, <1>1, PTL

(* However many token requests present the tokens of a grant at the same   *)
(* time, one of its refresh tokens at most can still be redeemed.          *)
THEOREM OneLiveToken == Spec => []OneLiveTokenPerFamily
  <1>1. IInv => OneLiveTokenPerFamily
    BY DEF IInv
  <1> QED BY Invariance, <1>1, PTL

(* An authorization code opens one grant at most, although it is consumed  *)
(* in one transaction and its refresh token is issued in another.          *)
THEOREM CodeUsedForOneGrant == Spec => []CodeGrantsOneFamily
  <1>1. IInv => CodeGrantsOneFamily
    BY DEF IInv
  <1> QED BY Invariance, <1>1, PTL

(* No sequence of refreshes and registrations widens the scopes of a grant *)
(* or moves it to another client or user.                                  *)
THEOREM GrantsNeverWiden == Spec => []GrantsOnlyNarrow
  <1>1. IInv => GrantsOnlyNarrow
    BY DEF IInv
  <1> QED BY Invariance, <1>1, PTL

(* A consumed refresh token that comes back in its lifetime ends its grant *)
(* for everyone: no token of the family can be redeemed from then on.      *)
THEOREM ReuseEndsGrant == Spec => []ReuseEndsFamily
  <1>1. IInv => ReuseEndsFamily
    BY DEF IInv, ReusedRevoked, ReuseEndsFamily, TokensOf, Active, Revoked
  <1> QED BY Invariance, <1>1, PTL

-----------------------------------------------------------------------------
(* Ended grants                                                            *)

(* A row that is only consumed, and time and revocations that only go on,  *)
(* make no token redeemable that was not.                                  *)
LEMMA ActiveBefore ==
    ASSUME IInv, TypeOK', NEW t \in TokenIds,
           tokens'[t].family = tokens[t].family,
           tokens'[t].expiresAt = tokens[t].expiresAt,
           tokens'[t].inactivityExpiresAt = tokens[t].inactivityExpiresAt,
           tokens'[t].state = "live" => tokens[t].state = "live",
           revokedFamilies \subseteq revokedFamilies', now' >= now,
           Active(t)'
    PROVE  Active(t)
  <1>1. /\ now \in Nat /\ now' \in Nat
        /\ tokens[t].expiresAt \in Nat /\ tokens[t].inactivityExpiresAt \in Nat
    BY McpAssumption DEF IInv, TypeOK, RefreshToken
  <1>2. tokens[t].state = "live" /\ ~Revoked(t)
    BY DEF Active, Revoked
  <1>3. ~Lapsed(t)
    BY <1>1 DEF Active, Lapsed
  <1> QED BY <1>2, <1>3 DEF Active

(* No step but the issue of a first token and rotation adds a row.         *)
LEMMA OtherSteps ==
    ASSUME IInv, [Next]_vars,
           \A r \in Requests : ~IssueRefreshToken(r) /\ ~RotateRefreshToken(r)
    PROVE  tokens' = tokens /\ revokedFamilies \subseteq revokedFamilies' /\ now' >= now
  <1>1. now \in Nat
    BY McpAssumption DEF IInv, TypeOK
  <1> USE DEF grants
  <1>2. CASE Tick
    BY <1>1, <1>2 DEF Tick
  <1>3. ASSUME NEW s \in Subjects,
               SignIn(s) \/ EndSession(s) \/ CleanupSession(s) \/ DeleteUser(s)
        PROVE  UNCHANGED <<tokens, revokedFamilies, now>>
    BY <1>3 DEF SignIn, EndSession, CleanupSession, DeleteUser
  <1>4. ASSUME NEW c \in Clients, RegisterDynamicClient(c)
        PROVE  UNCHANGED <<tokens, revokedFamilies, now>>
    BY <1>4 DEF RegisterDynamicClient
  <1>5. ASSUME NEW r \in Requests, NEW s \in Subjects, AuthorizeRequest(r, s)
        PROVE  UNCHANGED <<tokens, revokedFamilies, now>>
    BY <1>5 DEF AuthorizeRequest
  <1>6. ASSUME NEW r \in Requests, NEW k \in CodeIds, TokenRequest(r, k)
        PROVE  UNCHANGED <<tokens, revokedFamilies, now>>
    BY <1>6 DEF TokenRequest
  <1>7. ASSUME NEW r \in Requests, NEW t \in TokenIds, RefreshRequest(r, t)
        PROVE  UNCHANGED <<tokens, revokedFamilies, now>>
    BY <1>7 DEF RefreshRequest
  <1>8. ASSUME NEW r \in Requests,
               \/ ResolveSession(r) \/ ResolveIdentity(r) \/ CreateAuthorizationCode(r)
               \/ ConsumeAuthorizationCode(r) \/ EndRequest(r)
        PROVE  UNCHANGED <<tokens, revokedFamilies, now>>
    BY <1>8 DEF ResolveSession, ResolveIdentity, CreateAuthorizationCode,
                ConsumeAuthorizationCode, EndRequest
  <1>9. ASSUME NEW r \in Requests, RevokeFamily(r)
        PROVE  /\ UNCHANGED <<tokens, now>>
               /\ revokedFamilies \subseteq revokedFamilies'
    BY <1>9 DEF RevokeFamily
  <1>10. CASE UNCHANGED vars
    BY <1>1, <1>10 DEF vars
  <1> QED BY <1>1, <1>2, <1>3, <1>4, <1>5, <1>6, <1>7, <1>8, <1>9, <1>10 DEF Next

(* A family without a redeemable token has none after the step either.     *)
LEMMA EndedStep ==
    ASSUME IInv, [Next]_vars, NEW f \in TokenIds, TokensOf(f) # {},
           \A t \in TokensOf(f) : ~Active(t)
    PROVE  \A t \in TokensOf(f)' : ~Active(t)'
  <1> SUFFICES ASSUME NEW t \in TokenIds, tokens'[t].family = f, Active(t)'
               PROVE  FALSE
    BY DEF TokensOf
  <1>a. TypeOK'
    BY TypeStep DEF IInv
  <1>b. ASSUME Active(t), tokens[t].family = f PROVE FALSE
    BY <1>b DEF TokensOf, Active
  <1>1. CASE \A r \in Requests : ~IssueRefreshToken(r) /\ ~RotateRefreshToken(r)
    BY <1>1, <1>a, <1>b, OtherSteps, ActiveBefore
  <1>2. ASSUME NEW r \in Requests, IssueRefreshToken(r) PROVE FALSE
    <2>1. /\ nextToken \in TokenIds /\ now' = now /\ revokedFamilies' = revokedFamilies
          /\ tokens'[nextToken].family = nextToken
          /\ t # nextToken => tokens'[t] = tokens[t]
      <3>1. tokens \in [TokenIds -> RefreshToken]
        BY DEF IInv, TypeOK
      <3> QED BY <1>2, <3>1 DEF IssueRefreshToken, InsertRefreshToken
    <2>2. now' >= now
      BY <2>1, McpAssumption DEF IInv, TypeOK
    <2>3. CASE t = nextToken
      <3>1. PICK v \in TokensOf(f) : TRUE
        OBVIOUS
      <3>2. v \in TokenIds /\ tokens[v].family = nextToken /\ v < nextToken
        BY <2>1, <2>3, <3>1, InsertedTokens DEF TokensOf
      <3>3. nextToken <= v
        BY <3>2 DEF IInv, TokensInOrder
      <3> QED BY <3>2, <3>3, InsertedTokens
    <2>4. CASE t # nextToken
      BY <1>a, <1>b, <2>1, <2>2, <2>4, ActiveBefore
    <2> QED BY <2>3, <2>4
  <1>3. ASSUME NEW r \in Requests, RotateRefreshToken(r) PROVE FALSE
    <2> DEFINE p == requests[r].token
    <2>1. /\ p \in TokenIds /\ Active(p)
          /\ now' = now /\ revokedFamilies' = revokedFamilies
      BY <1>3 DEF IInv, RequestsLinked, RotateRefreshToken, Redeemable
    <2>2. now' >= now
      BY <2>1, McpAssumption DEF IInv, TypeOK
    <2>3. /\ nextToken \in TokenIds
          /\ tokens'[nextToken].family = tokens[p].family
          /\ t # nextToken =>
                /\ tokens'[t].family = tokens[t].family
                /\ tokens'[t].expiresAt = tokens[t].expiresAt
                /\ tokens'[t].inactivityExpiresAt = tokens[t].inactivityExpiresAt
                /\ tokens'[t].state = "live" => tokens[t].state = "live"
      <3>1. tokens \in [TokenIds -> RefreshToken]
        BY DEF IInv, TypeOK
      <3> QED BY <1>3, <2>1, <3>1 DEF RotateRefreshToken, InsertRefreshToken, RefreshToken
    <2>4. CASE t = nextToken
      BY <2>1, <2>3, <2>4 DEF TokensOf, Active
    <2>5. CASE t # nextToken
      BY <1>a, <1>b, <2>1, <2>2, <2>3, <2>5, ActiveBefore
    <2> QED BY <2>4, <2>5
  <1> QED BY <1>1, <1>2, <1>3

(* A grant that was revoked, has expired or was left unused never yields a *)
(* token again, whatever the requests that had read it go on to do.        *)
THEOREM EndedForGood == Spec => EndedGrantsStayEnded
  <1>1. IInv /\ [Next]_vars =>
           [\A f \in TokenIds :
               /\ TokensOf(f) # {}
               /\ \A t \in TokensOf(f) : ~Active(t)
               => \A t \in TokensOf(f)' : ~Active(t)']_vars
    BY EndedStep
  <1> QED BY Invariance, <1>1, PTL DEF Spec, EndedGrantsStayEnded

-----------------------------------------------------------------------------
(* The signing keys                                                        *)

\* Rows are inserted in order, and a key signs nothing before it is stored.
KeysInOrder ==
    \A k \in KeyIds :
        /\ k < nextKey => keys[k].status # "none"
        /\ k >= nextKey => keys[k].status = "none" /\ signedUntil[k] = 0

\* A signer or a rotation holds a key that is stored, and is not too old.
CallsInTime ==
    \A c \in Calls :
        /\ calls[c].op \in {"sign", "retire"} =>
              calls[c].key \in KeyIds /\ calls[c].key < nextKey
        /\ calls[c].op # "idle" =>
              calls[c].since <= clock /\ clock <= calls[c].since + MaxDelay

\* Who still signs with a retired key had loaded it before it was retired,
\* which was at most MaxDelay after the date of the retirement.
SignersLoadedBefore ==
    \A c \in Calls :
        calls[c].op = "sign" /\ keys[calls[c].key].status = "retired" =>
            calls[c].since <= keys[calls[c].key].retiredAt + MaxDelay

\* So the tokens of a key end a lifetime after the last of them was signed.
TokensEnd ==
    \A k \in KeyIds :
        /\ signedUntil[k] <= clock + TokenTtl
        /\ keys[k].status = "retired" =>
              signedUntil[k] <= keys[k].retiredAt + 2 * MaxDelay + TokenTtl

\* Together with the types, these are inductive.
KeysInv == KeysTypeOK /\ KeysInOrder /\ CallsInTime /\ SignersLoadedBefore /\ TokensEnd

(* What the fields of a call and of a key are. *)
LEMMA KeyFields ==
    ASSUME KeysTypeOK
    PROVE  /\ clock \in Nat /\ nextKey \in Nat
           /\ MaxDelay \in Nat /\ TokenTtl \in Nat /\ KeyIds \subseteq Nat
           /\ \A k \in KeyIds : keys[k].retiredAt \in Nat /\ signedUntil[k] \in Nat
           /\ \A c \in Calls : calls[c].since \in Nat
  BY KeysAssumption DEF KeysTypeOK, KeyIds, Key, Call

(* Before any key is stored all of it holds. *)
LEMMA KeysInvInit == KeysInit => KeysInv
  <1> SUFFICES ASSUME KeysInit PROVE KeysInv
    OBVIOUS
  <1>1. KeysTypeOK
    BY KeysAssumption DEF KeysInit, KeysTypeOK, Key, Call, ActionOps,
           IdleAction, KeyIds
  <1>2. KeysInOrder /\ CallsInTime /\ SignersLoadedBefore
    BY DEF KeysInit, KeysInOrder, CallsInTime, SignersLoadedBefore, IdleAction, KeyIds
  <1>3. TokensEnd
    BY KeysAssumption DEF KeysInit, TokensEnd
  <1> QED BY <1>1, <1>2, <1>3 DEF KeysInv

(* What the insert of a key changes. *)
LEMMA InsertKeyEffect ==
    ASSUME KeysInv, InsertKey
    PROVE  /\ nextKey \in KeyIds /\ nextKey' = nextKey + 1
           /\ keys' \in [KeyIds -> Key] /\ nextKey' \in 1 .. MaxKeys + 1
           /\ keys'[nextKey].status = "active" /\ signedUntil[nextKey] = 0
           /\ \A k \in KeyIds \ {nextKey} : keys'[k] = keys[k]
  <1>1. nextKey \in KeyIds /\ nextKey' = nextKey + 1 /\ nextKey' \in 1 .. MaxKeys + 1
    BY KeysAssumption DEF InsertKey, KeyIds
  <1>2. keys' \in [KeyIds -> Key] /\ keys'[nextKey].status = "active"
    BY DEF InsertKey, KeysInv, KeysTypeOK, Key
  <1>3. signedUntil[nextKey] = 0
    BY <1>1, KeysAssumption DEF KeysInv, KeysInOrder, KeyIds
  <1>4. \A k \in KeyIds \ {nextKey} : keys'[k] = keys[k]
    BY DEF InsertKey, KeysInv, KeysTypeOK
  <1> QED BY <1>1, <1>2, <1>3, <1>4

(* A call that begins takes a key that is active, or none. *)
LEMMA BeginKeeps ==
    ASSUME KeysInv, NEW c \in Calls, NEW op \in ActionOps \ {"idle"},
           NEW k \in KeyIds \cup {0},
           op \in {"sign", "retire"} => k \in ActiveKeys,
           calls' = [calls EXCEPT ![c] = [op |-> op, key |-> k, since |-> clock]],
           UNCHANGED <<clock, keys, nextKey, signedUntil>>
    PROVE  KeysInv'
  <1>0. KeysTypeOK /\ KeysInOrder /\ CallsInTime /\ SignersLoadedBefore /\ TokensEnd
    BY DEF KeysInv
  <1>1. KeysTypeOK'
    BY <1>0, KeyFields DEF KeysTypeOK, Call
  <1>2. KeysInOrder' /\ TokensEnd'
    BY <1>0 DEF KeysInOrder, TokensEnd
  <1>3. calls'[c] = [op |-> op, key |-> k, since |-> clock]
        /\ \A d \in Calls \ {c} : calls'[d] = calls[d]
    BY <1>0 DEF KeysTypeOK
  <1>4. op \in {"sign", "retire"} => k \in KeyIds /\ k < nextKey /\ keys[k].status = "active"
    BY <1>0, KeyFields DEF ActiveKeys, KeysInOrder
  <1>5. CallsInTime'
    BY <1>0, <1>3, <1>4, KeyFields DEF CallsInTime
  <1>6. SignersLoadedBefore'
    BY <1>0, <1>3, <1>4 DEF SignersLoadedBefore
  <1> QED BY <1>1, <1>2, <1>5, <1>6 DEF KeysInv

(* A call that is over disturbs nothing. *)
LEMMA EndKeeps ==
    ASSUME KeysInv, NEW c \in Calls,
           calls' = [calls EXCEPT ![c] = IdleAction],
           UNCHANGED <<clock, keys, nextKey, signedUntil>>
    PROVE  KeysInv'
  <1>0. KeysTypeOK /\ KeysInOrder /\ CallsInTime /\ SignersLoadedBefore /\ TokensEnd
    BY DEF KeysInv
  <1>1. KeysTypeOK'
    BY <1>0 DEF KeysTypeOK, Call, IdleAction, ActionOps
  <1>2. KeysInOrder' /\ TokensEnd'
    BY <1>0 DEF KeysInOrder, TokensEnd
  <1>3. calls'[c] = IdleAction /\ \A d \in Calls \ {c} : calls'[d] = calls[d]
    BY <1>0 DEF KeysTypeOK
  <1>4. CallsInTime' /\ SignersLoadedBefore'
    BY <1>0, <1>3 DEF CallsInTime, SignersLoadedBefore, IdleAction
  <1> QED BY <1>1, <1>2, <1>4 DEF KeysInv

(* A new key is in nobody's hands but those of the call that stored it. *)
LEMMA PersistKeeps ==
    ASSUME KeysInv, NEW c \in Calls,
           PersistSigningKey(c) \/ PersistRotatedKey(c)
    PROVE  KeysInv'
  <1> DEFINE n == nextKey
  <1>0. KeysTypeOK /\ KeysInOrder /\ CallsInTime /\ SignersLoadedBefore /\ TokensEnd
    BY DEF KeysInv
  <1>1. /\ n \in KeyIds /\ nextKey' = n + 1
        /\ keys' \in [KeyIds -> Key] /\ nextKey' \in 1 .. MaxKeys + 1
        /\ keys'[n].status = "active" /\ signedUntil[n] = 0
        /\ \A k \in KeyIds \ {n} : keys'[k] = keys[k]
    BY InsertKeyEffect DEF PersistSigningKey, PersistRotatedKey
  <1>2. clock' = clock /\ signedUntil' = signedUntil
    BY DEF PersistSigningKey, PersistRotatedKey
  <1>3. \A d \in Calls \ {c} : calls'[d] = calls[d]
    BY <1>0 DEF PersistSigningKey, PersistRotatedKey, KeysTypeOK
  <1>4. \/ calls'[c] = IdleAction
        \/ calls'[c].op = "sign" /\ calls'[c].key = n
           /\ calls'[c].since = calls[c].since /\ calls[c].op # "idle"
    BY <1>0 DEF PersistSigningKey, PersistRotatedKey, KeysTypeOK, Call
  <1>5. KeysTypeOK'
    <2>1. calls' \in [Calls -> Call]
      BY <1>0, <1>1 DEF PersistSigningKey, PersistRotatedKey, KeysTypeOK,
                        Call, IdleAction, ActionOps
    <2> QED BY <1>0, <1>1, <1>2, <2>1 DEF KeysTypeOK
  <1>6. KeysInOrder'
    BY <1>0, <1>1, <1>2, KeyFields DEF KeysInOrder
  <1>7. CallsInTime'
    BY <1>0, <1>1, <1>2, <1>3, <1>4, KeyFields DEF CallsInTime, IdleAction
  <1>8. SignersLoadedBefore'
    <2> SUFFICES ASSUME NEW d \in Calls, calls'[d].op = "sign",
                        keys'[calls'[d].key].status = "retired"
                 PROVE  calls'[d].since <= keys'[calls'[d].key].retiredAt + MaxDelay
      BY <1>0, KeyFields DEF SignersLoadedBefore
    <2>1. d # c
      BY <1>1, <1>4 DEF IdleAction
    <2>2. calls'[d] = calls[d] /\ calls[d].key \in KeyIds /\ calls[d].key # n
      BY <1>0, <1>3, <2>1, KeyFields DEF CallsInTime
    <2> QED BY <1>0, <1>1, <2>2 DEF SignersLoadedBefore
  <1>9. TokensEnd'
    BY <1>0, <1>1, <1>2, KeyFields DEF TokensEnd
  <1> QED BY <1>5, <1>6, <1>7, <1>8, <1>9 DEF KeysInv

(* A token that is signed ends a lifetime from clock, also when the key was  *)
(* retired since the signer loaded it.                                     *)
LEMMA SignKeeps ==
    ASSUME KeysInv, NEW c \in Calls, SignAccessToken(c)
    PROVE  KeysInv'
  <1> DEFINE k == calls[c].key
  <1>0. KeysTypeOK /\ KeysInOrder /\ CallsInTime /\ SignersLoadedBefore /\ TokensEnd
    BY DEF KeysInv
  <1>1. /\ k \in KeyIds /\ k < nextKey
        /\ calls[c].since <= clock /\ clock <= calls[c].since + MaxDelay
        /\ UNCHANGED <<clock, keys, nextKey>>
    BY <1>0 DEF SignAccessToken, CallsInTime
  <1>2. signedUntil'[k] = clock + TokenTtl /\ signedUntil' \in [KeyIds -> Nat]
        /\ \A j \in KeyIds \ {k} : signedUntil'[j] = signedUntil[j]
    BY <1>0, <1>1, KeyFields DEF SignAccessToken, KeysTypeOK
  <1>3. calls'[c] = IdleAction /\ \A d \in Calls \ {c} : calls'[d] = calls[d]
    BY <1>0 DEF SignAccessToken, KeysTypeOK
  <1>4. KeysTypeOK'
    BY <1>0, <1>1, <1>2 DEF SignAccessToken, KeysTypeOK, Call, IdleAction, ActionOps
  <1>5. KeysInOrder'
    BY <1>0, <1>1, <1>2, KeyFields DEF KeysInOrder
  <1>6. CallsInTime' /\ SignersLoadedBefore'
    BY <1>0, <1>1, <1>3 DEF CallsInTime, SignersLoadedBefore, IdleAction
  <1>7. TokensEnd'
    <2>1. ASSUME keys[k].status = "retired"
          PROVE  clock + TokenTtl <= keys[k].retiredAt + 2 * MaxDelay + TokenTtl
      <3>1. calls[c].since <= keys[k].retiredAt + MaxDelay
        BY <1>0, <2>1 DEF SignAccessToken, SignersLoadedBefore
      <3> QED BY <1>0, <1>1, <3>1, KeyFields
    <2> QED BY <1>0, <1>1, <1>2, <2>1, KeyFields DEF TokensEnd
  <1> QED BY <1>4, <1>5, <1>6, <1>7 DEF KeysInv

(* A retirement bears an old date, but not older than MaxDelay; that of a  *)
(* key retired before may even move it back.                               *)
LEMMA RetireKeeps ==
    ASSUME KeysInv, NEW c \in Calls, RetireSigningKey(c)
    PROVE  KeysInv'
  <1> DEFINE k == calls[c].key
  <1>0. KeysTypeOK /\ KeysInOrder /\ CallsInTime /\ SignersLoadedBefore /\ TokensEnd
    BY DEF KeysInv
  <1>1. /\ k \in KeyIds /\ k < nextKey
        /\ calls[c].since <= clock /\ clock <= calls[c].since + MaxDelay
        /\ UNCHANGED <<clock, nextKey, signedUntil>>
    BY <1>0 DEF RetireSigningKey, CallsInTime
  <1>2. /\ keys'[k] = [status |-> "retired", retiredAt |-> calls[c].since]
        /\ keys' \in [KeyIds -> Key]
        /\ \A j \in KeyIds \ {k} : keys'[j] = keys[j]
    BY <1>0, <1>1, KeyFields DEF RetireSigningKey, KeysTypeOK, Key
  <1>3. /\ calls'[c].op = "persist" /\ calls'[c].since = calls[c].since
        /\ calls[c].op # "idle" /\ calls' \in [Calls -> Call]
        /\ \A d \in Calls \ {c} : calls'[d] = calls[d]
    BY <1>0 DEF RetireSigningKey, KeysTypeOK, Call, ActionOps
  <1>4. KeysTypeOK'
    BY <1>0, <1>1, <1>2, <1>3 DEF KeysTypeOK
  <1>5. KeysInOrder'
    BY <1>0, <1>1, <1>2, KeyFields DEF KeysInOrder
  <1>6. CallsInTime'
    BY <1>0, <1>1, <1>3 DEF CallsInTime
  <1>7. SignersLoadedBefore'
    <2> SUFFICES ASSUME NEW d \in Calls, calls'[d].op = "sign",
                        keys'[calls'[d].key].status = "retired"
                 PROVE  calls'[d].since <= keys'[calls'[d].key].retiredAt + MaxDelay
      BY DEF SignersLoadedBefore
    <2>1. d # c /\ calls'[d] = calls[d]
      BY <1>3
    <2>2. CASE calls[d].key = k
      <3>1. calls[d].since <= clock
        BY <1>0, <2>1 DEF CallsInTime
      <3> QED BY <1>0, <1>1, <1>2, <2>1, <2>2, <3>1, KeyFields
    <2>3. CASE calls[d].key # k
      <3>1. calls[d].key \in KeyIds
        BY <1>0, <2>1 DEF CallsInTime
      <3> QED BY <1>0, <1>2, <2>1, <2>3, <3>1 DEF SignersLoadedBefore
    <2> QED BY <2>2, <2>3
  <1>8. TokensEnd'
    <2>1. signedUntil[k] <= calls[c].since + 2 * MaxDelay + TokenTtl
      BY <1>0, <1>1, KeyFields DEF TokensEnd
    <2> QED BY <1>0, <1>1, <1>2, <2>1 DEF TokensEnd
  <1> QED BY <1>4, <1>5, <1>6, <1>7, <1>8 DEF KeysInv

(* Time passes no further than the actions in progress may run. *)
LEMMA TickKeeps ==
    ASSUME KeysInv, ClockTick
    PROVE  KeysInv'
  <1>0. KeysTypeOK /\ KeysInOrder /\ CallsInTime /\ SignersLoadedBefore /\ TokensEnd
    BY DEF KeysInv
  <1>1. clock' = clock + 1 /\ UNCHANGED <<keys, nextKey, calls, signedUntil>>
    BY DEF ClockTick
  <1>2. KeysTypeOK'
    BY <1>0, <1>1, KeysAssumption DEF ClockTick, KeysTypeOK
  <1>3. KeysInOrder' /\ SignersLoadedBefore'
    BY <1>0, <1>1 DEF KeysInOrder, SignersLoadedBefore
  <1>4. CallsInTime'
    <2>1. \A c \in Calls : calls[c].op # "idle" => clock < calls[c].since + MaxDelay
      BY DEF ClockTick, IdleAction
    <2> QED BY <1>0, <1>1, <2>1, KeyFields DEF CallsInTime
  <1>5. TokensEnd'
    BY <1>0, <1>1, KeyFields DEF TokensEnd
  <1> QED BY <1>2, <1>3, <1>4, <1>5 DEF KeysInv

(* Every step keeps the invariant. *)
LEMMA KeysInvStep == KeysInv /\ [KeysNext]_keysVars => KeysInv'
  <1> SUFFICES ASSUME KeysInv, [KeysNext]_keysVars PROVE KeysInv'
    OBVIOUS
  <1>1. CASE ClockTick
    BY <1>1, TickKeeps
  <1>2. ASSUME NEW c \in Calls,
               LoadSigningKey(c) \/ FindNoSigningKey(c) \/ ListToRotate(c)
        PROVE  KeysInv'
    <2>1. PICK op \in ActionOps \ {"idle"}, k \in KeyIds \cup {0} :
              /\ op \in {"sign", "retire"} => k \in ActiveKeys
              /\ calls' = [calls EXCEPT ![c] = [op |-> op, key |-> k, since |-> clock]]
      BY <1>2 DEF LoadSigningKey, FindNoSigningKey, ListToRotate,
                  IsLatestActive, ActionOps
    <2>2. UNCHANGED <<clock, keys, nextKey, signedUntil>>
      BY <1>2 DEF LoadSigningKey, FindNoSigningKey, ListToRotate
    <2> QED BY <2>1, <2>2, BeginKeeps
  <1>3. ASSUME NEW c \in Calls, PersistSigningKey(c) \/ PersistRotatedKey(c)
        PROVE  KeysInv'
    BY <1>3, PersistKeeps
  <1>4. ASSUME NEW c \in Calls, SignAccessToken(c) PROVE KeysInv'
    BY <1>4, SignKeeps
  <1>5. ASSUME NEW c \in Calls, RetireSigningKey(c) PROVE KeysInv'
    BY <1>5, RetireKeeps
  <1>6. ASSUME NEW c \in Calls, Abort(c) PROVE KeysInv'
    BY <1>6, EndKeeps DEF Abort
  <1>7. CASE UNCHANGED keysVars
    BY <1>7 DEF keysVars, KeysInv, KeysTypeOK, KeysInOrder, CallsInTime,
                SignersLoadedBefore, TokensEnd
  <1> QED BY <1>1, <1>2, <1>3, <1>4, <1>5, <1>6, <1>7 DEF KeysNext

(* In every state a key that signed is stored, who signs with a retired key *)
(* had loaded it before, and no token outlives the retirement of its key   *)
(* by more than its lifetime and two delays.                               *)
THEOREM KeysInvariance == KeysSpec => []KeysInv
  <1>1. KeysInit => KeysInv
    BY KeysInvInit
  <1>2. KeysInv /\ [KeysNext]_keysVars => KeysInv'
    BY KeysInvStep
  <1> QED BY <1>1, <1>2, PTL DEF KeysSpec

(* A verifier finds the key of an access token that has not expired, but   *)
(* for the last 2 * MaxDelay of it: whatever the signers and rotations     *)
(* that run at once, if a retired key is kept for the lifetime of a token. *)
THEOREM TokensVerify ==
    ASSUME Retention >= TokenTtl
    PROVE  KeysSpec => []TokensVerifyButForDelays
  <1>1. KeysInv => TokensVerifyButForDelays
    <2> SUFFICES ASSUME KeysInv, NEW k \in KeyIds, clock + 2 * MaxDelay < signedUntil[k]
                 PROVE  Published(k)
      BY DEF TokensVerifyButForDelays
    <2>1. KeysTypeOK /\ KeysInOrder /\ TokensEnd /\ Retention \in Nat
      BY KeysAssumption DEF KeysInv
    <2>2. keys[k].status # "none"
      BY <2>1, KeyFields DEF KeysInOrder
    <2>3. CASE keys[k].status = "active"
      BY <2>3 DEF Published
    <2>4. CASE keys[k].status = "retired"
      <3>1. signedUntil[k] <= keys[k].retiredAt + 2 * MaxDelay + TokenTtl
        BY <2>1, <2>4 DEF TokensEnd
      <3>2. clock <= keys[k].retiredAt + Retention
        BY <2>1, <3>1, KeyFields
      <3> QED BY <2>4, <3>2 DEF Published
    <2> QED BY <2>1, <2>2, <2>3, <2>4 DEF KeysTypeOK, Key
  <1> QED BY <1>1, KeysInvariance, PTL
=============================================================================
