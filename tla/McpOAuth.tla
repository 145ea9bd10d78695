------------------------------ MODULE McpOAuth ------------------------------
(***************************************************************************)
(* The authorization server of the component "mcp": dynamic clients,       *)
(* authorization codes and refresh tokens (component/mcp.ts), and the HTTP *)
(* requests that read and write them (convex-runtime/mcp/runtime.ts,       *)
(* flow.ts and refresh.ts; convex-runtime/oauth-provider/http.ts answers   *)
(* the OpenID routes with the same handlers).                              *)
(*                                                                         *)
(* A request is an HTTP action: each query and mutation it makes is a step *)
(* of its own, and "requests" holds what it has read so far.  A code or a  *)
(* refresh token is known to whoever holds it, so a request may present    *)
(* any of them; row n is the n-th row inserted.                            *)
(*                                                                         *)
(* PKCE is a choice: the verifier presented is the right one or not.       *)
(***************************************************************************)
EXTENDS Naturals

CONSTANTS
    Subjects,           \* users that sign in and grant access
    Clients,            \* client ids
    Scopes,             \* scopes of the server
    Nobody,             \* the subject or client of an empty row
    Requests,           \* HTTP requests that may be in progress at once
    MaxCodes,           \* bound: authorization codes ever created
    MaxTokens,          \* bound: refresh tokens ever created
    Horizon,            \* bound: last value of the clock
    CodeTtl,            \* authorizationCodeExpiresInMs
    AbsoluteLifetime,   \* absoluteLifetimeMs of the refresh token policy
    InactivityLifetime  \* inactivityLifetimeMs of the refresh token policy

CodeIds == 1 .. MaxCodes
TokenIds == 1 .. MaxTokens

ASSUME McpAssumption ==
    /\ Nobody \notin Subjects \cup Clients
    /\ MaxCodes \in Nat \ {0}
    /\ MaxTokens \in Nat \ {0}
    /\ Horizon \in Nat
    /\ CodeTtl \in Nat \ {0}
    /\ AbsoluteLifetime \in Nat \ {0}
    /\ InactivityLifetime \in Nat \ {0}

VARIABLES
    now,              \* Date.now()
    subjects,         \* the session and the row of each user
    clients,          \* mcp_oauth_clients: allowedScopes
    registered,       \* the client ids that have a row
    codes,            \* mcp_oauth_authorization_codes
    nextCode,         \* next code
    tokens,           \* mcp_oauth_refresh_tokens
    nextToken,        \* next token
    revokedFamilies,  \* mcp_oauth_revoked_families
    requests,         \* requests in progress
    codeOf,           \* history: the code a token descends from
    reused            \* history: consumed tokens that were presented again

grants == <<codes, nextCode, tokens, nextToken, revokedFamilies, codeOf, reused>>
vars == <<now, subjects, clients, registered, grants, requests>>

\* The session of the user, as authSessions has it; the last state has no
\* row in users either.
SubjectStates == {"absent", "signedIn", "sessionEnded", "sessionDeleted", "userDeleted"}

RowStates == {"none", "live", "consumed"}

Code == [state : RowStates, client : Clients \cup {Nobody}, scopes : SUBSET Scopes,
         subject : Subjects \cup {Nobody}, expiresAt : Nat]

RefreshToken ==
    [state : RowStates, family : TokenIds \cup {0}, parent : TokenIds \cup {0},
     client : Clients \cup {Nobody}, subject : Subjects \cup {Nobody},
     scopes : SUBSET Scopes, expiresAt : Nat, inactivityExpiresAt : Nat]

Ops == {"idle", "resolveSession", "resolveIdentity", "createCode",
        "consumeCode", "issueToken", "redeem"}

\* scopes is what the request asks for, allowed what its client may ask for.
Request == [op : Ops, client : Clients \cup {Nobody}, allowed : SUBSET Scopes,
            scopes : SUBSET Scopes, subject : Subjects \cup {Nobody},
            code : CodeIds \cup {0}, token : TokenIds \cup {0}]

Idle == [op |-> "idle", client |-> Nobody, allowed |-> {}, scopes |-> {},
         subject |-> Nobody, code |-> 0, token |-> 0]

TypeOK ==
    /\ now \in 0 .. Horizon
    /\ subjects \in [Subjects -> SubjectStates]
    /\ clients \in [Clients -> SUBSET Scopes]
    /\ registered \in SUBSET Clients
    /\ codes \in [CodeIds -> Code]
    /\ nextCode \in 1 .. MaxCodes + 1
    /\ tokens \in [TokenIds -> RefreshToken]
    /\ nextToken \in 1 .. MaxTokens + 1
    /\ revokedFamilies \in SUBSET TokenIds
    /\ requests \in [Requests -> Request]
    /\ codeOf \in [TokenIds -> CodeIds \cup {0}]
    /\ reused \in SUBSET TokenIds

Init ==
    /\ now = 0
    /\ subjects = [s \in Subjects |-> "absent"]
    /\ clients = [c \in Clients |-> {}]
    /\ registered = {}
    /\ codes = [k \in CodeIds |->
                  [state |-> "none", client |-> Nobody, scopes |-> {},
                   subject |-> Nobody, expiresAt |-> 0]]
    /\ nextCode = 1
    /\ tokens = [t \in TokenIds |->
                   [state |-> "none", family |-> 0, parent |-> 0, client |-> Nobody,
                    subject |-> Nobody, scopes |-> {}, expiresAt |-> 0,
                    inactivityExpiresAt |-> 0]]
    /\ nextToken = 1
    /\ revokedFamilies = {}
    /\ requests = [r \in Requests |-> Idle]
    /\ codeOf = [t \in TokenIds |-> 0]
    /\ reused = {}

-----------------------------------------------------------------------------
(* The status of a refresh token: revoked before expired, expired before   *)
(* inactive, inactive before consumed                                      *)

\* Mutant: only the token that was presented again is revoked.
RevokedAlone(t) == t \in reused

Revoked(t) == tokens[t].family \in revokedFamilies

Lapsed(t) == tokens[t].expiresAt <= now \/ tokens[t].inactivityExpiresAt <= now

Active(t) == tokens[t].state = "live" /\ ~Revoked(t) /\ ~Lapsed(t)

Replayed(t) == tokens[t].state = "consumed" /\ ~Revoked(t) /\ ~Lapsed(t)

\* Mutant: consumedAt is written and not read.
ConsumableAgain(k, c) ==
    /\ codes[k].state # "none"
    /\ codes[k].client = c
    /\ codes[k].expiresAt > now

\* A code is given to the client it was created for, once, and in time.
Consumable(k, c) ==
    /\ codes[k].state = "live"
    /\ codes[k].client = c
    /\ codes[k].expiresAt > now

-----------------------------------------------------------------------------
(* The host, and the clients that register                                 *)

SignIn(s) ==
    /\ subjects[s] = "absent"
    /\ subjects' = [subjects EXCEPT ![s] = "signedIn"]
    /\ UNCHANGED <<now, clients, registered, grants, requests>>

\* The session is revoked or expires, and its row stays.
EndSession(s) ==
    /\ subjects[s] = "signedIn"
    /\ subjects' = [subjects EXCEPT ![s] = "sessionEnded"]
    /\ UNCHANGED <<now, clients, registered, grants, requests>>

CleanupSession(s) ==
    /\ subjects[s] = "sessionEnded"
    /\ subjects' = [subjects EXCEPT ![s] = "sessionDeleted"]
    /\ UNCHANGED <<now, clients, registered, grants, requests>>

\* Codes and refresh tokens of the user are not among the tables it walks.
DeleteUser(s) ==
    /\ subjects[s] \notin {"absent", "userDeleted"}
    /\ subjects' = [subjects EXCEPT ![s] = "userDeleted"]
    /\ UNCHANGED <<now, clients, registered, grants, requests>>

\* A client id that is there already has its registration overwritten.
RegisterDynamicClient(c) ==
    /\ \E S \in SUBSET Scopes :
          /\ clients' = [clients EXCEPT ![c] = S]
          /\ registered' = registered \cup {c}
    /\ UNCHANGED <<now, subjects, grants, requests>>

-----------------------------------------------------------------------------
(* GET /oauth/authorize                                                    *)

\* resolveClient, and the scopes the client asks for checked against it.
AuthorizeRequest(r, s) ==
    /\ requests[r] = Idle
    /\ subjects[s] # "absent"
    /\ \E c \in registered : \E S \in SUBSET clients[c] \ {{}} :
          requests' = [requests EXCEPT ![r] =
                         [Idle EXCEPT !.op = "resolveSession", !.client = c,
                            !.allowed = clients[c], !.scopes = S, !.subject = s]]
    /\ UNCHANGED <<now, subjects, clients, registered, grants>>

\* getSessionByToken returns the row, and nobody looks at revokedAt or expiresAt.
ResolveSession(r) ==
    /\ requests[r].op = "resolveSession"
    /\ subjects[requests[r].subject] \in {"signedIn", "sessionEnded"}
    /\ requests' = [requests EXCEPT ![r].op = "resolveIdentity"]
    /\ UNCHANGED <<now, subjects, clients, registered, grants>>

\* getUserById, and the authorize callback of the host, which may grant less.
ResolveIdentity(r) ==
    /\ requests[r].op = "resolveIdentity"
    /\ subjects[requests[r].subject] # "userDeleted"
    /\ \E S \in SUBSET requests[r].scopes :
          requests' = [requests EXCEPT ![r].op = "createCode", ![r].scopes = S]
    /\ UNCHANGED <<now, subjects, clients, registered, grants>>

CreateAuthorizationCode(r) ==
    /\ requests[r].op = "createCode"
    /\ nextCode \in CodeIds
    /\ codes' = [codes EXCEPT ![nextCode] =
                   [state |-> "live", client |-> requests[r].client,
                    scopes |-> requests[r].scopes, subject |-> requests[r].subject,
                    expiresAt |-> now + CodeTtl]]
    /\ nextCode' = nextCode + 1
    /\ requests' = [requests EXCEPT ![r] = Idle]
    /\ UNCHANGED <<now, subjects, clients, registered,
                   tokens, nextToken, revokedFamilies, codeOf, reused>>

-----------------------------------------------------------------------------
(* POST /oauth/token, grant_type=authorization_code                        *)

TokenRequest(r, k) ==
    /\ requests[r] = Idle
    /\ codes[k].state # "none"
    /\ \E c \in registered :
          requests' = [requests EXCEPT ![r] =
                         [Idle EXCEPT !.op = "consumeCode", !.client = c,
                            !.allowed = clients[c], !.code = k]]
    /\ UNCHANGED <<now, subjects, clients, registered, grants>>

\* The scopes and the verifier are checked after the code is spent: a request
\* that fails them burns the code.
ConsumeAuthorizationCode(r) ==
    LET k == requests[r].code
    IN /\ requests[r].op = "consumeCode"
       /\ Consumable(k, requests[r].client)
       /\ codes' = [codes EXCEPT ![k].state = "consumed"]
       /\ \/ /\ codes[k].scopes \subseteq requests[r].allowed
             /\ requests' = [requests EXCEPT ![r].op = "issueToken",
                                             ![r].scopes = codes[k].scopes]
          \/ requests' = [requests EXCEPT ![r] = Idle]
       /\ UNCHANGED <<now, subjects, clients, registered, nextCode,
                      tokens, nextToken, revokedFamilies, codeOf, reused>>

\* createMcpOAuthRefreshToken: both lifetimes start again with every token.
InsertRefreshToken(T, family, parent, holder, scopes, k) ==
    /\ nextToken \in TokenIds
    /\ tokens' = [T EXCEPT ![nextToken] =
                    [state |-> "live", family |-> family, parent |-> parent,
                     client |-> holder.client, subject |-> holder.subject,
                     scopes |-> scopes, expiresAt |-> now + AbsoluteLifetime,
                     inactivityExpiresAt |-> now + InactivityLifetime]]
    /\ nextToken' = nextToken + 1
    /\ codeOf' = [codeOf EXCEPT ![nextToken] = k]

\* It runs beside signAccessToken and does not wait for it.
IssueRefreshToken(r) ==
    LET k == requests[r].code
    IN /\ requests[r].op = "issueToken"
       /\ InsertRefreshToken(tokens, nextToken, 0, codes[k], requests[r].scopes, k)
       /\ requests' = [requests EXCEPT ![r] = Idle]
       /\ UNCHANGED <<now, subjects, clients, registered,
                      codes, nextCode, revokedFamilies, reused>>

-----------------------------------------------------------------------------
(* POST /oauth/token, grant_type=refresh_token                             *)

RefreshRequest(r, t) ==
    /\ requests[r] = Idle
    /\ tokens[t].state # "none"
    /\ \E c \in registered : \E S \in SUBSET clients[c] :
          requests' = [requests EXCEPT ![r] =
                         [Idle EXCEPT !.op = "redeem", !.client = c,
                            !.allowed = clients[c], !.scopes = S, !.token = t]]
    /\ UNCHANGED <<now, subjects, clients, registered, grants>>

\* A request that names no scopes gets those of the token.
GrantedScopes(t, asked) == IF asked = {} THEN tokens[t].scopes ELSE asked

\* Mutant: the scopes asked for are held against the client only.
ScopesAllowed(t, r) == tokens[t].scopes \subseteq requests[r].allowed

\* resolveMcpOAuthRefreshTokenGrantedScopes.
ScopesGrantable(t, r) ==
    /\ tokens[t].scopes \subseteq requests[r].allowed
    /\ requests[r].scopes \subseteq tokens[t].scopes

\* Mutants: the status does not look at consumedAt; or not at the clock.
RedeemableTwice(t, r) ==
    /\ tokens[t].client = requests[r].client
    /\ ~Revoked(t) /\ ~Lapsed(t)
    /\ ScopesGrantable(t, r)

RedeemableLate(t, r) ==
    /\ tokens[t].client = requests[r].client
    /\ tokens[t].state = "live" /\ ~Revoked(t)
    /\ ScopesGrantable(t, r)

Redeemable(t, r) ==
    /\ tokens[t].client = requests[r].client
    /\ Active(t)
    /\ ScopesGrantable(t, r)

\* findForRefreshToken and rotate run in one mutation, so that the conflict
\* that rotate looks for cannot arise.
RotateRefreshToken(r) ==
    LET t == requests[r].token
    IN /\ requests[r].op = "redeem"
       /\ Redeemable(t, r)
       /\ InsertRefreshToken([tokens EXCEPT ![t].state = "consumed"], tokens[t].family, t,
                             tokens[t], GrantedScopes(t, requests[r].scopes), codeOf[t])
       /\ requests' = [requests EXCEPT ![r] = Idle]
       /\ UNCHANGED <<now, subjects, clients, registered,
                      codes, nextCode, revokedFamilies, reused>>

RevokeFamily(r) ==
    LET t == requests[r].token
    IN /\ requests[r].op = "redeem"
       /\ tokens[t].client = requests[r].client
       /\ Replayed(t)
       /\ revokedFamilies' = revokedFamilies \cup {tokens[t].family}
       /\ reused' = reused \cup {t}
       /\ requests' = [requests EXCEPT ![r] = Idle]
       /\ UNCHANGED <<now, subjects, clients, registered,
                      codes, nextCode, tokens, nextToken, codeOf>>

-----------------------------------------------------------------------------

\* The request is turned down and nothing is written, or the isolate stops.
EndRequest(r) ==
    /\ requests[r] # Idle
    /\ requests' = [requests EXCEPT ![r] = Idle]
    /\ UNCHANGED <<now, subjects, clients, registered, grants>>

Tick ==
    /\ now < Horizon
    /\ now' = now + 1
    /\ UNCHANGED <<subjects, clients, registered, grants, requests>>

Next ==
    \/ Tick
    \/ \E s \in Subjects :
          SignIn(s) \/ EndSession(s) \/ CleanupSession(s) \/ DeleteUser(s)
    \/ \E c \in Clients : RegisterDynamicClient(c)
    \/ \E r \in Requests, s \in Subjects : AuthorizeRequest(r, s)
    \/ \E r \in Requests, k \in CodeIds : TokenRequest(r, k)
    \/ \E r \in Requests, t \in TokenIds : RefreshRequest(r, t)
    \/ \E r \in Requests :
          \/ ResolveSession(r)
          \/ ResolveIdentity(r)
          \/ CreateAuthorizationCode(r)
          \/ ConsumeAuthorizationCode(r)
          \/ IssueRefreshToken(r)
          \/ RotateRefreshToken(r)
          \/ RevokeFamily(r)
          \/ EndRequest(r)

Spec == Init /\ [][Next]_vars

-----------------------------------------------------------------------------
(* Properties                                                              *)

TokensOf(f) == {t \in TokenIds : tokens[t].state # "none" /\ tokens[t].family = f}

(* A grant has one refresh token that can be redeemed, whichever requests  *)
(* present its tokens at the same time: redeemRefreshToken consumes the    *)
(* token and inserts its successor in one mutation.                        *)
OneLiveTokenPerFamily ==
    \A t, v \in TokenIds :
        /\ tokens[t].state = "live"
        /\ tokens[v].state = "live"
        /\ tokens[t].family = tokens[v].family
        => t = v

(* An authorization code opens one family of refresh tokens at most,       *)
(* although the code is consumed in one step and the token issued in       *)
(* another.                                                                *)
CodeGrantsOneFamily ==
    \A t, v \in TokenIds :
        /\ tokens[t].state # "none"
        /\ tokens[v].state # "none"
        /\ codeOf[t] = codeOf[v]
        => tokens[t].family = tokens[v].family

(* A token never carries a scope that its parent, or the authorization     *)
(* code at the root of its family, did not carry, nor another client or    *)
(* subject, however registrations change between the steps.                *)
GrantsOnlyNarrow ==
    \A t \in TokenIds :
        LET p == tokens[t].parent
            k == codeOf[t]
        IN tokens[t].state # "none" =>
             /\ tokens[t].scopes \subseteq codes[k].scopes
             /\ tokens[t].client = codes[k].client
             /\ tokens[t].subject = codes[k].subject
             /\ p # 0 => tokens[t].scopes \subseteq tokens[p].scopes

(* Once a consumed token was presented again in its lifetime, no token of  *)
(* its family can be redeemed: the thief and the client both lose it.      *)
ReuseEndsFamily ==
    \A t \in reused : \A v \in TokensOf(tokens[t].family) : ~Active(v)

(* A grant whose tokens are all revoked, expired or left unused too long   *)
(* never has a token that can be redeemed again.                           *)
EndedGrantsStayEnded ==
    [][\A f \in TokenIds :
          /\ TokensOf(f) # {}
          /\ \A t \in TokensOf(f) : ~Active(t)
          => \A t \in TokensOf(f)' : ~Active(t)']_vars

=============================================================================
