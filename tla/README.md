# Verification of convex-better-auth

TLA+ models of the authentication runtime in `packages/auth`, checked with TLC
on small instances, and theorems about them checked with TLAPS. Paths below are
relative to `packages/auth/src/` unless they begin with `packages/` or `docs/`.

1. [The system](#1-the-system)
2. [How the models are built](#2-how-the-models-are-built)
3. [The modules](#3-the-modules)
4. [The runs](#4-the-runs)
5. [The theorems](#5-the-theorems)
6. [What the code does that its documents do not say](#6-what-the-code-does-that-its-documents-do-not-say)
7. [Inventory of the components](#7-inventory-of-the-components)
8. [What is not modelled](#8-what-is-not-modelled)
9. [Plan](#9-plan)

## 1. The system

The package is an authentication server that lives inside a Convex deployment.
It has two layers.

- `component/` is a Convex component: the tables (`schema.ts`) and the queries
  and mutations on them. **A query or mutation is one serializable transaction**:
  it sees one state and commits all or nothing.
- `convex-runtime/` is what a host calls: Convex *actions* and HTTP handlers
  (sign-in, refresh, two-factor, the OAuth 2.1 authorization server). **An action
  is not a transaction.** Each `ctx.runQuery` and `ctx.runMutation` that it awaits
  is a transaction of its own; other calls run in between, and the isolate may
  stop between any two of them and leave behind what it has committed.

Around them are clients (`react`, `react-native`), which repeat a call whose answer
they have lost, several tabs and devices of one user, and a host that schedules
the cleanup mutations or never does.

So the hard questions of this code are about what an action has *read* and then
*uses* in a later transaction, and about what remains when it stops half way. The
tables outlive everything else: a row that was written wrongly once is read for
weeks. There are no locks; safety rests on each mutation checking again what the
action has checked before it.

How the parts meet:

```
  client ── signIn / updateSession / signOut / twoFactor* ──► native actions
                                                               │ queries, mutations
  OAuth client ── /authorize, /token ──► mcp requests          ▼
        │                                  │        users, identities, accounts
        │   getSessionByToken ─────────────┼──────► authSessions, authRefreshTokens
        │                                  │        authVerificationCodes
        └── access tokens verified by JWKS ▼
                              mcp_oauth_clients, _authorization_codes,
                              _refresh_tokens, _revoked_families, _signing_keys
```

- Sessions are read by every other part, by `getSessionByToken` and by the JWT
  alone; they are written by sign-in of every kind, `updateSession`, the three
  revocations, `resetPassword`, `deleteUser` and cleanup.
- Verification codes are one table with one set of mutations
  (`component/native/codes.ts`), shared by e-mail verification, password reset,
  e-mail change, magic link, OTP, two-factor challenges and trusted devices.
- The authorization server resolves the user of an authorize request through the
  session table and from then on keeps its own grants.
- Organizations, members and API keys are rows that `deleteUser` and the deletion of an
  organization take along, in one mutation each. Mutations on them emit events, which the
  webhook endpoints of the organization receive through a queue of deliveries.
- Agents are registered under a host of an organization and approved by a user of it; they
  sign their own requests and need no session.

## 2. How the models are built

One convention carries all modules:

| in the code | in the modules |
|---|---|
| a mutation or query of `component/` | one TLA+ action (one step), with every write it makes |
| an action or HTTP handler | an entry of `calls` (`requests` in `McpOAuth`); `op` is the transaction that comes next, the other fields are what it has read |
| an early return or a thrown error | the step that ends the call and writes nothing |
| an isolate that stops, a failed `fetch` | `Crash`, `EndRequest`, `Abort`: the call ends anywhere, what it committed stays |
| `ctx.scheduler.runAfter(0, ...)` in a mutation | a field of the row (`cascade`) that enables the next batch; weak fairness says that it runs |
| a cron of the host | an action that may run at any time; where liveness is claimed, weakly fair |
| a lost answer, a client that retries | a call may start again with any token that was ever given out |
| `Date.now()` | `now`, advanced by `Tick` (`clock` and `ClockTick` in `McpSigningKeys`); an action that computes `now` once keeps it in `at` or `since`, and what it stores is computed from there |
| a row id, a token, a key id | a number given out in order; knowing the number is holding the token |
| a hash, a JWT, a TOTP code, PKCE | the name of what was hashed or signed; right or wrong is a choice |
| `getPage(index, limit)` | the first rows by that index, whatever their state, and no more than the limit |

A deleted or revoked row keeps its fields in the model, with a `state`, because
the token in a client's hand still carries them.

Variables marked *history* in a module record what has happened (from which
session a session was rotated, which challenge was served). No guard reads them;
properties do. An operator whose comment begins with "Mutant" stands next to the
definition it varies and describes a plausible mistake (a dropped check, a write of
the wrong copy). No specification uses it; put in place of the definition it varies,
it makes a property fail, which shows that the property can tell the two apart.

## 3. The modules

### NativeSessions

`component/native/sessions.ts`, `refreshTokens.ts`, `convex-runtime/native/updateSession.ts`,
and the parts of `identity.ts`, `users.ts` and `provider.ts` that write sessions.

State: `sessions` (authSessions), `refresh` (authRefreshTokens), the user's row and
identity providers, and `calls`. History: `parent` (rotated from), `family` (the sign-in
a session descends from), `resetMark` (how many sessions there were at the last reset).

| code | action |
|---|---|
| `provisionFromIdentity`, with or without its first session | `Provision` |
| `signIn` (read, verify), then `createSessionAndRefreshToken` | `SignIn`, `IssueSession` |
| `updateSession`: token query, session query, user query, mutation `rotateSession` | `UpdateSession`, `ReadSession`, `ReadUser`, `RotateSession` |
| `signOut`: revoke the session, then its tokens | `SignOut`, `SignOutTokens` |
| `revokeSession`; `revokeOtherSessions` | `RevokeSession`, `RevokeOne`; `RevokeOtherSessions`, `RevokeOthers` |
| `resetPassword` (the revocation of one page), `deleteUser` | `ResetPassword`, `DeleteUser` |
| `cleanupExpiredSessions`, `cleanupExpiredRefreshTokens` | the two actions of that name |
| `createSession`, `createRefreshToken`, `consumeRefreshToken`, `revokeRefreshTokensForUser`, which only a host calls | the four actions of that name, behind `HostCalls` |

`rotateSession` is given the token and the time its action began; it checks the
token, session and user again at its own time, revokes both old rows and inserts
both new ones in one transaction. Most of the properties depend on that mutation.

### SessionFamilies

What the store promises, without tables, tokens or time: a sign-in opens a family,
whose *head* is the one session that can be used and renewed; rotation moves the
head to a session that was never a head; anything else closes the family for good.
`NativeSessions` implements it under `head <- FamilyHead`, where a family whose usable
session is gone maps to `Closed`; `AuthMd` implements it as well (below). An `updateSession` in progress, a crash, a cleanup
and a host's token call are stutters. One reset, or one tick, closes many families. The expiry of a session
is computed when its action begins: by the time it is stored it may have passed, a step that the
abstract specification calls `Miss`.

### VerificationCodes and TwoFactor

`VerificationCodes` is the table authVerificationCodes and the mutations of
`component/native/codes.ts` as operators; modules of the flows EXTEND it. Creating
a code consumes the codes of its type that the page of
`MAX_VERIFICATION_CODES_PER_USER` rows reaches. `Consumable` is the mutation's check
(live, right type, not expired). Expiry is a flag that `ExpireCode` raises at any
time: no property compares two expiries.

`TwoFactor` adds the three fields `twoFactorEnabled`, `twoFactorSecret` and
`twoFactorBackupCodes` of the user's row. `setTwoFactor` replaces all three. History:
`used`, `served`, and `revived`: the users to whose row a confirmation has given back backup codes
it had lost since the confirmation read it. A user leaves the set with the next fresh set of codes.

| code | action |
|---|---|
| `twoFactorEnable` | `TwoFactorEnable` (its read and write cannot be told apart: it writes nothing it has read) |
| `twoFactorVerifyTOTP` with a session: read, check, `setTwoFactor` | `ReadToConfirm`, `Confirm` |
| `twoFactorDisable`: clear the row, revoke the devices | `TwoFactorDisable`, `RevokeDevices` |
| `twoFactorGenerateBackupCodes`: read, draw, `setTwoFactor` | `ReadToGenerate`, `TwoFactorGenerateBackupCodes` |
| `handleTwoFactorSignIn`: device query, then session or challenge | `HandleTwoFactorSignIn`, `ReadTrustedDevice`, `IssueChallenge` |
| `resolveTwoFactorChallengeToken` | `ConsumeChallenge`, then `VerifyTOTP`, `ReadBackupCode` or `RejectCode` |
| `consumeBackupCode`, the session, the trusted device | `ConsumeBackupCode`, `IssueSession`, `CreateTrustedDevice` |

### McpOAuth

`component/mcp.ts`, `convex-runtime/mcp/{runtime,flow,refresh}.ts` and
`convex-runtime/oauth-provider/http.ts`: dynamic clients (registering again overwrites
the row), authorization codes, and refresh tokens in families with reuse detection.

| code | action |
|---|---|
| `registerDynamicClient` | `RegisterDynamicClient` |
| authorize: resolve client, session, user and host callback, store the code | `AuthorizeRequest`, `ResolveSession`, `ResolveIdentity`, `CreateAuthorizationCode` |
| token endpoint, `authorization_code` | `TokenRequest`, `ConsumeAuthorizationCode`, `IssueRefreshToken` |
| token endpoint, `refresh_token` (`redeemRefreshToken`, one mutation) | `RefreshRequest`, `RotateRefreshToken`, `RevokeFamily` |
| session revoked, cleaned up, user deleted | `EndSession`, `CleanupSession`, `DeleteUser` |

The status of a token is decided in the code's order: revoked, expired, inactive,
consumed. `Replayed` is therefore false for a consumed token that has lapsed, and its
replay is turned down without ending the family. Scopes are checked against
what the client was allowed when the request read it, which a registration
meanwhile may have changed. That is why `requests` holds `allowed`.

`McpOAuth` keeps of a user's session only which of five states it is in
(`subjects`): the server asks no more of the session table, and how a session
reaches those states is `NativeSessions`.

### McpSigningKeys

`mcp_oauth_signing_keys` of `component/mcp.ts`, `convex-runtime/mcp/signingRuntime.ts`
(sign, create when there is no key, rotate) and what `signing.ts` publishes. Signing,
creating and rotating are actions of two or three transactions. `retiredAt` is the
time the rotation began, not that of the transaction. The constant `MaxDelay` is an
assumption on the environment: Convex bounds the time an action may run, and `ClockTick`
does not let a call in progress grow older. Two things are left out: above 256 active and retained keys the list
throws (`mcp.ts:701`; `MaxKeys` stands for fewer), and a caller that asks for a lifetime above the
default (`signing.ts:104`) has tokens which outlive the retention of their key; `TokenTtl` is then the most it asks for.

### WebhookDeliveries

`component/webhooks.ts`, `convex-runtime/webhooks/{deliveryState,deliveryProcessor}.ts` and the
processor of `examples/react/convex/webhooks.ts`, the only place where the repository calls them
in sequence.

| code | action |
|---|---|
| `createWebhookEndpoint`, `setWebhookEndpointStatus`, `deleteWebhookEndpoint`, the part of `deleteUser` | `CreateWebhookEndpoint`, `SetWebhookEndpointStatus`, `DeleteWebhookEndpoint`, `DeleteOwner` |
| `fanOutConvexWebhookEvent` (inside the mutation that emits), `createWebhookDelivery` | `FanOut`, `CreateWebhookDelivery` |
| `listPendingWebhookDeliveries`, `claimWebhookDelivery`, `getWebhookEndpointWithSecret`, the request, `updateWebhookDelivery` | `ListPending`, `ClaimWebhookDelivery`, `ReadEndpoint`, `Send`, `UpdateWebhookDelivery` |
| recovery of stale rows; `retryDelivery` of the host; a processor that stops | `RecoverStale`; `RetryDelivery`; `Crash` |

A processor keeps the attempt count of the row as it was *listed* and writes it back plus one;
the claim asks whether the row is pending and nothing else. The stale limit is shorter than an
action may run, so a row may be put back while it is held: the history variable `shared` marks it.

### AgentAuth, AgentCredentials and DeviceGrant

`AgentAuth` is every mutation of `component/agentAuth.ts` on hosts, agents, capability grants and
device authorizations. `AgentCredentials` extends it with the signed requests of
`agent-auth-protocol-convex.ts`: sign, verify against what was read, consume the `jti` in a later
mutation, clean the replay record up. `DeviceGrant` is what a device authorization
promises (asked, approved or refused, told once), implemented under `state <- GrantState`.

| code | action |
|---|---|
| `registerAgentHost`, `setAgentHostStatus`, `revokeAgentHostAsHost`, key rotation | `RegisterAgentHost`, `SetAgentHostStatus`, `RevokeAgentHostAsHost`, `RotateHostKey` |
| `cascadeRevokedAgentHost`, one batch of one phase, scheduling the next | `CascadeRevokedAgentHost` |
| `registerAgent`, `setAgentStatus`, `revokeAgentAsHost`, `reactivateAgent`, key rotation | `RegisterAgent`, `SetAgentStatus`, `RevokeAgentAsHost`, `ReactivateAgent`, `RotateAgentKey` |
| capability grants; `decideAgentDeviceAuthorization`; the poll that delivers | `SetAgentCapabilityGrantStatus`; `DecideAgentDeviceAuthorization`; `PollAgentDeviceAuthorization` |
| `resolveAgentAuthProtocol...` up to the mutation; `consumeAgentCredential`, `consumeAgentHostRequest` | `Verify`; `Consume` |
| `cleanupExpiredAgentReplayRecords`, `...HostReplayRecords` | `CleanupExpiredReplayRecord` |

### AuthMd

`component/authMd.ts`, `auth-md/convex.ts`, and the part of `deleteUser` that reaches its tables. An agent registers,
a user claims the registration with the code the agent shows, the agent polls and is given one
assertion, the assertion is exchanged for a credential, the credential is refreshed along a chain.

| code | action |
|---|---|
| `registerServiceAuth`; `completeServiceAuthClaim` | `RegisterServiceAuth`; `CompleteServiceAuthClaim`, failed attempts included |
| `pollServiceAuthClaim`: expire, revoke, or issue the assertion | `PollExpires`, `PollRevokes`, `PollIssuesAssertion` |
| the rest of a poll: exchange, sign, answer | `ConsumeServiceAuthAssertion`, `Answer` |
| `exchangeIdentityAssertion` | `ExchangeIdentityAssertion`, then as above |
| `refreshServiceAuthCredential`; the two revocations | `RefreshServiceAuthCredential`; `RevokeServiceAuthCredentialAsHolder`, `RevokeServiceAuthRegistration` |
| whoever suspends or restores a user, organization or membership; `deleteUser` with the organizations it empties | `SetAuthority`; `DeleteUser` |
| a call that is refused, stops, or whose answer is lost | `CutOff` |

`given` is the set of credentials whose token reached the agent; only these are refreshed or revoked by
their holder. The module implements `SessionFamilies` under `head <- ChainHead`: all credentials of
a registration are one family, and its head is the one that `introspectServiceAuthCredential` would accept,
apart from the authority of the user, which may come and go. Two acceptable credentials are no head, so
the refinement also says that there is one.

### EmailFlows

`component/identity.ts`, `component/native/{verifiers,anonymous,accounts,users}.ts` and
`convex-runtime/native/{provider,emailOtp,magicLink,anonymous}.ts`, on top of
`VerificationCodes`. A mail is read by whoever owns the address; a password is known by the
address whose mail set it.

| code | action |
|---|---|
| `signUp`, with or without its first code; the duplicate | `SignUp`; `SignUpDuplicate` |
| `sendEmailVerification`, `sendPasswordReset`, `sendVerificationOtp`, `signInMagicLink` | `SendCode`, `SendChangeCode`, `SendSignInMail` |
| `verifyEmail`, `resetPassword`, `changeEmail` | the actions of that name |
| the fallback of forget-password by OTP: four transactions, the code consumed last | `ResetByOtp`, `ReadCode`, `ReadIdentity`, `FirstPassword`, `ConsumeCode` |
| `verifyEmailOtp`, `verifyMagicLink`: `consumeVerifier`, `getUserByEmail`, `provisionFromIdentity` | `ConsumeVerifier`, `LookUp`, `Provision` |
| `signInAnonymous`; `linkAnonymousAccount`, five transactions | `SignInAnonymous`; `LinkAnonymousAccount`, `ReadTarget`, `LinkAnonymousUser`, `LinkAccount` |

`ReadTarget` joins two queries (the user by address, the account by address): accounts of the
provider `email` are only ever added, so reading both at the time of the first gives the answers
the two can give. Of an identity the model keeps both columns it can be found by, `key` and `subject`, because
`changeEmail` moves one of them.

### Organizations

`component/organizations.ts`, `deleteUser` of `component/native/users.ts`, the member writers of
`createConvexAuthOrganizationOperations.ts`, the redemption of `invitationPolicy.ts`, and the
actions of the example that bind them.

| code | action |
|---|---|
| `createOrganization`, `ensureRole`, `deleteRole`, `setMemberRole`, `setMemberStatus`, `setUserActiveOrganization` | the actions of that name |
| `redeemInvitation`, `revokeInvitation`, `resendInvitation`, `markInvitationExpired` | the actions of that name; `Lapse` is the passing of `expiresAt` |
| `deleteUser`, with the organizations it leaves empty | `DeleteUser` |
| the writer: roles of the system, role by key, `upsertMember` | `WriteMember`, `EnsureSystemRole`, `UpsertMember` |
| `inviteMember`: role, `upsertInvitation`, which writes to an existing row when a host passes its id | `InviteMember`, `UpsertInvitation` |
| `redeemOrganizationInvitation`: read and judge, write the member, mark, set active | `ReadInvitation`, the writer, `MarkInvitationAccepted`, `SetActiveOrganization` |

The writer ensures the organization twice (`createConvexAuthOrganizationOperations.ts:1390`, `1293`). When it has been deleted
in between, the code inserts one of the same slug, with the role, and fails in `upsertMember`, which was given the first id. The model
fails at once: what it leaves out is an organization without members, which no property speaks of before a member is in it.

### ApiKeys

`component/apiKeys.ts`, `component/servicePrincipals.ts` and the deletions that reach both. Every
operation is one mutation, so the hard part is not interleaving but long sequences: issue, upsert by id
or prefix, rotate, revoke, reactivate, move the principal, verify near the edge of a window.
`IssueApiKey`, `UpsertApiKey`, `IssueServiceOwnedApiKey`, `UpsertServiceOwnedApiKey`,
`RotateApiKey`, `RevokeApiKey`, `VerifyApiKey`, the three mutations on principals, and `DeleteUser`
carry the names of the code. A secret is a member of a pool with a prefix (`PrefixOf`); lookup is by
prefix, first row. The issuing mutations make a fresh secret. The upserts and the rotation are handed one, with its
expiry and status, and compare none of them with what the row has or had: in the model it may be any, in use, ended or new.
`Meter` and `Count` are the arithmetic of `evaluateApiKeyLimits` on whole units of time; a quota refills only with
`refillAmount` and `refillIntervalMs`. A `rateLimitMax` of 0, which limits nothing, is the choice without "rate". The `now` that a
caller of `verifyApiKey` may pass is left out: there is one clock.

## 4. The runs

Each MC module only adds TLC, definitions of constants and the symmetry set. A property is an invariant, an
action property (`[][A]_vars`), an abstract specification, or a liveness property.

| run | module | what it asks | distinct states |
|---|---|---|---|
| session_rotation | NativeSessions | what the store promises, two calls in progress | 275,116 |
| session_host | NativeSessions | one open session per sign-in, also when a host calls the token mutations itself | 750,965 |
| two_factor_sign_in | TwoFactor | challenges, backup codes and the flag, two calls in progress, nothing restricted | 330,795 |
| mcp_grants | McpOAuth | codes and families with two requests in progress | 362,820 |
| mcp_keys | McpSigningKeys | rotation against signing | 2,251,953 |
| webhook_queue | WebhookDeliveries | two processors, stale rows, a crash, retries by hand: who sends, when a delivery is given up, and that every delivery ends | 296,085 |
| agents | AgentCredentials | the cascade of a revoked host against everything else that writes an agent, and signed requests against both | 880,480 |
| auth_md | AuthMd | one chain of credentials per registration, three calls in progress, cut off anywhere | 38,880 |
| email_flows | EmailFlows | what a used mail proves, with two calls in progress and every kind of mail | 1,719,700 |
| organizations | Organizations | members, roles and invitations under deletions, with an action in progress | 1,715,773 |
| api_keys | ApiKeys | limits over time, prefixes, owners and ended secrets, over long sequences of mutations | 216,991 |
| email_otp_session | EmailFlows | see section 6 | stops at a counterexample |

Deadlock is checked in every run but organizations, api_keys and auth_md. In these three
the system really may stop: rows are inserted up to a bound and never come back, so once
every user is deleted, or every key and the clock have reached their end, no step is left.

What the properties say:

- **OneSuccessor**, **OneOpenPerFamily**: however many
  `updateSession` calls present one refresh token, the sign-in has one successor and one
  open session. They fail if `rotateSession` trusts the queries before it, or forgets to revoke the
  old session.
- **NoResurrection**: a sign-in without a usable session never has one again, through any
  interleaving of sign-out (two transactions, crash between them), reset, deletion
  and rotations that had already read everything.
- **ResetEndsOlderFamilies**: after a reset no older sign-in is usable, also not
  by a rotation under way at the time. It holds while the page of the reset holds every row
  of the user (section 6).
- **ImplementsFamilies**: the refinement of `SessionFamilies`.
- **ChallengeUsedOnce**: a two-factor challenge lets one sign-in through; a wrong
  code spends it. **OneLiveCode**: a new code retires the one before.
  **EnabledMeansVerifiable**: whatever enable, disable, confirm and generate do at
  once, nobody is asked for a second factor that cannot be verified.
- **BackupCodeUsedOnce**: two sign-ins with one backup code never both pass, whatever is done to the settings
  meanwhile. The exception is exact: a confirmation that had read the row before the code
  was used writes the code back (section 6), and only that does.
- **OneLiveTokenPerFamily**, **CodeGrantsOneFamily**: two token requests with one code, or
  one refresh token, leave one family and one live token. **GrantsOnlyNarrow**: client
  and subject never change along a family, scopes only shrink. **ReuseEndsFamily**: a replay in
  its lifetime ends every token of the family. **EndedGrantsStayEnded**: no
  request that read a family before its end revives it.
- **TokensVerifyButForDelays**: an access token can be verified until `2 * MaxDelay` before
  it expires. The retention of a retired key equals the lifetime of a token, so
  without the allowance the property fails: a rotation dates the retirement back, and
  a signer that has read the key uses it after.
- **OneSender**, **DeliveredStays**: the claim keeps two processors apart, and a late answer does not overwrite
  a delivered row, except where the row was put back while it was held. Without that exception
  both fail: the stale limit is shorter than a processor may live. **NotGivenUpEarly**: although the
  attempt count is read before the claim and written back, a delivery is given up only after as
  many requests as it was granted. **EveryDeliveryEnds**: liveness, below.
- **CascadeReachesAll**: agents move between phases, are registered, approved and reactivated while the
  batches of a cascade run; none of the host's agents is left. **RevokedHoldsNothing**,
  **EndedStaysEnded**: what is revoked has nothing and does not come back. **CredentialUsedOnce**,
  **SpentNeverAccepted**: a `jti` is consumed once, though verified by two requests and its replay
  record cleaned up between them; and nothing that was verified survives a rotation or a
  revocation. **CascadeEnds**: liveness. **ImplementsDeviceGrant**: the refinement.
- **ImplementsChains**: "exactly one credential is live per chain" (`authMd.ts:411`), and one chain per registration, against the exchange of
  one assertion by two calls, refreshes with one token, revocations and deletions. It fails if the
  exchange does not consume the assertion. **ClaimYieldsCredential**: the one assertion of a registration reaches the agent
  as a credential, or its call was cut off. No poll can make up for that (section 6).
- **VerifiedMeansProven**, **PasswordByProof**, **MailWorksOnce**: a verified address was proven; a password is
  that of sign-up or of a reader of the user's mail; a mail has one effect, the OTP that sets a first
  password excepted. **OneUserPerEmail**: an address nobody has moved away from, and no link has
  written, has one user, as every `.unique()` assumes. The conditions are those under which it fails.
- **OneRowPerUser**, **RowsWhole**, **ActiveOrganizationIsMine**: no index of members is unique, so only the
  lookups keep one membership per user; roles and organizations that a row names exist, across
  deletions and actions that have read a role before; the active organization is one of the user's.
- **OneKeyPerPrefix**: two keys never share a lookup prefix. **KeysHaveOwners**: a deletion leaves no key
  without its owner, also when the principal has moved. **RateBound**, **QuotaBound**: what a window and a refill allow over
  any stretch of time, rotations included. **EndedSecretsReturnByHand**: a
  secret that is no longer accepted, by revocation, rotation, expiry or deletion, is accepted again only when
  it is handed in once more, and as long as a key holds it, only by an upsert for the owner of that
  key. That an upsert does bring it back is in section 6.

The type invariants of the modules with proofs, and a few properties that hold for reasons the proofs say
better (`DeletedUsersAreNotRenewed`, `OneRotatablePerFamily`, `ActiveWithinLimit`,
`MembershipEndsWithUser`, `AbandonedOrganizationsEnd`, `NoTakeover`), are proved for every value
of the constants (section 5) and not in a run any more. TLC had found each to hold before it was proved.

### Fairness

Two runs assume fairness; all other properties are safety.

- **webhook_queue** (`FairSpec`): weak fairness of each processor's next step (the host's cron starts it
  again and again and an action that has begun goes on), of the recovery of a stale row
  (the same cron) and of the passing of a row's back-off time. Nothing is assumed of users,
  endpoints or receivers: the receiver may fail every time. Crashes and retries by
  hand are bounded by `MaxCrashes` and `MaxRetries`: with a crash after every claim, or a user who retries for ever, a delivery would
  not end, and the code does not count the claim as an attempt.
- **agents** (`FairCredentialSpec`): weak fairness of `CascadeRevokedAgentHost`. Convex runs a scheduled mutation
  exactly once; nothing else has to happen.

### Bounds, and why they are enough

| bound | value | why |
|---|---|---|
| `Calls`, `Requests`, `Workers` | 2 (1 in organizations) | every hazard listed is one action against one other; each mutation decides alone, so a third call adds only repetitions of these pairs. In organizations all other steps are mutations and interleave with the one action anyway |
| `MaxSessions`, `MaxTokens` | 3 (4 tokens with `HostCalls`, and then one call) | a session, its successor, and either a successor of that or a second sign-in |
| `Users` of NativeSessions, TwoFactor | 1 | no action compares two users; the rows of another user are only read past |
| `Horizon`, lifetimes | 1 and 1 or 2 | expiry before and after each transaction of a call: a session may end while its refresh token lives and the reverse |
| pages | hold all rows | what a smaller page does is in section 6; `ResetEndsOlder` and `OneChallengeOneDevice` say exactly how large it must be |
| `MaxCodes` (TwoFactor) | 2 | a challenge and its replacement, or a challenge and the device it leads to |
| `MaxDraws` | 2 | the old and the new set of backup codes |
| McpOAuth: clients, scopes, codes, tokens | 2, 1, 1, 3 | the wrong client presents the code; one scope against none is a narrowing; a family with a token, its successor and the next |
| McpSigningKeys: keys, `ClockLimit` | 3, 5 with lifetimes of 3 and a delay of 1 | two rotations and the end of the retention of the first key |
| WebhookDeliveries: organizations, endpoints, deliveries, `MaxActive`, `MaxAttempts` | 1 (and none), 1, 1, 1, 3 | deliveries do not read each other; three attempts have a first, a middle and a last one; 1 crash, 2 retries by hand |
| AgentCredentials: hosts, agents, capabilities, users, `BatchSize`, generations, JWTs | 1 of each, 1, 2, 1 | with a batch of one every batch is full, the case in which the next is scheduled; a rotation in the middle; two requests with one JWT |
| AuthMd: users, organizations, registrations, assertions, credentials, failed attempts | 2, 1, 1, 2, 4, 2; 3 calls | a claimer and an operator; registrations do not read each other; room for a second assertion, which must not come, and three refreshes |
| EmailFlows: users, addresses, mails, identities, accounts | 2, 2, 2, 3, 2; method `emailOtp` | two users who want one address, an address to move to, and two mails used in either order |
| Organizations: users, organizations, role keys, roles, members, invitations | 2, 1, 2, 2, 2, 1; statuses active and suspended | a member and an owner, a role deleted while it is in use, an invitation redeemed twice. No action compares two organizations but `setUserActiveOrganization`, which overwrites |
| ApiKeys: users, organizations, principals, keys, secrets | 1, 1 (and none), 1, 2, 3 with two prefixes | a user's and a principal's key; secrets that share a prefix and one that does not. `LimitedFirst`, the `CONSTRAINT` of the run, gives limits to the first key only: no limit reads another key |
| ApiKeys: `Window`, `RateMax`, `RefillInterval`, `Remaining`, `MaxTime`, `Expiries` | 2, 1, 2, 1, 4, never and 4 | two windows and two refills, and one instant inside each; a key that expires at the last instant, where an upsert may still renew it. A key has a rate limit or a quota that refills |

`MaxSessions`, `MaxTokens`, `MaxCodes`, `MaxDraws`, `MaxKeys`, `MaxDeliveries`, `MaxCrashes`, `MaxRetries`,
`MaxGeneration`, `MaxRegistrations`, `MaxAssertions`, `MaxCredentials`, `MaxMails`, `MaxVerifiers`, `MaxIdentities`, `MaxAccounts`, `MaxRoles`, `MaxMembers`,
`MaxInvitations`, `MaxTime`, `Horizon` and `ClockLimit` are bounds
of the models only: an insert beyond one is not taken. The theorems hold for all their values.

## 5. The theorems

Eight modules hold proofs, each about what it extends. Two extend two components that share no
variable: `McpOAuth_proofs` the grants and the signing keys of one server, `AgentCredentials_proofs`
the two ways in which an agent gets credentials. The names of `McpSigningKeys` and `AuthMd` are chosen so
that this is possible. TLC had found every property below to hold on the small instances first; the
inductive invariants were checked the same way before they were proved.

Every safety property that a run checks is also the statement of a theorem. What is left to TLC alone is liveness.

### NativeSessions_proofs

For every set of users, providers and calls, every bound, lifetime and page size, with and without host calls:

| theorem | property |
|---|---|
| `TypeCorrect` | `[]TypeOK` |
| `RotatedAtMostOnce` | `[]OneSuccessor` |
| `OneOpenSession` | `[]OneOpenPerFamily` |
| `ClosedForGood` | `NoResurrection` |
| `OneRotatable` | `[]OneRotatablePerFamily` |
| `StoreImplementsFamilies` | `ImplementsFamilies` |
| `HeadsNeverReturn` | `[]HeadsDistinct` and `HeadsOnlyAdvance`, of `SessionFamilies` |
| `DeletedUsersStayGone` | `DeletedUsersAreNotRenewed` |
| `ResetEndsOlder` | `[]ResetEndsOlderFamilies`, if `RevokeOnReset` and `ResetRevokeBatch >= MaxSessions` |

They assume `ConstantsAssumption` (stated in `NativeSessions`, evaluated by every run)
and, for `ResetEndsOlder`, the two conditions named. None assumes that the sets are finite.

The argument. None of the invariants is inductive alone: that rotation
produces one successor depends on the replaced session being closed, and that it is
closed depends on who else could reopen it. The inductive invariant is

```
IInv == TypeOK /\ RowsInOrder /\ TokensLinked /\ CallsLinked /\ ParentsSpent
        /\ OneSuccessor /\ OneOpenPerFamily
```

- `RowsInOrder`: rows at or above `nextSession` and `nextToken` are empty, and the others are not; a family
  is named by a session no younger than its members. A fresh row cannot collide.
- `TokensLinked`: a token was issued for a session that was inserted, for that
  session's user. It turns what `rotateSession` knows of a token into a fact on the session.
- `CallsLinked`: what a call carries between its transactions is well formed.
- `ParentsSpent`: a session that was rotated is revoked or deleted. With
  `Rotatable` (the session is active at the time of the mutation) it gives `OneSuccessor`;
  with the revocation in `InsertSession` it gives `OneOpenPerFamily`.

One lemma per shape of write (`InsertSession`, revoking or deleting a set of rows,
inserting a token), then one step per action. `ClosedForGood` follows from
`IInv` in one step: the only way to a usable session in an old family is
`RotateSession`, whose guard says the family was usable before. `ResetEndsOlder`
needs two more conjuncts: `MarksPassed` (a mark is a session number already
given out), and the cardinality lemma `WholePage`: the page holds every row when it
is at least as long as the table. `OneRotatable` adds that an open session has one live token
(`OneTokenPerSession`).
`StoreImplementsFamilies` needs no more than `IInv`: by `OneOpenPerFamily` the `CHOOSE` in
`FamilyHead` has one candidate (`HeadsKnown`), so a step that only closes rows is `Close` of the
families whose head it changes, a sign-in is `Open`, and a rotation is `Advance`, or `Close` when the
expiry it computed in an earlier transaction has passed before it inserts. `HeadsNeverReturn` then follows from
the abstract specification alone: its three actions keep the heads of two families apart and move a
head only upwards, so what they promise holds of the store.

### TwoFactor_proofs

For every set of users and calls, every number of codes and draws, and every lifetime:

| theorem | property | under |
|---|---|---|
| `TypeCorrect` | `[]TypeOK` | |
| `ChallengeOnce` | `[]ChallengeUsedOnce` | |
| `NeverLockedOut` | `[]EnabledMeansVerifiable` | |
| `OneChallengeOneDevice` | `[]OneLiveCode` | `CodePage >= MaxCodes` |
| `BackupCodeOnce` | `BackupCodeUsedOnce` | |

All rest on the named assumptions of `TwoFactor` and `VerificationCodes`, and hold with every interleaving.

```
IInv     == TypeOK /\ CodesInOrder /\ CallsLinked /\ ChallengesSpent
            /\ ChallengeUsedOnce /\ EnabledMeansVerifiable
CodesInv == IInv /\ BackupCodesFresh
```

- `ChallengesSpent`: the challenge of a call that has passed the second factor is consumed or
  deleted, and so is every challenge that completed a sign-in. Consumption tests that the row
  is live, so a second call cannot pass with it.
- `CallsLinked`: a call that will write a row back has read a secret. It gives
  `EnabledMeansVerifiable` even when the write is stale: what a stale write brings back
  is wrong, but never empty.
- `BackupCodesFresh` is about the backup codes that are `Known` for a user: in the row, or in the copy of it
  that a call will write back. They were drawn for that user only, and a code that is both used and in the
  row means that the user is in `revived`. Every write of a row takes codes away, gives back known
  ones (and then says so), draws a new set, or uses one up (`WritesRow`); `RowWrites` shows that
  there is no other.
- `OneChallengeOneDevice`: creation revokes the live codes it finds in one page, and
  `WholePage` shows by cardinality that a page at least as long as the table holds them all.

Each table has a lemma per shape of write (`SetCodesStep`, `CreateCodeStep`, `SetTwoFactorStep`), and
`BackupCodesFresh` is kept by any step of the shapes in `WritesRow`, without a case analysis over the actions.

### McpOAuth_proofs

For every set of users, clients, scopes and requests, every number of codes and tokens, every
lifetime, under `McpAssumption` alone (the last two rows: for every number of keys, set of calls, lifetime and
delay, under `KeysAssumption`):

| theorem | property |
|---|---|
| `TypeCorrect` | `[]TypeOK` |
| `OneLiveToken` | `[]OneLiveTokenPerFamily` |
| `CodeUsedForOneGrant` | `[]CodeGrantsOneFamily` |
| `GrantsNeverWiden` | `[]GrantsOnlyNarrow` |
| `ReuseEndsGrant` | `[]ReuseEndsFamily` |
| `EndedForGood` | `EndedGrantsStayEnded` |
| `KeysInvariance` | `[]KeysInv` |
| `TokensVerify` | `[]TokensVerifyButForDelays`, if `Retention >= TokenTtl` (in the code they are equal) |

```
IInv == TypeOK /\ TokensInOrder /\ CodesSpent /\ CodesInOrder /\ RequestsLinked
        /\ IssuesAlone /\ ReusedRevoked
        /\ OneLiveTokenPerFamily /\ CodeGrantsOneFamily /\ GrantsOnlyNarrow
```

- `IssuesAlone` is what the gap between two transactions needs: a request that has consumed a
  code and not yet issued its token is the only one with that code, no token comes from
  the code yet, and the code is still marked consumed. `CodesSpent` is its other half: a
  token comes from a consumed code. Together they give `CodeGrantsOneFamily`.
- `TokensInOrder`: rows are inserted in order, a family is named by its first token and a token
  is younger than its parent. A fresh row then has a family of its own or its parent's, and
  its parent was consumed in the same transaction: `OneLiveTokenPerFamily`.
- `ReusedRevoked`: a token that was presented again has its family revoked; revocation is never
  undone, which gives `ReuseEndsFamily`.
- `EndedForGood` follows from `IInv` in one step: time, revocations and consumption only go on
  (`ActiveBefore`), and the only insert into an old family is that of `RotateRefreshToken`, whose
  guard says that a token of it was redeemable.

```
KeysInv == KeysTypeOK /\ KeysInOrder /\ CallsInTime /\ SignersLoadedBefore /\ TokensEnd
```

- The danger is a signer that holds a key which is retired meanwhile. `CallsInTime`: no action is older than
  `MaxDelay`. `SignersLoadedBefore`: who holds a retired key had loaded it before the retirement,
  hence at most `MaxDelay` after its date, since the rotation that wrote it was not older either.
- So such a signer is done by `retiredAt + 2 * MaxDelay`, and the tokens of the key end a lifetime after that: `TokensEnd`.
  A second retirement, which moves the date back, is covered because it too is dated within `MaxDelay`.
- `TokensVerify`: with the retention at least a lifetime the key is published up to `2 * MaxDelay` before its last token ends.
  The allowance is needed; without it TLC finds the counterexample.

### WebhookDeliveries_proofs

For every set of organizations, endpoints and workers, every number of deliveries, attempts, crashes and retries:

| theorem | property |
|---|---|
| `TypeCorrect` | `[]TypeOK` |
| `WithinLimit` | `[]ActiveWithinLimit` |
| `Exclusive` | `[]OneSender` |
| `EveryAttemptMade` | `[]NotGivenUpEarly` |
| `NotSentAgain` | `DeliveredStays` |

```
IInv == TypeOK /\ RowsGood /\ WorkersGood /\ HeldGood /\ OneSender /\ ActiveWithinLimit
```

- `HeldGood`: a row that somebody holds and that was not put back meanwhile is in "processing". It
  is what the claim tests, hence `OneSender`.
- `RowsGood` and `WorkersGood` bound each copy of the attempt count (the row's, each processor's list) by the
  number of requests sent. Every copy is a lower bound, so a write-back never
  counts a request that was not made: `NotGivenUpEarly`.
- `WithinLimit` needs the cardinality of a set that grows by one element.

### AgentCredentials_proofs

For every set of hosts, agents, capabilities, users, JWTs and requests, every batch size and number of key generations
(the last three rows: for every set of users, organizations and calls, every number of rows and attempts, under `AuthMdAssumption`):

| theorem | property |
|---|---|
| `TypeCorrect` | `[]CredentialTypeOK` |
| `CascadeComplete` | `[]CascadeReachesAll` |
| `CascadeGoesOn` | the cascade of a revoked host is done, or is in a phase for which there is a batch |
| `CascadeRunsOut` | no step gives it more to do, and every batch leaves less |
| `NothingHeld` | `[]RevokedHoldsNothing` |
| `AcceptedOnce` | `[]CredentialUsedOnce` |
| `EndedForGood` | `EndedStaysEnded` |
| `SpentRefused` | `SpentNeverAccepted` |
| `Refinement` | `ImplementsDeviceGrant` |
| `ChainsInvariance` | `[]ChainsInv` |
| `ClaimsYield` | `[]ClaimYieldsCredential` |
| `ChainsImplementFamilies` | `ImplementsChains` |

```
IInv          == TypeOK /\ AgentsPlaced /\ CascadeGood /\ RevokedHoldsNothing /\ AnswersGood
CredentialInv == IInv, and JwtGood, RequestGood for every JWT and request
```

- `CascadeGood` is the argument for the cascade: the phases run in the order pending, active, expired; an agent of
  a revoked host only moves on to a later phase; so no agent is left in a phase that is over. That a
  last batch was not full means, by cardinality, that it emptied its phase.
- `CascadeGoesOn` and `CascadeRunsOut` are `CascadeEnds` without its fairness. `BatchesLeft(h)` counts the agents of the
  host that are not ended and the phases before the cascade. Agents register only with an active host and a
  reactivation needs one, so nothing raises it; a full batch ends an agent and any other ends a phase. That a batch
  can always be found takes a lemma on subsets of a given size, `SubsetOfSize`.
- `JwtGood`: the generations in a JWT are no newer than those of its keys; an accepted one that has not
  lapsed has its replay record. A record is cleaned up only after the JWT has lapsed, and the mutation tests that.
- `Refinement`: initial states map to initial states, and each action to one of `DeviceGrant` or a
  stutter; a batch of the cascade is one `Refuse` of many clients.

```
ChainsInv == ChainsTypeOK /\ RegistrationsSound /\ AssertionsLinked /\ CredentialsLinked
             /\ CredentialsInOrder /\ OneActive /\ CallsLinked /\ IssuedYield
```

- `AssertionsLinked`: an assertion exists only where `issued` is set, and two of one registration are the same. That
  is all that keeps a registration to one chain: `CredentialsLinked` says that every credential comes from a
  consumed assertion of its registration, so when an active one is exchanged the registration has no credential yet.
  `OneActive` follows at the exchange, and at a refresh because it revokes the old credential in the same transaction.
- `IssuedYield` says what `ClaimYieldsCredential` says of every registration with an assertion, claimed or not: its calls go
  on when it has ended.
- Users, administrators and time make steps of one shape (`RowsSettle`): rows only close. `RegistrationsSound` is
  needed there: an issued registration is past the claim, so no claim makes an old credential usable again.
- `ChainsImplementFamilies`: by `OneActive` the `CHOOSE` in `ChainHead` has one candidate (`ChainHeadsKnown`). The exchange is
  `Open`, a refresh is `Advance`, and any other step is `Close` of the chains whose head it ends, or invisible.

### EmailFlows_proofs

For every set of users, addresses, methods and calls, every number of codes, verifiers, identities and accounts:

| theorem | property |
|---|---|
| `TypeCorrect` | `[]EmailTypeOK` |
| `VerifiedByMail` | `[]VerifiedMeansProven` |
| `PasswordsByProof` | `[]PasswordByProof` |
| `MailUsedOnce` | `[]MailWorksOnce` |
| `AddressesUnique` | `[]OneUserPerEmail` |

```
IInv == EmailTypeOK /\ RowsGood /\ OneHolder /\ OnePresenter /\ UsedGood
        /\ VerifiedMeansProven /\ MailWorksOnce
```

- `RowsGood` says of each table how its rows may lag behind the user: a verification code
  went to the address its user has, or has proven since, or was relinked from (`CodeGood`); an identity is known by the address of its user or by
  one somebody has left (`IdentityGood`); the password of an account was set by who has proven something (`AccountGood`).
- `OnePresenter` and `UsedGood`: a verifier is in the hand of one call, and a mail that had its effect is
  consumed, or is the OTP of a reset. They give `MailWorksOnce` across the three transactions of a sign-in.
- `OneHolder` is `OneUserPerEmail` without cardinalities.

The module has one lemma per action, which says only what the action may do to each table
(`Moves`); that the invariant is kept is then proved once, from `Moves`.

### Organizations_proofs

For every set of users, organizations, keys and calls, every number of roles, members and invitations:

| theorem | property |
|---|---|
| `TypeCorrect` | `[]OrgTypeOK` |
| `OneRow` | `[]OneRowPerUser` |
| `Whole` | `[]RowsWhole` |
| `ActiveIsMine` | `[]ActiveOrganizationIsMine` |
| `EndsWithUser` | `MembershipEndsWithUser` |
| `AbandonedEnd` | `AbandonedOrganizationsEnd` |

`IInv == OrgTypeOK /\ MembersGood /\ InvitationsGood /\ ActiveOrganizationIsMine /\ CallsGood`. `CallsGood` is what a call
remembers that no later step can undo: a role that it has read was in its
organization, and that role and organization, once gone, do not come back. The mutation tests the rest again, which gives `RowsWhole`.

### ApiKeys_proofs

For every set of users, organizations, principals, secrets and prefixes, every limit, interval, expiry and number of keys:

| theorem | property |
|---|---|
| `TypeCorrect` | `[]KeyTypeOK` |
| `PrefixesUnique` | `[]OneKeyPerPrefix` |
| `KeysOwned` | `[]KeysHaveOwners` |
| `RateLimited` | `[]RateBound` |
| `QuotaLimited` | `[]QuotaBound` |
| `NobodyTakesOver` | `NoTakeover` |
| `EndedUntilHandedIn` | `EndedSecretsReturnByHand` |

`IInv == OwnerInv /\ now >= Window /\ EmptyRows /\ UsesGrow /\ RatesKept /\ QuotasKept`. `RatesKept` relates the counter of the
running window to the history: what was accepted since the window began is what it counted, and what
was accepted in the `Window` before is at most `RateMax`. `QuotasKept` does the same for the
remaining quota, with the intervals counted so far by integer division. `EndedUntilHandedIn` needs `OneKeyPerPrefix`
before the step: only then is the key that held a secret the one that verification finds, so that a step which accepts it again
is the upsert of that key. Any other step leaves its status and expiry or takes the secret away.

### Only model-checked

- `EveryDeliveryEnds` and `CascadeEnds`: liveness under fairness, which the prover cannot do. For `CascadeEnds` two
  theorems prove the measure that it rests on; what TLC adds is that fairness of the batches makes it reach zero.
- No module has a recursive operator or proves by induction over data.

## 6. What the code does that its documents do not say

One run checks a property that a document states, and TLC finds the counterexample.

| run | what happens |
|---|---|
| email_otp_session | `provisionFromIdentity` returns as soon as it has patched an identity that exists, before it inserts the session (`component/identity.ts:229`): a second sign-in by OTP or magic link is accepted, spends its mail and answers `token: null` with the id of a session that was not stored. `docs/(core-auth)/email-otp.mdx:80` says that `verifyEmailOtp` returns a session |

Other behaviour met while modelling. The models keep all of it; properties are stated so that they
hold in spite of it, or exclude it by name.

Sessions and two-factor:
- `resolveSessionUser` compares the session id and expiry of a token with the row, not `revokedAt`: an access token of
  a revoked session is honoured until it expires (`convex-runtime/native/provider.ts:921`).
- `resetPassword` reads one page from the front of the index, dead rows included, and revokes what it
  finds there: a user with more rows keeps the newest sessions (`component/identity.ts:454`; `docs/` says all sessions are revoked).
- `revokeOtherSessions` spares the session id it was called with; rotated in between, its successor is one of
  the others and the caller is signed out (`provider.ts:1389`).
- Confirming two-factor writes back the backup codes it has read and revives one that was consumed in between
  (`provider.ts:1131`); the same write-back undoes a `twoFactorDisable`. Hence `revived`.
- A trusted device is found by hash whether or not it was revoked, and skips the challenge once
  two-factor is on again (`provider.ts:1263`).
- `createVerificationCode` retires only the codes in its page.

Authorization server:
- The authorize endpoint takes the row of a revoked or expired session for a signed-in user
  (`convex-runtime/oauth-provider/http.ts:187`).
- Two signers that find no key at a cold start store two; every rotation of a refresh token starts its absolute
  lifetime again; a consumed token presented after its lifetime does not end the family; `deleteUser` leaves the grants of a user alone.

Mail and anonymous users:
- `linkAnonymousAccount` stores the account under the provider `email`, while the password sign-in looks for
  `password`; it looks the address up in an earlier transaction than the one that writes it, so two
  links, or a link and a sign-up, may end with one address.
- After `changeEmail` the keys of the OTP and magic link identities still name the old address, and a sign-in with it
  brings it back.
- The forget-password fallback by OTP writes the password before it consumes the code. A reset code sent to the
  old address works after `changeEmail`; a verification code verifies whatever address the user has by then.

Agents:
- auth.md: the identity assertion of a poll's answer has been consumed by that poll (`auth-md/convex.ts:302`), so the
  JWT-bearer grant, which `auth-md-http.test.ts:49` uses with a stub to refresh, is always refused; the token endpoint has no
  grant for `refreshAccessToken`. A poll that is cut off after `assertionIssuedAt` is set leaves a claimed registration
  that can never have a credential. Credentials of a user who has left outlive the organization's registrations as rows, but are not accepted.
- A host set to "rejected" does not cascade. `setAgentStatus` on a pending agent leaves its device
  authorization pending. An approval is delivered also when its agent has expired since.

Organizations:
- `upsertMember` does not look the user up (`component/organizations.ts:766`).
- `redeemOrganizationInvitation` admits after a revocation in between and marks the invitation accepted unconditionally;
  `markInvitationExpired` is unconditional too. `redeemInvitation` does not compare the address, and replayed by
  its redeemer it makes a suspended member active.
- The last owner is guarded only where the host calls `membershipPolicy.ts`, with lists read before. Deleting the last
  owner leaves the organization to the other members.

API keys:
- `upsertApiKey` and `upsertServiceOwnedApiKey` take hash, status and expiry from the caller and compare them with nothing
  (`component/apiKeys.ts:221-256`, `:296-340`; the comment at `:904` says that the hash is the caller's). An upsert of a revoked key with the hash it has, as
  `createConvexAuthOrganizationOperations.ts:1534` does with the status "active" unless told otherwise, or of an expired
  one with a later or no expiry, makes the old secret accepted again; a rotated-out secret can be handed in again too.
- The 12-character prefix holds 4 hexadecimal digits for the brand `vb`, and none for a brand of seven characters or
  more, so issuing may collide (it throws).
- A key of a disabled principal is still accepted, and the permissions of the principal are not asked at use. A key whose principal has
  no organization can be neither rotated nor revoked; a key stays in its organization when its principal moves.

## 7. Inventory of the components

For each: state; operations; partners; what is hard; what makes it correct.

1. **Native sessions and refresh tokens** (modelled). `authSessions`, `authRefreshTokens`;
   section 3. Every other part reads sessions. Rotation races, half-done sign-outs, pages. One usable
   successor per sign-in; ended is ended.
2. **Verification codes** (modelled). `authVerificationCodes`: create, consume, revoke for user,
   cleanup. Used by seven flows. Double consumption, the page of `createVerificationCode`. A
   code works once, for its type, in time.
3. **Two-factor** (modelled). Three fields of the user's row, challenges, devices. Write-back of
   stale copies; a challenge spent before the code is checked. A challenge and a backup code
   work once; the flag implies a secret.
4. **Password sign-up, verification, reset, e-mail change** (partly: `changePassword` and
   `verifyPassword` are left out). Identities, accounts, codes. Calls codes, `provisionFromIdentity`, sessions. Reset
   between a sign-in's read and its session; two verifications. The code proves the current address; an
   old password opens nothing after the reset.
5. **E-mail OTP and magic link** (modelled). Codes and `authVerifiers`. The forget-password fallback creates
   an account and consumes the code last. One sign-in per code.
6. **OAuth sign-in** (not modelled). `authVerifiers`: state and PKCE verifier, consumed on callback. Two callbacks with
   one state; expiry between. A verifier is consumed once and links to the user who began.
7. **Anonymous users** (modelled). Linking moves the data in several mutations. Failure between them. No
   user is left with half of the link.
8. **Rate limits** (not modelled). A counter per key and window; consumed before the operation. Window edges. Never more
   than the limit in a window.
9. **Audit events** (not modelled). Append-only, cleanup in batches. Nothing depends on them.
10. **Passkeys** (not modelled). Challenges, credentials, counters. A challenge deleted in a mutation that throws
    is back. One use per challenge; counters do not go back; the last credential.
11. **OAuth 2.1 / MCP authorization server** (partly; section 3). Left out: redirect URI
    matching, `client_credentials` (stores nothing), client metadata documents, client
    assertions, and a host that sets a retired key active.
12. **Webhooks** (partly; section 3). Endpoints, deliveries with status, attempt count and next time. Claim, deliver, update
    in three transactions; a stale claim is recovered and its late answer may still come. Every
    delivery ends, within its attempts; a delivered one stays delivered.
13. **auth.md agent registration** (modelled). Registrations, claims, assertions, credential chains. A poll of three
    transactions; refresh against revocation. One live credential per chain.
14. **Agent Auth** (partly; section 3). Hosts, agents, capability grants, device authorizations, replay records. The
    approved credential is delivered once; revocation of a host cascades in scheduled batches.
    No agent of a revoked host stays active.
15. **Organizations** (partly; section 3). Members, invitations, roles. Redemption repeated after a suspension; the last
    owner. One membership per user; an invitation adds one.
16. **API keys** (modelled). Keys, usage counters, rotation. Window and refill edges; verification during
    rotation. Usage stays within the limit.
17. **Service principals** (modelled, in `ApiKeys`). Rows with an organization, a status and a creator; keys
    depend on all three.
18. **Token minting and hashing.** Cryptography; a token is a fresh name.
19. **Authorization decisions** (`core`, `authz-functions`). Pure functions of roles, scopes and
    permissions.
20. **HTTP routes and assembly.** Parsing, cookies, wiring.
21. **Migration from Better Auth.** A one-shot import.
22. **React and React Native clients, UI.** Presentation; their retries appear as calls that repeat.
23. **Split components** (`component/<name>/`). Near copies of the modules above, packaged apart.
24. **Generated code, scripts, examples, docs.**

The hazards of each, with the line where they bite and the properties that cover
them, are in `PROJECT.json`; the one without a checked property says
what the code does instead.

## 8. What is not modelled

- Cryptography and encodings: hashes do not collide, signatures cannot be forged. PKCE and TOTP
  are right or wrong.
- JWT times: `TokenVerifies` lets an access token outlive its row by an instant, since it
  is minted in whole seconds; nothing finer.
- Fields no property reads: IP address, user agent, names, metadata, audit rows, and rate
  limits in front of an operation (they only refuse).
- Convex itself: transactions are serializable, an action may stop, a scheduled mutation runs once; there is no other failure.
  Automatic retry of a conflicting mutation is invisible in that reading.
- Passkeys (`component/passkeys.ts`): a challenge that is deleted in a mutation that then throws is
  back (`passkeys.ts:348`); counters and the last credential are decided in one mutation each.
- Rate limits: the window counter, and the sign-in that consumes one in a transaction before it reads the user
  (`provider.ts:484`).
- OAuth sign-in: the exchange with the provider is external; account linking through it is not in `EmailFlows`.
- `changePassword`, `verifyPassword`; attempt limits and poll intervals of a device code; capability constraints;
  `membershipPolicy.ts`; `eventLockPolicy.ts`; redirect URIs, client metadata and assertions of the authorization server.
- Authorization decisions (`core`): pure functions on roles and scopes.
- The split components under `component/<name>/`: near copies of the modules that are modelled.
- Clients, UI, HTTP wiring, generated code, scripts, examples and documents, which are most of the repository's
  lines and keep no state of their own.

## 9. Plan

| | module | abstract specification, composition | properties |
|---|---|---|---|
| done | `NativeSessions` | `SessionFamilies` | above |
| done | `VerificationCodes`, `TwoFactor`, `EmailFlows` | both extend the table | above |
| done | `McpOAuth`, `McpSigningKeys` | | above |
| done | `WebhookDeliveries` | | above, with liveness |
| done | `AgentAuth`, `AgentCredentials` | `DeviceGrant`; the second extends the first | above, with liveness |
| done | `Organizations`, `ApiKeys` | | above |
| done | `AuthMd` | `SessionFamilies` again, chains as families | above |
| open | `Passkeys`, `RateLimits` | | one use per challenge; within the limit in every window |

No safety property of a run is without a theorem. Open on the side of the proofs: what the components
that are still to be modelled will promise.
