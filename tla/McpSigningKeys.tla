--------------------------- MODULE McpSigningKeys ---------------------------
(***************************************************************************)
(* The keys that sign the access tokens of the authorization server: the   *)
(* table mcp_oauth_signing_keys (component/mcp.ts), the actions that       *)
(* create, rotate and use them (convex-runtime/mcp/signingRuntime.ts) and  *)
(* what a verifier finds published (convex-runtime/mcp/signing.ts).        *)
(*                                                                         *)
(* Signing and rotating are actions: they read the table, compute, and     *)
(* write it in later transactions.  The runtime stops an action after a    *)
(* while, so what it has read is at most MaxDelay old.  Key ids are fresh  *)
(* UUIDs: key n is the n-th row inserted.                                  *)
(***************************************************************************)
EXTENDS Naturals

CONSTANTS
    Calls,      \* actions that may be in progress at once
    MaxKeys,    \* bound: rows ever inserted
    ClockLimit, \* bound: last value of the clock
    TokenTtl,   \* DEFAULT_ACCESS_TOKEN_TTL_SECONDS, or the most a caller asks for
    Retention,  \* MCP_OAUTH_RETIRED_SIGNING_KEY_RETENTION_MS, the same time
    MaxDelay    \* how long the runtime lets an action run

KeyIds == 1 .. MaxKeys

ASSUME KeysAssumption ==
    /\ MaxKeys \in Nat \ {0}
    /\ ClockLimit \in Nat
    /\ TokenTtl \in Nat \ {0}
    /\ Retention \in Nat
    /\ MaxDelay \in Nat

VARIABLES
    clock,       \* Date.now()
    keys,        \* mcp_oauth_signing_keys
    nextKey,     \* next row
    calls,       \* actions in progress
    signedUntil  \* history: when the last access token of a key expires, or 0

keysVars == <<clock, keys, nextKey, calls, signedUntil>>

Key == [status : {"none", "active", "retired"}, retiredAt : Nat]

ActionOps == {"idle", "create", "sign", "retire", "persist"}

\* since is the time the action began, at the time it takes for the present.
Call == [op : ActionOps, key : KeyIds \cup {0}, since : Nat]

IdleAction == [op |-> "idle", key |-> 0, since |-> 0]

KeysTypeOK ==
    /\ clock \in 0 .. ClockLimit
    /\ keys \in [KeyIds -> Key]
    /\ nextKey \in 1 .. MaxKeys + 1
    /\ calls \in [Calls -> Call]
    /\ signedUntil \in [KeyIds -> Nat]

KeysInit ==
    /\ clock = 0
    /\ keys = [k \in KeyIds |-> [status |-> "none", retiredAt |-> 0]]
    /\ nextKey = 1
    /\ calls = [c \in Calls |-> IdleAction]
    /\ signedUntil = [k \in KeyIds |-> 0]

ActiveKeys == {k \in KeyIds : keys[k].status = "active"}

\* getSigningKey and the list that rotation searches both start with the
\* active row written last; an active row is not written again.
IsLatestActive(k) == k \in ActiveKeys /\ \A j \in ActiveKeys : j <= k

\* Mutant: the list leaves retired keys out.
PublishedWhileActive(k) == keys[k].status = "active"

\* listSigningKeys and buildMcpOAuthJwks keep a retired key for a while. The
\* list throws when it holds more than 256 keys: MaxKeys stands for fewer.
Published(k) ==
    \/ keys[k].status = "active"
    \/ keys[k].status = "retired" /\ clock <= keys[k].retiredAt + Retention

InsertKey ==
    /\ nextKey \in KeyIds
    /\ keys' = [keys EXCEPT ![nextKey].status = "active"]
    /\ nextKey' = nextKey + 1

-----------------------------------------------------------------------------
(* signMcpOAuthAccessTokenWithStoredKey                                    *)

LoadSigningKey(c) ==
    /\ calls[c] = IdleAction
    /\ \E k \in KeyIds :
          /\ IsLatestActive(k)
          /\ calls' = [calls EXCEPT ![c] = [op |-> "sign", key |-> k, since |-> clock]]
    /\ UNCHANGED <<clock, keys, nextKey, signedUntil>>

FindNoSigningKey(c) ==
    /\ calls[c] = IdleAction
    /\ ActiveKeys = {}
    /\ calls' = [calls EXCEPT ![c] = [op |-> "create", key |-> 0, since |-> clock]]
    /\ UNCHANGED <<clock, keys, nextKey, signedUntil>>

\* The key is kept although another call may have stored one meanwhile.
PersistSigningKey(c) ==
    /\ calls[c].op = "create"
    /\ InsertKey
    /\ calls' = [calls EXCEPT ![c].op = "sign", ![c].key = nextKey]
    /\ UNCHANGED <<clock, signedUntil>>

SignAccessToken(c) ==
    /\ calls[c].op = "sign"
    /\ signedUntil' = [signedUntil EXCEPT ![calls[c].key] = clock + TokenTtl]
    /\ calls' = [calls EXCEPT ![c] = IdleAction]
    /\ UNCHANGED <<clock, keys, nextKey>>

-----------------------------------------------------------------------------
(* rotateMcpOAuthSigningKey                                                *)

ListToRotate(c) ==
    /\ calls[c] = IdleAction
    /\ \/ \E k \in KeyIds :
             /\ IsLatestActive(k)
             /\ calls' = [calls EXCEPT ![c] = [op |-> "retire", key |-> k, since |-> clock]]
       \/ /\ ActiveKeys = {}
          /\ calls' = [calls EXCEPT ![c] = [op |-> "persist", key |-> 0, since |-> clock]]
    /\ UNCHANGED <<clock, keys, nextKey, signedUntil>>

\* retiredAt is the time the rotation began, not that of this transaction.
RetireSigningKey(c) ==
    /\ calls[c].op = "retire"
    /\ keys' = [keys EXCEPT ![calls[c].key] =
                  [status |-> "retired", retiredAt |-> calls[c].since]]
    /\ calls' = [calls EXCEPT ![c].op = "persist"]
    /\ UNCHANGED <<clock, nextKey, signedUntil>>

PersistRotatedKey(c) ==
    /\ calls[c].op = "persist"
    /\ InsertKey
    /\ calls' = [calls EXCEPT ![c] = IdleAction]
    /\ UNCHANGED <<clock, signedUntil>>

-----------------------------------------------------------------------------

\* An error, or the isolate stops.
Abort(c) ==
    /\ calls[c] # IdleAction
    /\ calls' = [calls EXCEPT ![c] = IdleAction]
    /\ UNCHANGED <<clock, keys, nextKey, signedUntil>>

ClockTick ==
    /\ clock < ClockLimit
    /\ \A c \in Calls : calls[c] # IdleAction => clock < calls[c].since + MaxDelay
    /\ clock' = clock + 1
    /\ UNCHANGED <<keys, nextKey, calls, signedUntil>>

KeysNext ==
    \/ ClockTick
    \/ \E c \in Calls :
          \/ LoadSigningKey(c) \/ FindNoSigningKey(c)
          \/ PersistSigningKey(c) \/ SignAccessToken(c)
          \/ ListToRotate(c) \/ RetireSigningKey(c) \/ PersistRotatedKey(c)
          \/ Abort(c)

KeysSpec == KeysInit /\ [][KeysNext]_keysVars

-----------------------------------------------------------------------------
(* Properties                                                              *)

(* "Rotations retain old rows so in-flight tokens can verify during the    *)
(* retirement window": a verifier finds the key of an access token that    *)
(* has not expired.  The retention of a key is just the lifetime of a      *)
(* token, but a rotation dates the retirement up to MaxDelay before it     *)
(* happens and a signer goes on up to MaxDelay after it, so a token may    *)
(* lose the sum of the two, and no more, of its last part.                 *)
TokensVerifyButForDelays ==
    \A k \in KeyIds : clock + 2 * MaxDelay < signedUntil[k] => Published(k)

=============================================================================
