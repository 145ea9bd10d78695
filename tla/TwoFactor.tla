----------------------------- MODULE TwoFactor -----------------------------
(***************************************************************************)
(* Two-factor authentication of the native runtime: the three twoFactor    *)
(* fields of a user's row, the challenges and trusted devices kept as      *)
(* verification codes, and the actions that read a row, work on the copy   *)
(* and write it back by another mutation.                                  *)
(*                                                                         *)
(* The caller of enable, disable and generate holds a session and the      *)
(* password; a TOTP code that is right for the secret the action has read  *)
(* verifies, any other is a step that changes nothing.  A secret and a set *)
(* of backup codes are named by the draw that made them.                   *)
(***************************************************************************)
EXTENDS VerificationCodes

CONSTANTS
    Calls,        \* actions that may be in progress at once
    MaxDraws,     \* bound: secrets and sets of backup codes ever drawn
    CodesPerSet   \* DEFAULT_TWO_FACTOR_BACKUP_CODES_COUNT

Draws == 1 .. MaxDraws
BackupCodes == Draws \X (1 .. CodesPerSet)

ASSUME TwoFactorAssumption ==
    /\ CodeTypes = {"two_factor_pending", "two_factor_trusted_device"}
    /\ MaxDraws \in Nat \ {0}
    /\ CodesPerSet \in Nat

VARIABLES
    rows,      \* the user's row: exists and the fields twoFactor*
    nextDraw,  \* the random generator
    calls,     \* actions in progress
    used,      \* history: backup codes that have been consumed
    served,    \* history: challenges a session was issued for
    revived    \* history: users to whose row a confirmation gave back codes it had lost

vars == <<codesVars, rows, nextDraw, calls, used, served, revived>>

\* twoFactorEnabled, twoFactorSecret (0: none) and twoFactorBackupCodes.
Row == [exists : BOOLEAN, enabled : BOOLEAN, secret : Draws \cup {0},
        backup : SUBSET BackupCodes]

Ops == {"idle", "confirm", "generate", "disable", "device", "challenge",
        "resolved", "backup", "session", "trust"}

NoCode == <<0, 0>>

Call == [op : Ops, user : Users \cup {Nobody}, row : Row, code : CodeIds \cup {0},
         backup : BackupCodes \cup {NoCode}]

NoRow == [exists |-> FALSE, enabled |-> FALSE, secret |-> 0, backup |-> {}]

Idle == [op |-> "idle", user |-> Nobody, row |-> NoRow, code |-> 0, backup |-> NoCode]

TypeOK ==
    /\ CodesTypeOK
    /\ rows \in [Users -> Row]
    /\ nextDraw \in 1 .. MaxDraws + 1
    /\ calls \in [Calls -> Call]
    /\ used \in SUBSET BackupCodes
    /\ served \in SUBSET CodeIds
    /\ revived \in SUBSET Users

Init ==
    /\ CodesInit
    /\ rows = [u \in Users |-> [NoRow EXCEPT !.exists = TRUE]]
    /\ nextDraw = 1
    /\ calls = [c \in Calls |-> Idle]
    /\ used = {}
    /\ served = {}
    /\ revived = {}

-----------------------------------------------------------------------------
(* Calls and the row                                                       *)

Start(c, call) == calls[c] = Idle /\ calls' = [calls EXCEPT ![c] = call]

Goto(c, op) == calls' = [calls EXCEPT ![c].op = op]

Return(c) == calls' = [calls EXCEPT ![c] = Idle]

NewBackupCodes(draw) == {<<draw, i>> : i \in 1 .. CodesPerSet}

Draw == nextDraw \in Draws /\ nextDraw' = nextDraw + 1

\* The mutation setTwoFactor replaces all three fields, and fails without a row.
SetTwoFactor(u, enabled, secret, backup) ==
    rows' = IF rows[u].exists
            THEN [rows EXCEPT ![u] = [exists |-> TRUE, enabled |-> enabled,
                                      secret |-> secret, backup |-> backup]]
            ELSE rows

-----------------------------------------------------------------------------
(* Settings                                                                *)

\* twoFactorEnable: off until the secret is confirmed, also when it was on.
TwoFactorEnable(u) ==
    /\ rows[u].exists
    /\ Draw
    /\ SetTwoFactor(u, FALSE, nextDraw, NewBackupCodes(nextDraw))
    /\ revived' = revived \ {u}
    /\ UNCHANGED <<codesVars, calls, used, served>>

\* twoFactorVerifyTOTP with a session: the code is checked against the copy.
ReadToConfirm(c, u) ==
    /\ rows[u].exists
    /\ rows[u].secret # 0
    /\ Start(c, [Idle EXCEPT !.op = "confirm", !.user = u, !.row = rows[u]])
    /\ UNCHANGED <<codesVars, rows, nextDraw, used, served, revived>>

\* Mutant: only the flag is passed, and setTwoFactor clears the rest.
ConfirmFlagOnly(c) ==
    /\ calls[c].op = "confirm"
    /\ SetTwoFactor(calls[c].user, TRUE, 0, {})
    /\ Return(c)
    /\ UNCHANGED <<codesVars, nextDraw, used, served, revived>>

\* What the call writes back, the row may have lost since the call has read it.
Revives(c) ==
    /\ rows[calls[c].user].exists
    /\ ~(calls[c].row.backup \subseteq rows[calls[c].user].backup)

Confirm(c) ==
    /\ calls[c].op = "confirm"
    /\ SetTwoFactor(calls[c].user, TRUE, calls[c].row.secret, calls[c].row.backup)
    /\ revived' = IF Revives(c) THEN revived \cup {calls[c].user} ELSE revived
    /\ Return(c)
    /\ UNCHANGED <<codesVars, nextDraw, used, served>>

TwoFactorDisable(c, u) ==
    /\ rows[u].exists
    /\ SetTwoFactor(u, FALSE, 0, {})
    /\ revived' = revived \ {u}
    /\ Start(c, [Idle EXCEPT !.op = "disable", !.user = u])
    /\ UNCHANGED <<codesVars, nextDraw, used, served>>

RevokeDevices(c) ==
    /\ calls[c].op = "disable"
    /\ RevokeVerificationCodesForUser(calls[c].user, "two_factor_trusted_device")
    /\ Return(c)
    /\ UNCHANGED <<rows, nextDraw, used, served, revived>>

ReadToGenerate(c, u) ==
    /\ rows[u].exists
    /\ rows[u].enabled
    /\ rows[u].secret # 0
    /\ Start(c, [Idle EXCEPT !.op = "generate", !.user = u, !.row = rows[u]])
    /\ UNCHANGED <<codesVars, rows, nextDraw, used, served, revived>>

TwoFactorGenerateBackupCodes(c) ==
    /\ calls[c].op = "generate"
    /\ Draw
    /\ SetTwoFactor(calls[c].user, calls[c].row.enabled, calls[c].row.secret,
                    NewBackupCodes(nextDraw))
    /\ revived' = revived \ {calls[c].user}
    /\ Return(c)
    /\ UNCHANGED <<codesVars, used, served>>

-----------------------------------------------------------------------------
(* Sign-in                                                                 *)

\* handleTwoFactorSignIn on the row that signIn has read.  The client may hold
\* the token of any device row there ever was; device 0: no token.
HandleTwoFactorSignIn(c, u, device) ==
    /\ rows[u].exists
    /\ device # 0 => codes[device].type = "two_factor_trusted_device"
    /\ Start(c, [Idle EXCEPT
                   !.op = IF ~rows[u].enabled THEN "session"
                          ELSE IF device # 0 THEN "device" ELSE "challenge",
                   !.user = u,
                   !.row = rows[u],
                   !.code = IF rows[u].enabled THEN device ELSE 0])
    /\ UNCHANGED <<codesVars, rows, nextDraw, used, served, revived>>

\* getVerificationCodeByTokenHash: consumedAt is not read.
DeviceTrusted(k, u) ==
    /\ CodeExists(k)
    /\ codes[k].type = "two_factor_trusted_device"
    /\ ~codes[k].expired
    /\ codes[k].user = u

ReadTrustedDevice(c) ==
    /\ calls[c].op = "device"
    /\ calls' = [calls EXCEPT ![c].op = IF DeviceTrusted(calls[c].code, calls[c].user)
                                        THEN "session" ELSE "challenge",
                              ![c].code = 0]
    /\ UNCHANGED <<codesVars, rows, nextDraw, used, served, revived>>

IssueChallenge(c) ==
    /\ calls[c].op = "challenge"
    /\ CreateVerificationCode(calls[c].user, "two_factor_pending")
    /\ Return(c)
    /\ UNCHANGED <<rows, nextDraw, used, served, revived>>

\* resolveTwoFactorChallengeToken: the challenge is spent before the code the
\* user typed is looked at, and the row is read after that.
ConsumeChallenge(c, k) ==
    /\ Consumable(k, "two_factor_pending")
    /\ ConsumeVerificationCode(k)
    /\ Start(c, [Idle EXCEPT !.op = "resolved", !.user = codes[k].user, !.code = k])
    /\ UNCHANGED <<rows, nextDraw, used, served, revived>>

\* The code is wrong, or the user or the secret is gone.
RejectCode(c) ==
    /\ calls[c].op = "resolved"
    /\ Return(c)
    /\ UNCHANGED <<codesVars, rows, nextDraw, used, served, revived>>

VerifyTOTP(c) ==
    /\ calls[c].op = "resolved"
    /\ rows[calls[c].user].exists
    /\ rows[calls[c].user].secret # 0
    /\ Goto(c, "session")
    /\ UNCHANGED <<codesVars, rows, nextDraw, used, served, revived>>

ReadBackupCode(c, b) ==
    /\ calls[c].op = "resolved"
    /\ rows[calls[c].user].exists
    /\ b \in rows[calls[c].user].backup
    /\ calls' = [calls EXCEPT ![c].op = "backup", ![c].backup = b]
    /\ UNCHANGED <<codesVars, rows, nextDraw, used, served, revived>>

\* Mutant: the mutation trusts what the query before it has found.
ConsumeAsRead(c) ==
    /\ calls[c].op = "backup"
    /\ rows' = [rows EXCEPT ![calls[c].user].backup = @ \ {calls[c].backup}]
    /\ used' = used \cup {calls[c].backup}
    /\ calls' = [calls EXCEPT ![c].op = "session", ![c].backup = NoCode]
    /\ UNCHANGED <<codesVars, nextDraw, served, revived>>

ConsumeBackupCode(c) ==
    /\ calls[c].op = "backup"
    /\ LET u == calls[c].user
           b == calls[c].backup
       IN IF rows[u].exists /\ b \in rows[u].backup
          THEN /\ rows' = [rows EXCEPT ![u].backup = @ \ {b}]
               /\ used' = used \cup {b}
               /\ calls' = [calls EXCEPT ![c].op = "session", ![c].backup = NoCode]
          ELSE UNCHANGED <<rows, used>> /\ Return(c)
    /\ UNCHANGED <<codesVars, nextDraw, served, revived>>

\* createSessionAndRefreshToken; with trustDevice one more mutation follows.
IssueSession(c, trustDevice) ==
    /\ calls[c].op = "session"
    /\ served' = served \cup ({calls[c].code} \ {0})
    /\ IF trustDevice /\ calls[c].code # 0 THEN Goto(c, "trust") ELSE Return(c)
    /\ UNCHANGED <<codesVars, rows, nextDraw, used, revived>>

CreateTrustedDevice(c) ==
    /\ calls[c].op = "trust"
    /\ CreateVerificationCode(calls[c].user, "two_factor_trusted_device")
    /\ Return(c)
    /\ UNCHANGED <<rows, nextDraw, used, served, revived>>

-----------------------------------------------------------------------------
DeleteUser(u) ==
    /\ rows[u].exists
    /\ rows' = [rows EXCEPT ![u] = NoRow]
    /\ DeleteCodesOf(u)
    /\ revived' = revived \ {u}
    /\ UNCHANGED <<nextDraw, calls, used, served>>

\* The action fails, or its isolate stops: what it has committed stays.
Crash(c) ==
    /\ calls[c] # Idle
    /\ Return(c)
    /\ UNCHANGED <<codesVars, rows, nextDraw, used, served, revived>>

UserStep ==
    \E u \in Users :
        \/ TwoFactorEnable(u)
        \/ DeleteUser(u)
        \/ \E type \in CodeTypes :
              CleanupVerificationCodes(u, type) /\ UNCHANGED <<rows, nextDraw, calls, used, served, revived>>

SettingsStep ==
    \E c \in Calls :
        \/ \E u \in Users : ReadToConfirm(c, u)
        \/ Confirm(c)
        \/ \E u \in Users : TwoFactorDisable(c, u)
        \/ RevokeDevices(c)
        \/ \E u \in Users : ReadToGenerate(c, u)
        \/ TwoFactorGenerateBackupCodes(c)
        \/ Crash(c)

SignInStep ==
    \E c \in Calls :
        \/ \E u \in Users, device \in CodeIds \cup {0} : HandleTwoFactorSignIn(c, u, device)
        \/ ReadTrustedDevice(c)
        \/ IssueChallenge(c)
        \/ \E k \in CodeIds : ConsumeChallenge(c, k)
        \/ RejectCode(c)
        \/ VerifyTOTP(c)
        \/ \E b \in BackupCodes : ReadBackupCode(c, b)
        \/ ConsumeBackupCode(c)
        \/ \E trustDevice \in BOOLEAN : IssueSession(c, trustDevice)
        \/ CreateTrustedDevice(c)

ExpiryStep ==
    \E k \in CodeIds : ExpireCode(k) /\ UNCHANGED <<rows, nextDraw, calls, used, served, revived>>

Next == UserStep \/ SettingsStep \/ SignInStep \/ ExpiryStep

Spec == Init /\ [][Next]_vars

-----------------------------------------------------------------------------
(* Properties                                                              *)

(* A challenge lets at most one sign-in through: two verifications of one  *)
(* token never both get past it, and one that failed cannot be tried again. *)
ChallengeUsedOnce ==
    \A c \in Calls :
        calls[c].op \in {"resolved", "backup", "session"} /\ calls[c].code # 0 =>
            /\ calls[c].code \notin served
            /\ \A d \in Calls \ {c} :
                  calls[d].op \in {"resolved", "backup", "session"} =>
                      calls[d].code # calls[c].code

(* Whoever must pass a challenge can: the flag is never on for a row whose *)
(* secret is gone, whatever enable, disable and generate do meanwhile.     *)
EnabledMeansVerifiable == \A u \in Users : rows[u].enabled => rows[u].secret # 0

(* A backup code that completed a sign-in completes no other, however many *)
(* present it at once and whatever is done to the settings meanwhile,      *)
(* unless a confirmation has given it back to the row.                     *)
BackupCodeUsedOnce ==
    [][\A c \in Calls :
          /\ calls[c].op = "backup"
          /\ calls'[c].op = "session"
          /\ calls[c].user \notin revived
          => calls[c].backup \notin used]_vars

=============================================================================
