-------------------------- MODULE TwoFactor_proofs --------------------------
(***************************************************************************)
(* Proofs about two-factor authentication, for any number of users, of     *)
(* calls in progress, of codes and of draws.                               *)
(***************************************************************************)
EXTENDS TwoFactor, FiniteSetTheorems, TLAPS

-----------------------------------------------------------------------------
(* The inductive invariant                                                 *)

Spent == {"consumed", "deleted"}

\* The steps of a sign-in that has passed its challenge.
Passed == {"resolved", "backup", "session"}

\* Rows are inserted in order, for a user.
CodesInOrder ==
    \A k \in CodeIds :
        /\ k < nextCode => codes[k].state # "none" /\ codes[k].user \in Users
        /\ k >= nextCode => codes[k].state = "none"

\* A call knows its user; one that writes a row back has read a secret.
CallsLinked ==
    \A c \in Calls :
        /\ calls[c].op # "idle" => calls[c].user \in Users
        /\ calls[c].op \in {"confirm", "generate"} => calls[c].row.secret # 0

\* A challenge that let a call pass is spent, and so is one that was served.
ChallengesSpent ==
    /\ \A c \in Calls :
          calls[c].op \in Passed /\ calls[c].code # 0 => codes[calls[c].code].state \in Spent
    /\ \A k \in served : codes[k].state \in Spent

IInv ==
    /\ TypeOK
    /\ CodesInOrder
    /\ CallsLinked
    /\ ChallengesSpent
    /\ ChallengeUsedOnce
    /\ EnabledMeansVerifiable

\* A step that never revives a code.
SpentStays == \A k \in CodeIds : codes[k].state \in Spent => codes'[k].state \in Spent

-----------------------------------------------------------------------------
(* The table of codes                                                      *)

(* Consuming or deleting rows that exist keeps the table in order.         *)
LEMMA SetCodesStep ==
    ASSUME CodesTypeOK, CodesInOrder, NEW K \in SUBSET CodeIds, NEW st \in Spent,
           \A k \in K : CodeExists(k), codes' = SetCodes(K, st), UNCHANGED nextCode
    PROVE  CodesTypeOK' /\ CodesInOrder' /\ SpentStays
  <1>1. \A k \in CodeIds : /\ codes'[k] = IF k \in K THEN [codes[k] EXCEPT !.state = st] ELSE codes[k]
                           /\ codes[k] \in Code
    BY DEF SetCodes, CodesTypeOK
  <1>2. \A k \in CodeIds : /\ codes'[k] \in Code
                           /\ codes'[k].user = codes[k].user
                           /\ codes'[k].state = IF k \in K THEN st ELSE codes[k].state
    <2> TAKE k \in CodeIds
    <2>1. CASE k \in K
      BY <1>1, <2>1 DEF Code, CodeStates, Spent
    <2>2. CASE k \notin K
      BY <1>1, <2>2
    <2> QED BY <2>1, <2>2
  <1>3. CodesTypeOK'
    BY <1>2 DEF SetCodes, CodesTypeOK
  <1>4. CodesInOrder'
    BY <1>2 DEF CodesInOrder, CodeExists, Spent
  <1>5. SpentStays
    BY <1>2 DEF SpentStays
  <1> QED BY <1>3, <1>4, <1>5

(* The page of a user's codes holds rows that exist.                       *)
LEMMA PageExists ==
    ASSUME NEW u, NEW type
    PROVE  PageOfCodes(u, type) \subseteq {k \in CodeIds : CodeExists(k)}
  BY DEF PageOfCodes, CodesOf

(* So does a new code, which retires those of the page.                    *)
LEMMA CreateCodeStep ==
    ASSUME CodesTypeOK, CodesInOrder, NEW u \in Users, NEW type \in CodeTypes,
           CreateVerificationCode(u, type)
    PROVE  CodesTypeOK' /\ CodesInOrder' /\ SpentStays
  <1> DEFINE K == PageOfCodes(u, type)
             row == [state |-> "live", user |-> u, type |-> type, expired |-> FALSE]
  <1>1. /\ nextCode \in CodeIds /\ nextCode' = nextCode + 1
        /\ codes' = [SetCodes(K, "consumed") EXCEPT ![nextCode] = row]
        /\ nextCode \in Nat
    BY CodesAssumption DEF CreateVerificationCode, CodeIds
  <1>2. row \in Code /\ row.state = "live" /\ row.user = u
    BY DEF Code, CodeStates
  <1>3. K \subseteq CodeIds /\ \A k \in K : CodeExists(k)
    BY PageExists
  <1> HIDE DEF K, row
  <1>4. \A k \in CodeIds \ {nextCode} :
           /\ codes'[k] = IF k \in K THEN [codes[k] EXCEPT !.state = "consumed"] ELSE codes[k]
           /\ codes[k] \in Code
    BY <1>1 DEF SetCodes, CodesTypeOK
  <1>5. \A k \in CodeIds \ {nextCode} :
           /\ codes'[k] \in Code
           /\ codes'[k].user = codes[k].user
           /\ codes'[k].state = IF k \in K THEN "consumed" ELSE codes[k].state
    <2> TAKE k \in CodeIds \ {nextCode}
    <2>1. CASE k \in K
      BY <1>4, <2>1 DEF Code, CodeStates
    <2>2. CASE k \notin K
      BY <1>4, <2>2
    <2> QED BY <2>1, <2>2
  <1>6. codes'[nextCode] = row
    BY <1>1 DEF SetCodes
  <1>7. codes' \in [CodeIds -> Code]
    <2>1. \A k \in CodeIds : codes'[k] \in Code
      BY <1>2, <1>5, <1>6
    <2> QED BY <1>1, <2>1 DEF SetCodes
  <1>8. CodesTypeOK'
    BY <1>1, <1>7, CodesAssumption DEF CodesTypeOK, CodeIds
  <1>9. \A k \in CodeIds : k \in Nat /\ (k < nextCode + 1 <=> k < nextCode \/ k = nextCode)
    BY <1>1, CodesAssumption DEF CodeIds
  <1>10. CodesInOrder'
    <2>1. ASSUME NEW k \in CodeIds, k >= nextCode + 1
          PROVE  k # nextCode /\ codes[k].state = "none"
      BY <1>1, <1>9, <2>1 DEF CodesInOrder
    <2>2. ASSUME NEW k \in CodeIds, k >= nextCode + 1 PROVE codes'[k].state = "none"
      BY <1>3, <1>5, <2>1, <2>2 DEF CodeExists
    <2>3. ASSUME NEW k \in CodeIds, k < nextCode + 1
          PROVE  codes'[k].state # "none" /\ codes'[k].user \in Users
      BY <1>2, <1>5, <1>6, <1>9, <2>3 DEF CodesInOrder
    <2> QED BY <1>1, <2>2, <2>3 DEF CodesInOrder
  <1>11. SpentStays
    <2>1. codes[nextCode].state = "none"
      BY <1>1, <1>9 DEF CodesInOrder
    <2> QED BY <1>5, <2>1 DEF SpentStays, Spent
  <1> QED BY <1>8, <1>10, <1>11

(* Every step keeps the table of codes in order, and what is spent spent.  *)
LEMMA CodesStep ==
    ASSUME IInv, [Next]_vars
    PROVE  CodesTypeOK' /\ CodesInOrder' /\ SpentStays
  <1>a. CodesTypeOK /\ CodesInOrder
    BY DEF IInv, TypeOK
  <1>b. ASSUME UNCHANGED codesVars PROVE CodesTypeOK' /\ CodesInOrder' /\ SpentStays
    BY <1>a, <1>b DEF codesVars, CodesTypeOK, CodesInOrder, SpentStays
  <1>c. "consumed" \in Spent /\ "deleted" \in Spent
    BY DEF Spent
  <1>1. ASSUME NEW u \in Users, TwoFactorEnable(u) PROVE UNCHANGED codesVars
    BY <1>1 DEF TwoFactorEnable
  <1>2. ASSUME NEW u \in Users, DeleteUser(u)
        PROVE  CodesTypeOK' /\ CodesInOrder' /\ SpentStays
    <2> DEFINE K == UNION {CodesOf(u, type) : type \in CodeTypes}
    <2>1. K \in SUBSET CodeIds /\ \A k \in K : CodeExists(k)
      BY DEF CodesOf
    <2>2. codes' = SetCodes(K, "deleted") /\ UNCHANGED nextCode
      BY <1>2 DEF DeleteUser, DeleteCodesOf
    <2> HIDE DEF K
    <2> QED BY <1>a, <1>c, <2>1, <2>2, SetCodesStep
  <1>3. ASSUME NEW u \in Users, NEW type \in CodeTypes, CleanupVerificationCodes(u, type)
        PROVE  CodesTypeOK' /\ CodesInOrder' /\ SpentStays
    <2>1. PICK old \in SUBSET {k \in PageOfCodes(u, type) : codes[k].state = "consumed"} :
             codes' = SetCodes(old \cup {k \in PageOfCodes(u, type) : codes[k].expired}, "deleted")
      BY <1>3 DEF CleanupVerificationCodes
    <2> DEFINE K == old \cup {k \in PageOfCodes(u, type) : codes[k].expired}
    <2>2. K \in SUBSET CodeIds /\ \A k \in K : CodeExists(k)
      BY PageExists
    <2>3. codes' = SetCodes(K, "deleted") /\ UNCHANGED nextCode
      BY <1>3, <2>1 DEF CleanupVerificationCodes
    <2> HIDE DEF K
    <2> QED BY <1>a, <1>c, <2>2, <2>3, SetCodesStep
  <1>4. ASSUME NEW c \in Calls, RevokeDevices(c)
        PROVE  CodesTypeOK' /\ CodesInOrder' /\ SpentStays
    <2> DEFINE K == {k \in PageOfCodes(calls[c].user, "two_factor_trusted_device") :
                        codes[k].state = "live"}
    <2>1. K \in SUBSET CodeIds /\ \A k \in K : CodeExists(k)
      BY PageExists
    <2>2. codes' = SetCodes(K, "consumed") /\ UNCHANGED nextCode
      BY <1>4 DEF RevokeDevices, RevokeVerificationCodesForUser
    <2> HIDE DEF K
    <2> QED BY <1>a, <1>c, <2>1, <2>2, SetCodesStep
  <1>5. ASSUME NEW c \in Calls, IssueChallenge(c)
        PROVE  CodesTypeOK' /\ CodesInOrder' /\ SpentStays
    <2>1. calls[c].user \in Users /\ CreateVerificationCode(calls[c].user, "two_factor_pending")
      BY <1>5 DEF IssueChallenge, IInv, CallsLinked
    <2> QED BY <1>a, <2>1, TwoFactorAssumption, CreateCodeStep
  <1>6. ASSUME NEW c \in Calls, CreateTrustedDevice(c)
        PROVE  CodesTypeOK' /\ CodesInOrder' /\ SpentStays
    <2>1. /\ calls[c].user \in Users
          /\ CreateVerificationCode(calls[c].user, "two_factor_trusted_device")
      BY <1>6 DEF CreateTrustedDevice, IInv, CallsLinked
    <2> QED BY <1>a, <2>1, TwoFactorAssumption, CreateCodeStep
  <1>7. ASSUME NEW c \in Calls, NEW k \in CodeIds, ConsumeChallenge(c, k)
        PROVE  CodesTypeOK' /\ CodesInOrder' /\ SpentStays
    <2>1. /\ {k} \in SUBSET CodeIds /\ \A j \in {k} : CodeExists(j)
          /\ codes' = SetCodes({k}, "consumed") /\ UNCHANGED nextCode
      BY <1>7 DEF ConsumeChallenge, Consumable, CodeExists, ConsumeVerificationCode
    <2> QED BY <1>a, <1>c, <2>1, SetCodesStep
  <1>8. ASSUME NEW k \in CodeIds, ExpireCode(k)
        PROVE  CodesTypeOK' /\ CodesInOrder' /\ SpentStays
    <2>1. /\ codes \in [CodeIds -> Code] /\ UNCHANGED nextCode
          /\ codes' = [codes EXCEPT ![k].expired = TRUE]
      BY <1>a, <1>8 DEF ExpireCode, CodesTypeOK
    <2>2. codes' \in [CodeIds -> Code]
      BY <2>1 DEF Code
    <2>3. \A j \in CodeIds : codes'[j].state = codes[j].state /\ codes'[j].user = codes[j].user
      BY <2>1 DEF Code
    <2> QED BY <1>a, <2>1, <2>2, <2>3 DEF CodesTypeOK, CodesInOrder, SpentStays
  <1>9. ASSUME NEW c \in Calls,
               \/ \E u \in Users : ReadToConfirm(c, u)
               \/ Confirm(c)
               \/ \E u \in Users : TwoFactorDisable(c, u)
               \/ \E u \in Users : ReadToGenerate(c, u)
               \/ TwoFactorGenerateBackupCodes(c)
               \/ Crash(c)
        PROVE  UNCHANGED codesVars
    BY <1>9 DEF ReadToConfirm, Confirm, TwoFactorDisable, ReadToGenerate,
                TwoFactorGenerateBackupCodes, Crash
  <1>10. ASSUME NEW c \in Calls,
                \/ \E u \in Users, device \in CodeIds \cup {0} : HandleTwoFactorSignIn(c, u, device)
                \/ ReadTrustedDevice(c)
                \/ RejectCode(c)
                \/ VerifyTOTP(c)
                \/ \E b \in BackupCodes : ReadBackupCode(c, b)
                \/ ConsumeBackupCode(c)
                \/ \E trustDevice \in BOOLEAN : IssueSession(c, trustDevice)
         PROVE  UNCHANGED codesVars
    BY <1>10 DEF HandleTwoFactorSignIn, ReadTrustedDevice, RejectCode, VerifyTOTP,
                 ReadBackupCode, ConsumeBackupCode, IssueSession
  <1>11. CASE UNCHANGED vars
    BY <1>11, <1>b DEF vars
  <1>12. CASE UserStep
    BY <1>12, <1>b, <1>1, <1>2, <1>3 DEF UserStep
  <1>13. CASE SettingsStep
    BY <1>13, <1>b, <1>4, <1>9 DEF SettingsStep
  <1>14. CASE SignInStep
    BY <1>14, <1>b, <1>5, <1>6, <1>7, <1>10 DEF SignInStep
  <1>15. CASE ExpiryStep
    BY <1>15, <1>8 DEF ExpiryStep
  <1> QED BY <1>11, <1>12, <1>13, <1>14, <1>15 DEF Next

-----------------------------------------------------------------------------
(* The rows of the users and the calls                                     *)

(* setTwoFactor keeps the rows well typed, and no flag is on without a     *)
(* secret if it is not turned on without one.                              *)
LEMMA SetTwoFactorStep ==
    ASSUME IInv, NEW u \in Users, NEW enabled \in BOOLEAN, NEW secret \in Draws \cup {0},
           NEW backup \in SUBSET BackupCodes, SetTwoFactor(u, enabled, secret, backup),
           enabled => secret # 0
    PROVE  rows' \in [Users -> Row] /\ EnabledMeansVerifiable'
  <1> DEFINE row == [exists |-> TRUE, enabled |-> enabled, secret |-> secret, backup |-> backup]
  <1>1. /\ row \in Row /\ (row.enabled => row.secret # 0)
        /\ rows \in [Users -> Row]
    BY DEF Row, IInv, TypeOK
  <1>2. rows' = IF rows[u].exists THEN [rows EXCEPT ![u] = row] ELSE rows
    BY DEF SetTwoFactor
  <1> HIDE DEF row
  <1> QED BY <1>1, <1>2 DEF IInv, EnabledMeansVerifiable

(* A new set of backup codes consists of backup codes.                     *)
LEMMA NewBackupCodesType ==
    ASSUME NEW d \in Draws PROVE NewBackupCodes(d) \in SUBSET BackupCodes
  BY DEF NewBackupCodes, BackupCodes

(* Only a confirmation adds to the users whose codes it gave back.         *)
LEMMA RevivedStep ==
    ASSUME IInv, [Next]_vars
    PROVE  revived' \in SUBSET Users
  <1>a. revived \subseteq Users
    BY DEF IInv, TypeOK
  <1>1. ASSUME NEW c \in Calls, Confirm(c) PROVE revived' \subseteq Users
    <2>1. calls[c].user \in Users
      BY <1>1 DEF Confirm, IInv, CallsLinked
    <2> QED BY <1>1, <1>a, <2>1 DEF Confirm
  <1>2. CASE UserStep
    BY <1>2, <1>a DEF UserStep, TwoFactorEnable, DeleteUser
  <1>3. CASE SettingsStep
    BY <1>3, <1>1, <1>a DEF SettingsStep, ReadToConfirm, TwoFactorDisable, RevokeDevices,
                            ReadToGenerate, TwoFactorGenerateBackupCodes, Crash
  <1>4. CASE SignInStep
    BY <1>4, <1>a DEF SignInStep, HandleTwoFactorSignIn, ReadTrustedDevice, IssueChallenge,
                      ConsumeChallenge, RejectCode, VerifyTOTP, ReadBackupCode,
                      ConsumeBackupCode, IssueSession, CreateTrustedDevice
  <1>5. CASE ExpiryStep \/ UNCHANGED vars
    BY <1>5, <1>a DEF ExpiryStep, vars
  <1> QED BY <1>2, <1>3, <1>4, <1>5 DEF Next

(* Every step keeps the rows, the generator and the history in shape.      *)
LEMMA RowsStep ==
    ASSUME IInv, [Next]_vars
    PROVE  /\ rows' \in [Users -> Row] /\ EnabledMeansVerifiable'
           /\ nextDraw' \in 1 .. MaxDraws + 1
           /\ used' \in SUBSET BackupCodes
           /\ served' \in SUBSET CodeIds
  <1> DEFINE Good == /\ rows' \in [Users -> Row] /\ EnabledMeansVerifiable'
                     /\ nextDraw' \in 1 .. MaxDraws + 1
                     /\ used' \in SUBSET BackupCodes
                     /\ served' \in SUBSET CodeIds
  <1>a. /\ rows \in [Users -> Row] /\ nextDraw \in 1 .. MaxDraws + 1
        /\ used \in SUBSET BackupCodes /\ served \in SUBSET CodeIds
        /\ calls \in [Calls -> Call] /\ EnabledMeansVerifiable
    BY DEF IInv, TypeOK
  <1>b. ASSUME UNCHANGED rows PROVE EnabledMeansVerifiable'
    BY <1>a, <1>b DEF EnabledMeansVerifiable
  <1>c. ASSUME Draw PROVE nextDraw \in Draws /\ nextDraw' \in 1 .. MaxDraws + 1
    BY <1>c, TwoFactorAssumption DEF Draw, Draws
  <1>d. ASSUME NEW c \in Calls
        PROVE  /\ calls[c].row.secret \in Draws \cup {0}
               /\ calls[c].row.backup \in SUBSET BackupCodes
               /\ calls[c].row.enabled \in BOOLEAN
    BY <1>a DEF Call, Row
  <1>e. 0 \in Draws \cup {0} /\ {} \in SUBSET BackupCodes
    OBVIOUS
  <1>1. ASSUME NEW u \in Users, TwoFactorEnable(u) PROVE Good
    <2>1. /\ nextDraw \in Draws /\ nextDraw' \in 1 .. MaxDraws + 1
          /\ NewBackupCodes(nextDraw) \in SUBSET BackupCodes
          /\ SetTwoFactor(u, FALSE, nextDraw, NewBackupCodes(nextDraw))
      BY <1>1, <1>c, NewBackupCodesType DEF TwoFactorEnable
    <2>2. rows' \in [Users -> Row] /\ EnabledMeansVerifiable'
      BY <2>1, SetTwoFactorStep
    <2> QED BY <1>1, <1>a, <2>1, <2>2 DEF TwoFactorEnable
  <1>2. ASSUME NEW u \in Users, DeleteUser(u) PROVE Good
    <2>1. NoRow \in Row /\ ~NoRow.enabled /\ rows' = [rows EXCEPT ![u] = NoRow]
      BY <1>2 DEF NoRow, Row, DeleteUser
    <2>2. rows' \in [Users -> Row] /\ EnabledMeansVerifiable'
      BY <1>a, <2>1 DEF EnabledMeansVerifiable
    <2> QED BY <1>2, <1>a, <2>2 DEF DeleteUser
  <1>3. ASSUME NEW c \in Calls, Confirm(c) PROVE Good
    <2>1. /\ calls[c].user \in Users /\ calls[c].row.secret # 0
          /\ SetTwoFactor(calls[c].user, TRUE, calls[c].row.secret, calls[c].row.backup)
      BY <1>3 DEF Confirm, IInv, CallsLinked
    <2>2. rows' \in [Users -> Row] /\ EnabledMeansVerifiable'
      <3>1. /\ calls[c].row.secret \in Draws \cup {0} /\ TRUE \in BOOLEAN
            /\ calls[c].row.backup \in SUBSET BackupCodes
        BY <1>d
      <3> QED BY <2>1, <3>1, SetTwoFactorStep
    <2> QED BY <1>3, <1>a, <2>2 DEF Confirm
  <1>4. ASSUME NEW c \in Calls, NEW u \in Users, TwoFactorDisable(c, u) PROVE Good
    <2>1. rows' \in [Users -> Row] /\ EnabledMeansVerifiable'
      BY <1>4, <1>e, SetTwoFactorStep DEF TwoFactorDisable
    <2> QED BY <1>4, <1>a, <2>1 DEF TwoFactorDisable
  <1>5. ASSUME NEW c \in Calls, TwoFactorGenerateBackupCodes(c) PROVE Good
    <2>1. /\ calls[c].user \in Users /\ calls[c].row.secret # 0
          /\ SetTwoFactor(calls[c].user, calls[c].row.enabled, calls[c].row.secret,
                          NewBackupCodes(nextDraw))
          /\ nextDraw \in Draws /\ nextDraw' \in 1 .. MaxDraws + 1
          /\ NewBackupCodes(nextDraw) \in SUBSET BackupCodes
      BY <1>5, <1>c, NewBackupCodesType DEF TwoFactorGenerateBackupCodes, IInv, CallsLinked
    <2>2. rows' \in [Users -> Row] /\ EnabledMeansVerifiable'
      BY <1>d, <2>1, SetTwoFactorStep
    <2> QED BY <1>5, <1>a, <2>1, <2>2 DEF TwoFactorGenerateBackupCodes
  <1>6. ASSUME NEW c \in Calls, ConsumeBackupCode(c) PROVE Good
    <2> DEFINE u == calls[c].user
               b == calls[c].backup
    <2>1. CASE rows[u].exists /\ b \in rows[u].backup
      <3>1. /\ rows' = [rows EXCEPT ![u].backup = @ \ {b}] /\ used' = used \cup {b}
            /\ u \in Users
        BY <1>6, <2>1 DEF ConsumeBackupCode, IInv, CallsLinked
      <3>2. b \in BackupCodes
        BY <1>a, <2>1, <3>1 DEF Row
      <3>3. /\ rows' \in [Users -> Row]
            /\ \A v \in Users : /\ rows'[v].enabled = rows[v].enabled
                                /\ rows'[v].secret = rows[v].secret
        BY <1>a, <3>1 DEF Row
      <3>4. EnabledMeansVerifiable'
        BY <1>a, <3>3 DEF EnabledMeansVerifiable
      <3> QED BY <1>6, <1>a, <3>1, <3>2, <3>3, <3>4 DEF ConsumeBackupCode
    <2>2. CASE ~(rows[u].exists /\ b \in rows[u].backup)
      <3>1. UNCHANGED <<rows, used>>
        BY <1>6, <2>2 DEF ConsumeBackupCode
      <3> QED BY <1>6, <1>a, <1>b, <3>1 DEF ConsumeBackupCode
    <2> QED BY <2>1, <2>2
  <1>7. ASSUME NEW c \in Calls, NEW trustDevice \in BOOLEAN, IssueSession(c, trustDevice)
        PROVE  Good
    <2>1. calls[c].code \in CodeIds \cup {0} /\ 0 \notin CodeIds
      BY <1>a DEF Call, CodeIds
    <2>2. served' \in SUBSET CodeIds
      BY <1>7, <1>a, <2>1 DEF IssueSession
    <2> QED BY <1>7, <1>a, <1>b, <2>2 DEF IssueSession
  <1>8. ASSUME UNCHANGED <<rows, nextDraw, used, served>> PROVE Good
    BY <1>8, <1>a, <1>b
  <1>9. CASE UserStep
    BY <1>9, <1>1, <1>2, <1>8 DEF UserStep
  <1>10. ASSUME NEW c \in Calls,
                \/ \E u \in Users : ReadToConfirm(c, u)
                \/ RevokeDevices(c)
                \/ \E u \in Users : ReadToGenerate(c, u)
                \/ Crash(c)
         PROVE  UNCHANGED <<rows, nextDraw, used, served>>
    BY <1>10 DEF ReadToConfirm, RevokeDevices, ReadToGenerate, Crash
  <1>11. CASE SettingsStep
    BY <1>11, <1>3, <1>4, <1>5, <1>8, <1>10 DEF SettingsStep
  <1>12. ASSUME NEW c \in Calls,
                \/ \E u \in Users, device \in CodeIds \cup {0} : HandleTwoFactorSignIn(c, u, device)
                \/ ReadTrustedDevice(c)
                \/ IssueChallenge(c)
                \/ \E k \in CodeIds : ConsumeChallenge(c, k)
                \/ RejectCode(c)
                \/ VerifyTOTP(c)
                \/ \E b \in BackupCodes : ReadBackupCode(c, b)
                \/ CreateTrustedDevice(c)
         PROVE  UNCHANGED <<rows, nextDraw, used, served>>
    BY <1>12 DEF HandleTwoFactorSignIn, ReadTrustedDevice, IssueChallenge, ConsumeChallenge,
                 RejectCode, VerifyTOTP, ReadBackupCode, CreateTrustedDevice
  <1>13. CASE SignInStep
    BY <1>13, <1>6, <1>7, <1>8, <1>12 DEF SignInStep
  <1>14. CASE ExpiryStep
    BY <1>14, <1>8 DEF ExpiryStep
  <1>15. CASE UNCHANGED vars
    BY <1>15, <1>8 DEF vars
  <1> QED BY <1>9, <1>11, <1>13, <1>14, <1>15 DEF Next

(* Moving one call, when no challenge is served, keeps what the invariant  *)
(* says of calls if the call that moves still knows its user, and stands   *)
(* alone on a challenge that is spent and not served.                      *)
LEMMA MoveCall ==
    ASSUME IInv, SpentStays, UNCHANGED served, NEW c \in Calls, NEW q \in Call,
           calls' = [calls EXCEPT ![c] = q],
           q.op # "idle" => q.user \in Users,
           q.op \in {"confirm", "generate"} => q.row.secret # 0,
           q.op \in Passed /\ q.code # 0 =>
              /\ codes'[q.code].state \in Spent
              /\ q.code \notin served
              /\ \A d \in Calls \ {c} : calls[d].op \in Passed => calls[d].code # q.code
    PROVE  calls' \in [Calls -> Call] /\ CallsLinked' /\ ChallengesSpent' /\ ChallengeUsedOnce'
  <1>1. calls \in [Calls -> Call]
    BY DEF IInv, TypeOK
  <1>2. /\ calls'[c] = q
        /\ \A d \in Calls \ {c} : calls'[d] = calls[d]
    BY <1>1
  <1>3. calls' \in [Calls -> Call]
    BY <1>1
  <1>4. CallsLinked'
    BY <1>2 DEF IInv, CallsLinked
  <1>5. served \subseteq CodeIds /\ \A d \in Calls : calls[d].code \in CodeIds \cup {0}
    BY <1>1 DEF IInv, TypeOK, Call
  <1>6. ChallengesSpent'
    BY <1>2, <1>5 DEF IInv, ChallengesSpent, SpentStays
  <1>7. ChallengeUsedOnce'
    <2> SUFFICES ASSUME NEW d \in Calls, calls'[d].op \in Passed, calls'[d].code # 0
                 PROVE  /\ calls'[d].code \notin served
                        /\ \A e \in Calls \ {d} :
                              calls'[e].op \in Passed => calls'[e].code # calls'[d].code
      BY DEF ChallengeUsedOnce, Passed
    <2>1. CASE d = c
      BY <1>2, <2>1
    <2>2. CASE d # c
      <3>1. /\ calls[d].code \notin served
            /\ \A e \in Calls \ {d} : calls[e].op \in Passed => calls[e].code # calls[d].code
        BY <1>2, <2>2 DEF IInv, ChallengeUsedOnce, Passed
      <3>2. q.op \in Passed => q.code # calls[d].code
        BY <1>2, <2>2
      <3> QED BY <1>2, <2>2, <3>1, <3>2
    <2> QED BY <2>1, <2>2
  <1> QED BY <1>3, <1>4, <1>6, <1>7

(* A session is issued: its challenge, held by no other call, is served,   *)
(* and the call goes on to trust the device or ends.                       *)
LEMMA IssueSessionCalls ==
    ASSUME IInv, SpentStays, NEW c \in Calls, NEW trustDevice \in BOOLEAN,
           IssueSession(c, trustDevice)
    PROVE  calls' \in [Calls -> Call] /\ CallsLinked' /\ ChallengesSpent' /\ ChallengeUsedOnce'
  <1> DEFINE k == calls[c].code
  <1>1. calls \in [Calls -> Call] /\ calls[c].op = "session" /\ served' = served \cup ({k} \ {0})
    BY DEF IInv, TypeOK, IssueSession
  <1>2. PICK q \in Call :
           /\ calls' = [calls EXCEPT ![c] = q]
           /\ q.op \in {"idle", "trust"}
           /\ q.op # "idle" => q.user \in Users
    <2>1. CASE trustDevice /\ k # 0
      <3> DEFINE q == [calls[c] EXCEPT !.op = "trust"]
      <3>1. calls' = [calls EXCEPT ![c] = q]
        BY <1>1, <2>1 DEF IssueSession, Goto
      <3>2. q \in Call /\ q.op = "trust" /\ q.user = calls[c].user
        BY <1>1 DEF Call, Ops
      <3>3. calls[c].user \in Users
        BY <1>1 DEF IInv, CallsLinked
      <3> HIDE DEF q
      <3> QED BY <3>1, <3>2, <3>3
    <2>2. CASE ~(trustDevice /\ k # 0)
      <3>1. calls' = [calls EXCEPT ![c] = Idle]
        BY <2>2 DEF IssueSession, Return
      <3>2. Idle \in Call /\ Idle.op = "idle"
        BY DEF Idle, Call, Ops, NoRow, Row
      <3> QED BY <3>1, <3>2
    <2> QED BY <2>1, <2>2
  <1>3. /\ calls'[c] = q /\ \A d \in Calls \ {c} : calls'[d] = calls[d]
        /\ q.op \notin Passed /\ q.op \notin {"confirm", "generate"}
        /\ calls' \in [Calls -> Call]
    BY <1>1, <1>2 DEF Passed
  <1>4. CallsLinked'
    BY <1>2, <1>3 DEF IInv, CallsLinked
  <1>5. /\ served \subseteq CodeIds /\ \A d \in Calls : calls[d].code \in CodeIds \cup {0}
        /\ calls[c].op \in Passed
    BY <1>1 DEF IInv, TypeOK, Call, Passed
  <1>6. ChallengesSpent'
    BY <1>1, <1>3, <1>5 DEF IInv, ChallengesSpent, SpentStays
  <1>7. ChallengeUsedOnce'
    <2> SUFFICES ASSUME NEW d \in Calls, calls'[d].op \in Passed, calls'[d].code # 0
                 PROVE  /\ calls'[d].code \notin served'
                        /\ \A e \in Calls \ {d} :
                              calls'[e].op \in Passed => calls'[e].code # calls'[d].code
      BY DEF ChallengeUsedOnce, Passed
    <2>1. d # c /\ calls'[d] = calls[d]
      BY <1>3
    <2>2. /\ calls[d].code \notin served
          /\ \A e \in Calls \ {d} : calls[e].op \in Passed => calls[e].code # calls[d].code
      BY <2>1 DEF IInv, ChallengeUsedOnce, Passed
    <2>3. calls[d].code # k
      BY <1>5, <2>1, <2>2
    <2> QED BY <1>1, <1>3, <2>1, <2>2, <2>3
  <1> QED BY <1>3, <1>4, <1>6, <1>7

(* A call that ends, or that has not passed a challenge, holds none.       *)
LEMMA IdleCall == Idle \in Call /\ Idle.op = "idle" /\ Idle.code = 0
  BY DEF Idle, Call, Ops, NoRow, Row

(* Every step keeps what the invariant says of the calls.                  *)
LEMMA CallsStep ==
    ASSUME IInv, SpentStays, [Next]_vars
    PROVE  calls' \in [Calls -> Call] /\ CallsLinked' /\ ChallengesSpent' /\ ChallengeUsedOnce'
  <1> DEFINE Good == /\ calls' \in [Calls -> Call] /\ CallsLinked'
                     /\ ChallengesSpent' /\ ChallengeUsedOnce'
  <1>a. calls \in [Calls -> Call] /\ rows \in [Users -> Row]
    BY DEF IInv, TypeOK
  <1>b. ASSUME UNCHANGED <<calls, served>> PROVE Good
    <2>1. calls' \in [Calls -> Call] /\ CallsLinked' /\ ChallengeUsedOnce'
      BY <1>a, <1>b DEF IInv, CallsLinked, ChallengeUsedOnce
    <2>2. served \subseteq CodeIds /\ \A d \in Calls : calls[d].code \in CodeIds \cup {0}
      BY <1>a DEF IInv, TypeOK, Call
    <2>3. ChallengesSpent'
      BY <1>b, <2>2 DEF IInv, ChallengesSpent, SpentStays
    <2> QED BY <2>1, <2>3
  <1>c. ASSUME NEW c \in Calls, Return(c), UNCHANGED served PROVE Good
    <2>1. calls' = [calls EXCEPT ![c] = Idle]
      BY <1>c DEF Return
    <2>2. Idle.op \notin Passed /\ Idle.op \notin {"confirm", "generate"}
      BY IdleCall DEF Passed
    <2> QED BY <1>c, <2>1, <2>2, IdleCall, MoveCall
  \* A call that stays behind the challenge it has passed.
  <1>d. ASSUME NEW c \in Calls, NEW q \in Call, calls' = [calls EXCEPT ![c] = q],
               UNCHANGED served, calls[c].op \in Passed, q.op \in Passed,
               q.user = calls[c].user, q.code = calls[c].code
        PROVE  Good
    <2>1. calls[c].user \in Users /\ calls[c].code \in CodeIds \cup {0}
      BY <1>a, <1>d DEF IInv, CallsLinked, Call, Passed
    <2>2. calls[c].code # 0 =>
             /\ codes'[calls[c].code].state \in Spent
             /\ calls[c].code \notin served
             /\ \A d \in Calls \ {c} : calls[d].op \in Passed => calls[d].code # calls[c].code
      BY <1>d, <2>1 DEF IInv, ChallengesSpent, ChallengeUsedOnce, SpentStays, Passed
    <2>3. q.op # "idle" /\ q.op \notin {"confirm", "generate"}
      BY <1>d DEF Passed
    <2> QED BY <1>d, <2>1, <2>2, <2>3, MoveCall
  \* A call that has passed no challenge and writes no row back.
  <1>e. ASSUME NEW c \in Calls, NEW q \in Call, calls' = [calls EXCEPT ![c] = q],
               UNCHANGED served, q.user \in Users, q.op \notin {"confirm", "generate"},
               q.op \notin Passed \/ q.code = 0
        PROVE  Good
    BY <1>e, MoveCall
  <1>1. ASSUME NEW c \in Calls, NEW u \in Users, ReadToConfirm(c, u) PROVE Good
    <2> DEFINE q == [Idle EXCEPT !.op = "confirm", !.user = u, !.row = rows[u]]
    <2>1. /\ q \in Call /\ q.op = "confirm" /\ q.user = u /\ q.row.secret # 0
          /\ calls' = [calls EXCEPT ![c] = q] /\ UNCHANGED served
      BY <1>1, <1>a DEF ReadToConfirm, Start, Idle, Call, Ops
    <2> HIDE DEF q
    <2>2. q.op \notin Passed
      BY <2>1 DEF Passed
    <2> QED BY <2>1, <2>2, MoveCall
  <1>2. ASSUME NEW c \in Calls, NEW u \in Users, ReadToGenerate(c, u) PROVE Good
    <2> DEFINE q == [Idle EXCEPT !.op = "generate", !.user = u, !.row = rows[u]]
    <2>1. /\ q \in Call /\ q.op = "generate" /\ q.user = u /\ q.row.secret # 0
          /\ calls' = [calls EXCEPT ![c] = q] /\ UNCHANGED served
      BY <1>2, <1>a DEF ReadToGenerate, Start, Idle, Call, Ops
    <2> HIDE DEF q
    <2>2. q.op \notin Passed
      BY <2>1 DEF Passed
    <2> QED BY <2>1, <2>2, MoveCall
  <1>3. ASSUME NEW c \in Calls, NEW u \in Users, TwoFactorDisable(c, u) PROVE Good
    <2> DEFINE q == [Idle EXCEPT !.op = "disable", !.user = u]
    <2>1. /\ q \in Call /\ q.op = "disable" /\ q.user = u
          /\ calls' = [calls EXCEPT ![c] = q] /\ UNCHANGED served
      BY <1>3 DEF TwoFactorDisable, Start, Idle, Call, Ops, NoRow, Row
    <2> HIDE DEF q
    <2>2. q.op \notin Passed /\ q.op \notin {"confirm", "generate"}
      BY <2>1 DEF Passed
    <2> QED BY <1>e, <2>1, <2>2
  <1>4. ASSUME NEW c \in Calls,
               \/ Confirm(c) \/ RevokeDevices(c) \/ TwoFactorGenerateBackupCodes(c) \/ Crash(c)
               \/ IssueChallenge(c) \/ RejectCode(c) \/ CreateTrustedDevice(c)
        PROVE  Good
    BY <1>4, <1>c DEF Confirm, RevokeDevices, TwoFactorGenerateBackupCodes, Crash,
                      IssueChallenge, RejectCode, CreateTrustedDevice
  <1>5. ASSUME NEW c \in Calls, NEW u \in Users, NEW device \in CodeIds \cup {0},
               HandleTwoFactorSignIn(c, u, device)
        PROVE  Good
    <2> DEFINE op == IF ~rows[u].enabled THEN "session"
                     ELSE IF device # 0 THEN "device" ELSE "challenge"
               code == IF rows[u].enabled THEN device ELSE 0
               q == [Idle EXCEPT !.op = op, !.user = u, !.row = rows[u], !.code = code]
    <2>1. /\ op \in {"session", "device", "challenge"} /\ code \in CodeIds \cup {0}
          /\ op = "session" => code = 0
      OBVIOUS
    <2>2. calls' = [calls EXCEPT ![c] = q] /\ UNCHANGED served
      BY <1>5 DEF HandleTwoFactorSignIn, Start
    <2> HIDE DEF op, code
    <2>3. q \in Call /\ q.op = op /\ q.user = u /\ q.code = code
      BY <1>a, <2>1 DEF Idle, Call, Ops
    <2> HIDE DEF q
    <2>4. q.op \notin {"confirm", "generate"} /\ (q.op \notin Passed \/ q.code = 0)
      BY <2>1, <2>3 DEF Passed
    <2> QED BY <1>e, <2>2, <2>3, <2>4
  <1>6. ASSUME NEW c \in Calls, ReadTrustedDevice(c) PROVE Good
    <2> DEFINE op == IF DeviceTrusted(calls[c].code, calls[c].user) THEN "session" ELSE "challenge"
               q == [calls[c] EXCEPT !.op = op, !.code = 0]
    <2>1. op \in {"session", "challenge"}
      OBVIOUS
    <2>2. calls' = [calls EXCEPT ![c] = q] /\ UNCHANGED served
      BY <1>6, <1>a DEF ReadTrustedDevice, Call
    <2>3. calls[c].user \in Users
      BY <1>6 DEF ReadTrustedDevice, IInv, CallsLinked
    <2> HIDE DEF op
    <2>4. q \in Call /\ q.op = op /\ q.user = calls[c].user /\ q.code = 0
      BY <1>a, <2>1 DEF Call, Ops
    <2> HIDE DEF q
    <2>5. q.op \notin {"confirm", "generate"}
      BY <2>1, <2>4
    <2> QED BY <1>e, <2>2, <2>3, <2>4, <2>5
  <1>7. ASSUME NEW c \in Calls, NEW k \in CodeIds, ConsumeChallenge(c, k) PROVE Good
    <2> DEFINE q == [Idle EXCEPT !.op = "resolved", !.user = codes[k].user, !.code = k]
    <2>1. codes \in [CodeIds -> Code] /\ codes[k].state = "live"
      BY <1>7 DEF IInv, TypeOK, CodesTypeOK, ConsumeChallenge, Consumable
    <2>2. codes[k].user \in Users
      <3>1. k \in Nat /\ nextCode \in Nat
        BY CodesAssumption DEF IInv, TypeOK, CodesTypeOK, CodeIds
      <3> QED BY <2>1, <3>1 DEF IInv, CodesInOrder
    <2>3. /\ q \in Call /\ q.op = "resolved" /\ q.user = codes[k].user /\ q.code = k
          /\ calls' = [calls EXCEPT ![c] = q] /\ UNCHANGED served
      BY <1>7, <2>2 DEF ConsumeChallenge, Start, Idle, Call, Ops, NoRow, Row
    <2>4. codes'[k].state \in Spent
      BY <1>7, <2>1 DEF ConsumeChallenge, ConsumeVerificationCode, SetCodes, Code, Spent
    <2>5. /\ k \notin served
          /\ \A d \in Calls \ {c} : calls[d].op \in Passed => calls[d].code # k
      BY <2>1, CodesAssumption DEF IInv, ChallengesSpent, Spent, CodeIds
    <2> HIDE DEF q
    <2>6. q.op # "idle" /\ q.op \notin {"confirm", "generate"}
      BY <2>3
    <2> QED BY <2>2, <2>3, <2>4, <2>5, <2>6, MoveCall
  <1>8. ASSUME NEW c \in Calls, VerifyTOTP(c) PROVE Good
    <2> DEFINE q == [calls[c] EXCEPT !.op = "session"]
    <2>1. /\ q \in Call /\ q.op = "session" /\ q.user = calls[c].user /\ q.code = calls[c].code
          /\ calls' = [calls EXCEPT ![c] = q] /\ UNCHANGED served /\ calls[c].op = "resolved"
      BY <1>8, <1>a DEF VerifyTOTP, Goto, Call, Ops
    <2> HIDE DEF q
    <2>2. q.op \in Passed /\ calls[c].op \in Passed
      BY <2>1 DEF Passed
    <2> QED BY <1>d, <2>1, <2>2
  <1>9. ASSUME NEW c \in Calls, NEW b \in BackupCodes, ReadBackupCode(c, b) PROVE Good
    <2> DEFINE q == [calls[c] EXCEPT !.op = "backup", !.backup = b]
    <2>1. /\ q \in Call /\ q.op = "backup" /\ q.user = calls[c].user /\ q.code = calls[c].code
          /\ calls[c].op = "resolved" /\ UNCHANGED served
      BY <1>9, <1>a DEF ReadBackupCode, Call, Ops
    <2>2. calls' = [calls EXCEPT ![c] = q]
      BY <1>9, <1>a DEF ReadBackupCode, Call
    <2> HIDE DEF q
    <2>3. q.op \in Passed /\ calls[c].op \in Passed
      BY <2>1 DEF Passed
    <2> QED BY <1>d, <2>1, <2>2, <2>3
  <1>10. ASSUME NEW c \in Calls, ConsumeBackupCode(c) PROVE Good
    <2> DEFINE q == [calls[c] EXCEPT !.op = "session", !.backup = NoCode]
    <2>1. UNCHANGED served /\ calls[c].op = "backup"
      BY <1>10 DEF ConsumeBackupCode
    <2>2. CASE Return(c)
      BY <1>c, <2>1, <2>2
    <2>3. CASE calls' = [calls EXCEPT ![c].op = "session", ![c].backup = NoCode]
      <3>1. calls' = [calls EXCEPT ![c] = q]
        BY <1>a, <2>3 DEF Call
      <3>2. q \in Call /\ q.op = "session" /\ q.user = calls[c].user /\ q.code = calls[c].code
        BY <1>a DEF Call, Ops
      <3> HIDE DEF q
      <3>3. q.op \in Passed /\ calls[c].op \in Passed
        BY <2>1, <3>2 DEF Passed
      <3> QED BY <1>d, <2>1, <3>1, <3>2, <3>3
    <2> QED BY <1>10, <2>2, <2>3 DEF ConsumeBackupCode
  <1>11. ASSUME NEW c \in Calls, NEW trustDevice \in BOOLEAN, IssueSession(c, trustDevice)
         PROVE  Good
    BY <1>11, IssueSessionCalls
  <1>12. CASE UserStep
    BY <1>12, <1>b DEF UserStep, TwoFactorEnable, DeleteUser
  <1>13. CASE SettingsStep
    BY <1>13, <1>1, <1>2, <1>3, <1>4 DEF SettingsStep
  <1>14. CASE SignInStep
    BY <1>14, <1>4, <1>5, <1>6, <1>7, <1>8, <1>9, <1>10, <1>11 DEF SignInStep
  <1>15. CASE ExpiryStep
    BY <1>15, <1>b DEF ExpiryStep
  <1>16. CASE UNCHANGED vars
    BY <1>16, <1>b DEF vars
  <1> QED BY <1>12, <1>13, <1>14, <1>15, <1>16 DEF Next

-----------------------------------------------------------------------------
(* The invariant and the properties                                        *)

(* The invariant holds at the start: no code, no call, no flag.            *)
LEMMA InvInit == Init => IInv
  <1> SUFFICES ASSUME Init PROVE IInv
    OBVIOUS
  <1> USE DEF Init
  <1>1. CodesTypeOK /\ CodesInOrder
    <2> DEFINE row == [state |-> "none", user |-> Nobody, type |-> "none", expired |-> FALSE]
    <2>1. row \in Code /\ row.state = "none"
      BY DEF Code, CodeStates
    <2>2. codes = [k \in CodeIds |-> row] /\ nextCode = 1
      BY DEF CodesInit
    <2> HIDE DEF row
    <2>3. CodesTypeOK
      BY <2>1, <2>2, CodesAssumption DEF CodesTypeOK
    <2>4. \A k \in CodeIds : codes[k].state = "none" /\ ~(k < nextCode)
      BY <2>1, <2>2, CodesAssumption DEF CodeIds
    <2> QED BY <2>3, <2>4 DEF CodesInOrder
  <1>2. TypeOK
    <2>1. /\ rows \in [Users -> Row]
          /\ calls \in [Calls -> Call]
          /\ nextDraw \in 1 .. MaxDraws + 1
      <3>1. [NoRow EXCEPT !.exists = TRUE] \in Row
        BY DEF NoRow, Row
      <3>2. Idle \in Call
        BY IdleCall
      <3>3. 1 \in 1 .. MaxDraws + 1
        BY TwoFactorAssumption
      <3> QED BY <3>1, <3>2, <3>3
    <2> QED BY <1>1, <2>1 DEF TypeOK
  <1>3. CallsLinked /\ ChallengesSpent /\ ChallengeUsedOnce
    BY IdleCall DEF CallsLinked, ChallengesSpent, ChallengeUsedOnce
  <1>4. EnabledMeansVerifiable
    BY DEF EnabledMeansVerifiable, NoRow
  <1> QED BY <1>1, <1>2, <1>3, <1>4 DEF IInv

(* Every step keeps it.                                                    *)
LEMMA InvStep == IInv /\ [Next]_vars => IInv'
  <1> SUFFICES ASSUME IInv, [Next]_vars PROVE IInv'
    OBVIOUS
  <1>1. CodesTypeOK' /\ CodesInOrder' /\ SpentStays
    BY CodesStep
  <1>2. /\ rows' \in [Users -> Row] /\ EnabledMeansVerifiable'
        /\ nextDraw' \in 1 .. MaxDraws + 1
        /\ used' \in SUBSET BackupCodes
        /\ served' \in SUBSET CodeIds
    BY RowsStep
  <1>3. calls' \in [Calls -> Call] /\ CallsLinked' /\ ChallengesSpent' /\ ChallengeUsedOnce'
    BY <1>1, CallsStep
  <1>4. revived' \in SUBSET Users
    BY RevivedStep
  <1> QED BY <1>1, <1>2, <1>3, <1>4 DEF IInv, TypeOK

(* The invariant holds in every reachable state. *)
THEOREM Invariance == Spec => []IInv
  BY InvInit, InvStep, PTL DEF Spec

(* The rows, the codes, the calls in progress and the history are well     *)
(* typed.                                                                  *)
THEOREM TypeCorrect == Spec => []TypeOK
  <1>1. IInv => TypeOK
    BY DEF IInv
  <1> QED BY Invariance, <1>1, PTL

(* A challenge lets at most one sign-in through, however many              *)
(* verifications present it at the same time.                              *)
THEOREM ChallengeOnce == Spec => []ChallengeUsedOnce
  <1>1. IInv => ChallengeUsedOnce
    BY DEF IInv
  <1> QED BY Invariance, <1>1, PTL

(* Two-factor is never on for a user without a secret, although enable,    *)
(* confirm, disable and generate replace each other's writes.              *)
THEOREM NeverLockedOut == Spec => []EnabledMeansVerifiable
  <1>1. IInv => EnabledMeansVerifiable
    BY DEF IInv
  <1> QED BY Invariance, <1>1, PTL

-----------------------------------------------------------------------------
(* One live code of a type                                                 *)

(* A page that is at least as long as the table holds every code.          *)
LEMMA WholePage ==
    ASSUME CodePage >= MaxCodes, NEW u, NEW type
    PROVE  PageOfCodes(u, type) = CodesOf(u, type)
  <1>1. IsFiniteSet(CodeIds) /\ Cardinality(CodeIds) = MaxCodes
    BY FS_Interval, CodesAssumption DEF CodeIds
  <1>2. ASSUME NEW k \in CodesOf(u, type)
        PROVE  Cardinality({j \in CodesOf(u, type) : j < k}) < CodePage
    <2> DEFINE Older == {j \in CodesOf(u, type) : j < k}
    <2>1. k \in CodeIds /\ Older \subseteq CodeIds \ {k}
      BY DEF CodesOf, CodeIds
    <2>2. IsFiniteSet(CodeIds \ {k}) /\ Cardinality(CodeIds \ {k}) = MaxCodes - 1
      BY <1>1, <2>1, FS_RemoveElement
    <2>3. IsFiniteSet(Older) /\ Cardinality(Older) <= MaxCodes - 1
      BY <2>1, <2>2, FS_Subset
    <2>4. Cardinality(Older) \in Nat
      BY <2>3, FS_CardinalityType
    <2> QED BY <2>3, <2>4, CodesAssumption
  <1> QED BY <1>2 DEF PageOfCodes

(* A step that makes no code live keeps the property.                      *)
LEMMA NoNewLiveCode ==
    ASSUME OneLiveCode,
           \A k \in CodeIds : /\ codes'[k].user = codes[k].user
                              /\ codes'[k].type = codes[k].type
                              /\ codes'[k].state = "live" => codes[k].state = "live"
    PROVE  OneLiveCode'
  BY DEF OneLiveCode

(* Consuming or deleting rows is such a step.                              *)
LEMMA SetCodesKeepsOne ==
    ASSUME CodesTypeOK, OneLiveCode, NEW K, NEW st \in Spent, codes' = SetCodes(K, st)
    PROVE  OneLiveCode'
  <1>1. \A k \in CodeIds :
           /\ codes[k] \in Code
           /\ codes'[k] = IF k \in K THEN [codes[k] EXCEPT !.state = st] ELSE codes[k]
    BY DEF CodesTypeOK, SetCodes
  <1>2. \A k \in CodeIds : /\ codes'[k].user = codes[k].user
                           /\ codes'[k].type = codes[k].type
                           /\ codes'[k].state = "live" => codes[k].state = "live"
    BY <1>1 DEF Code, Spent
  <1> QED BY <1>2, NoNewLiveCode

(* A new code retires every other of its type that is live.                *)
LEMMA CreateKeepsOne ==
    ASSUME CodesTypeOK, OneLiveCode, CodePage >= MaxCodes,
           NEW u, NEW type, CreateVerificationCode(u, type)
    PROVE  OneLiveCode'
  <1> DEFINE K == PageOfCodes(u, type)
  <1>1. /\ nextCode \in CodeIds
        /\ codes' = [SetCodes(K, "consumed") EXCEPT ![nextCode] =
                       [state |-> "live", user |-> u, type |-> type, expired |-> FALSE]]
    BY DEF CreateVerificationCode
  <1>2. \A k \in CodeIds : codes[k].state = "live" /\ codes[k].user = u /\ codes[k].type = type
                              => k \in K
    BY WholePage DEF CodesOf, CodeExists
  <1> HIDE DEF K
  <1>3. \A k \in CodeIds \ {nextCode} :
           /\ codes[k] \in Code
           /\ codes'[k] = IF k \in K THEN [codes[k] EXCEPT !.state = "consumed"] ELSE codes[k]
    BY <1>1 DEF CodesTypeOK, SetCodes
  <1>4. \A k \in CodeIds \ {nextCode} :
           /\ codes'[k].user = codes[k].user
           /\ codes'[k].type = codes[k].type
           /\ codes'[k].state = "live" => codes[k].state = "live" /\ k \notin K
    BY <1>3 DEF Code
  <1>5. codes'[nextCode].user = u /\ codes'[nextCode].type = type
    BY <1>1 DEF SetCodes
  <1>6. ASSUME NEW k \in CodeIds \ {nextCode}, codes'[k].state = "live"
        PROVE  ~(codes'[k].user = u /\ codes'[k].type = type)
    BY <1>2, <1>4, <1>6
  <1>7. ASSUME NEW j \in CodeIds, NEW k \in CodeIds,
               codes'[j].state = "live", codes'[k].state = "live",
               codes'[j].user = codes'[k].user, codes'[j].type = codes'[k].type
        PROVE  j = k
    <2>1. CASE j = nextCode \/ k = nextCode
      BY <1>5, <1>6, <1>7, <2>1
    <2>2. CASE j # nextCode /\ k # nextCode
      BY <1>4, <1>7, <2>2 DEF OneLiveCode
    <2> QED BY <2>1, <2>2
  <1> QED BY <1>7 DEF OneLiveCode

(* Every step keeps the property, when the page holds every code.          *)
LEMMA OneLiveStep ==
    ASSUME CodePage >= MaxCodes, IInv, OneLiveCode, [Next]_vars
    PROVE  OneLiveCode'
  <1>a. CodesTypeOK
    BY DEF IInv, TypeOK
  <1>b. ASSUME UNCHANGED codesVars PROVE OneLiveCode'
    BY <1>b DEF codesVars, OneLiveCode
  <1>c. "consumed" \in Spent /\ "deleted" \in Spent
    BY DEF Spent
  <1>1. CASE UserStep
    <2>1. ASSUME NEW u \in Users, TwoFactorEnable(u) PROVE OneLiveCode'
      BY <1>b, <2>1 DEF TwoFactorEnable
    <2>2. ASSUME NEW u \in Users, DeleteUser(u) PROVE OneLiveCode'
      BY <1>a, <1>c, <2>2, SetCodesKeepsOne DEF DeleteUser, DeleteCodesOf
    <2>3. ASSUME NEW u \in Users, NEW type \in CodeTypes, CleanupVerificationCodes(u, type)
          PROVE  OneLiveCode'
      BY <1>a, <1>c, <2>3, SetCodesKeepsOne DEF CleanupVerificationCodes
    <2> QED BY <1>1, <2>1, <2>2, <2>3 DEF UserStep
  <1>2. CASE SettingsStep
    <2>1. ASSUME NEW c \in Calls, RevokeDevices(c) PROVE OneLiveCode'
      BY <1>a, <1>c, <2>1, SetCodesKeepsOne DEF RevokeDevices, RevokeVerificationCodesForUser
    <2>2. ASSUME NEW c \in Calls,
                 \/ \E u \in Users : ReadToConfirm(c, u)
                 \/ Confirm(c)
                 \/ \E u \in Users : TwoFactorDisable(c, u)
                 \/ \E u \in Users : ReadToGenerate(c, u)
                 \/ TwoFactorGenerateBackupCodes(c)
                 \/ Crash(c)
          PROVE  OneLiveCode'
      BY <1>b, <2>2 DEF ReadToConfirm, Confirm, TwoFactorDisable, ReadToGenerate,
                        TwoFactorGenerateBackupCodes, Crash
    <2> QED BY <1>2, <2>1, <2>2 DEF SettingsStep
  <1>3. CASE SignInStep
    <2>1. ASSUME NEW c \in Calls, IssueChallenge(c) \/ CreateTrustedDevice(c)
          PROVE  OneLiveCode'
      BY <1>a, <2>1, CreateKeepsOne DEF IssueChallenge, CreateTrustedDevice
    <2>2. ASSUME NEW c \in Calls, NEW k \in CodeIds, ConsumeChallenge(c, k) PROVE OneLiveCode'
      BY <1>a, <1>c, <2>2, SetCodesKeepsOne DEF ConsumeChallenge, ConsumeVerificationCode
    <2>3. ASSUME NEW c \in Calls,
                 \/ \E u \in Users, device \in CodeIds \cup {0} : HandleTwoFactorSignIn(c, u, device)
                 \/ ReadTrustedDevice(c)
                 \/ RejectCode(c)
                 \/ VerifyTOTP(c)
                 \/ \E b \in BackupCodes : ReadBackupCode(c, b)
                 \/ ConsumeBackupCode(c)
                 \/ \E trustDevice \in BOOLEAN : IssueSession(c, trustDevice)
          PROVE  OneLiveCode'
      BY <1>b, <2>3 DEF HandleTwoFactorSignIn, ReadTrustedDevice, RejectCode, VerifyTOTP,
                        ReadBackupCode, ConsumeBackupCode, IssueSession
    <2> QED BY <1>3, <2>1, <2>2, <2>3 DEF SignInStep
  <1>4. CASE ExpiryStep
    <2>1. PICK k \in CodeIds : codes' = [codes EXCEPT ![k].expired = TRUE]
      BY <1>4 DEF ExpiryStep, ExpireCode
    <2>2. \A j \in CodeIds : /\ codes'[j].user = codes[j].user
                             /\ codes'[j].type = codes[j].type
                             /\ codes'[j].state = codes[j].state
      BY <1>a, <2>1 DEF CodesTypeOK, Code
    <2> QED BY <2>2, NoNewLiveCode
  <1>5. CASE UNCHANGED vars
    BY <1>5, <1>b DEF vars
  <1> QED BY <1>1, <1>2, <1>3, <1>4, <1>5 DEF Next

(* While the page of createVerificationCode holds every code of a user, at *)
(* most one challenge and one trusted device of a user are live.           *)
THEOREM OneChallengeOneDevice ==
    ASSUME CodePage >= MaxCodes
    PROVE  Spec => []OneLiveCode
  <1>1. Init => OneLiveCode
    BY DEF Init, CodesInit, OneLiveCode
  <1>2. IInv /\ OneLiveCode /\ [Next]_vars => OneLiveCode'
    BY OneLiveStep
  <1> QED BY Invariance, <1>1, <1>2, PTL DEF Spec

-----------------------------------------------------------------------------
(* Backup codes, and the calls that remember them                          *)

\* A code that is in a user's row, or in a copy of it that a call has.
Known(u, b) ==
    \/ b \in rows[u].backup
    \/ \E c \in Calls : calls[c].user = u /\ b \in calls[c].row.backup

\* A code was drawn for one user only; it is in that user's row and used at
\* once only if a confirmation has given it back.
BackupCodesFresh ==
    /\ \A b \in used : b[1] < nextDraw
    /\ \A u \in Users :
          /\ \A b \in BackupCodes : Known(u, b) =>
                /\ b[1] < nextDraw
                /\ \A v \in Users \ {u} : ~Known(v, b)
          /\ u \notin revived => rows[u].backup \cap used = {}
          /\ ~rows[u].exists => rows[u].backup = {}

CodesInv == IInv /\ BackupCodesFresh

\* What one step may do to the row of a user: take codes away, give back what
\* a call remembers, replace all by a new draw, or use one up.
WritesRow(u) ==
    /\ \A v \in Users \ {u} : rows'[v] = rows[v] /\ (v \in revived <=> v \in revived')
    /\ ~rows'[u].exists => rows'[u].backup = {}
    /\ \/ /\ rows'[u].backup \subseteq rows[u].backup
          /\ u \in revived => u \in revived' \/ rows'[u].backup = {}
          /\ UNCHANGED <<used, nextDraw>>
       \/ /\ \A b \in rows'[u].backup : Known(u, b)
          /\ u \in revived'
          /\ UNCHANGED <<used, nextDraw>>
       \/ /\ rows'[u].backup \subseteq NewBackupCodes(nextDraw)
          /\ used' = used
          /\ nextDraw' = nextDraw + 1
       \/ \E b \in rows[u].backup :
             /\ rows'[u].backup = rows[u].backup \ {b}
             /\ used' = used \cup {b}
             /\ UNCHANGED <<nextDraw, revived>>

\* A step that writes no row, and what a step may let a call remember.
LeavesRows == UNCHANGED <<rows, used, nextDraw, revived>>

CallsKnow ==
    \A u \in Users, c \in Calls :
        calls'[c].user = u => \A b \in calls'[c].row.backup : Known(u, b)

(* Every step leaves the rows alone or writes one of them in these ways.   *)
LEMMA RowWrites ==
    ASSUME CodesInv, [Next]_vars
    PROVE  LeavesRows \/ \E u \in Users : WritesRow(u)
  <1>a. rows \in [Users -> Row] /\ calls \in [Calls -> Call]
    BY DEF CodesInv, IInv, TypeOK
  <1>b. \A u \in Users : ~rows[u].exists => rows[u].backup = {}
    BY DEF CodesInv, BackupCodesFresh
  <1>1. ASSUME NEW u \in Users, TwoFactorEnable(u) PROVE WritesRow(u)
    <2>1. /\ rows' = [rows EXCEPT ![u] = [exists |-> TRUE, enabled |-> FALSE, secret |-> nextDraw,
                                          backup |-> NewBackupCodes(nextDraw)]]
          /\ nextDraw' = nextDraw + 1 /\ UNCHANGED used /\ revived' = revived \ {u}
      BY <1>1 DEF TwoFactorEnable, Draw, SetTwoFactor
    <2> QED BY <1>a, <2>1 DEF WritesRow
  <1>2. ASSUME NEW u \in Users, DeleteUser(u) PROVE WritesRow(u)
    <2>1. rows' = [rows EXCEPT ![u] = NoRow] /\ UNCHANGED <<nextDraw, used>> /\ revived' = revived \ {u}
      BY <1>2 DEF DeleteUser
    <2>2. NoRow.backup = {}
      BY DEF NoRow
    <2> HIDE DEF NoRow
    <2> QED BY <1>a, <2>1, <2>2 DEF WritesRow
  <1>3. ASSUME NEW c \in Calls, Confirm(c) PROVE \E u \in Users : WritesRow(u)
    <2> DEFINE u == calls[c].user
    <2>1. /\ u \in Users /\ UNCHANGED <<used, nextDraw>>
          /\ SetTwoFactor(u, TRUE, calls[c].row.secret, calls[c].row.backup)
          /\ revived' = IF Revives(c) THEN revived \cup {u} ELSE revived
      BY <1>3 DEF Confirm, CodesInv, IInv, CallsLinked
    <2>2. \A b \in calls[c].row.backup : Known(u, b)
      BY DEF Known
    <2>3. Revives(c) <=> rows[u].exists /\ ~(calls[c].row.backup \subseteq rows[u].backup)
      BY DEF Revives
    <2> HIDE DEF u
    <2>4. CASE rows[u].exists
      <3>1. rows' = [rows EXCEPT ![u] = [exists |-> TRUE, enabled |-> TRUE,
                                         secret |-> calls[c].row.secret,
                                         backup |-> calls[c].row.backup]]
        BY <2>1, <2>4 DEF SetTwoFactor
      <3>2. /\ rows'[u].exists /\ rows'[u].backup = calls[c].row.backup
            /\ \A v \in Users \ {u} : rows'[v] = rows[v]
        BY <1>a, <2>1, <3>1
      <3>3. CASE calls[c].row.backup \subseteq rows[u].backup
        BY <2>1, <2>3, <3>2, <3>3 DEF WritesRow
      <3>4. CASE ~(calls[c].row.backup \subseteq rows[u].backup)
        BY <2>1, <2>2, <2>3, <2>4, <3>2, <3>4 DEF WritesRow
      <3> QED BY <3>3, <3>4
    <2>5. CASE ~rows[u].exists
      BY <1>b, <2>1, <2>3, <2>5 DEF SetTwoFactor, WritesRow
    <2> QED BY <2>4, <2>5
  <1>4. ASSUME NEW c \in Calls, NEW u \in Users, TwoFactorDisable(c, u) PROVE WritesRow(u)
    <2>1. /\ rows' = [rows EXCEPT ![u] = [exists |-> TRUE, enabled |-> FALSE, secret |-> 0,
                                          backup |-> {}]]
          /\ UNCHANGED <<used, nextDraw>> /\ revived' = revived \ {u}
      BY <1>4 DEF TwoFactorDisable, SetTwoFactor
    <2> QED BY <1>a, <2>1 DEF WritesRow
  <1>5. ASSUME NEW c \in Calls, TwoFactorGenerateBackupCodes(c)
        PROVE  \E u \in Users : WritesRow(u)
    <2> DEFINE u == calls[c].user
    <2>1. /\ u \in Users /\ UNCHANGED used /\ nextDraw' = nextDraw + 1
          /\ SetTwoFactor(u, calls[c].row.enabled, calls[c].row.secret, NewBackupCodes(nextDraw))
          /\ revived' = revived \ {u}
      BY <1>5 DEF TwoFactorGenerateBackupCodes, Draw, CodesInv, IInv, CallsLinked
    <2> HIDE DEF u
    <2>2. CASE rows[u].exists
      <3>1. rows' = [rows EXCEPT ![u] =
                       [exists |-> TRUE, enabled |-> calls[c].row.enabled,
                        secret |-> calls[c].row.secret, backup |-> NewBackupCodes(nextDraw)]]
        BY <2>1, <2>2 DEF SetTwoFactor
      <3>2. WritesRow(u)
        BY <1>a, <2>1, <3>1 DEF WritesRow
      <3> QED BY <2>1, <3>2
    <2>3. CASE ~rows[u].exists
      BY <1>b, <2>1, <2>3 DEF SetTwoFactor, WritesRow
    <2> QED BY <2>2, <2>3
  <1>6. ASSUME NEW c \in Calls, ConsumeBackupCode(c)
        PROVE  LeavesRows \/ \E u \in Users : WritesRow(u)
    <2> DEFINE u == calls[c].user
               b == calls[c].backup
    <2>1. u \in Users /\ UNCHANGED <<nextDraw, revived>>
      BY <1>6 DEF ConsumeBackupCode, CodesInv, IInv, CallsLinked
    <2>2. CASE rows[u].exists /\ b \in rows[u].backup
      <3>1. rows' = [rows EXCEPT ![u].backup = @ \ {b}] /\ used' = used \cup {b}
        BY <1>6, <2>2 DEF ConsumeBackupCode
      <3>2. /\ rows'[u].backup = rows[u].backup \ {b}
            /\ rows'[u].exists = rows[u].exists
            /\ \A v \in Users \ {u} : rows'[v] = rows[v]
        BY <1>a, <2>1, <3>1 DEF Row
      <3> QED BY <2>1, <2>2, <3>1, <3>2 DEF WritesRow
    <2>3. CASE ~(rows[u].exists /\ b \in rows[u].backup)
      BY <1>6, <2>1, <2>3 DEF ConsumeBackupCode, LeavesRows
    <2> QED BY <2>2, <2>3
  <1>7. CASE UserStep
    BY <1>7, <1>1, <1>2 DEF UserStep, LeavesRows
  <1>8. CASE SettingsStep
    <2>1. ASSUME NEW c \in Calls,
                 \/ \E u \in Users : ReadToConfirm(c, u)
                 \/ RevokeDevices(c)
                 \/ \E u \in Users : ReadToGenerate(c, u)
                 \/ Crash(c)
          PROVE  LeavesRows
      BY <2>1 DEF ReadToConfirm, RevokeDevices, ReadToGenerate, Crash, LeavesRows
    <2> QED BY <1>8, <1>3, <1>4, <1>5, <2>1 DEF SettingsStep
  <1>9. CASE SignInStep
    <2>1. ASSUME NEW c \in Calls,
                 \/ \E u \in Users, device \in CodeIds \cup {0} : HandleTwoFactorSignIn(c, u, device)
                 \/ ReadTrustedDevice(c)
                 \/ IssueChallenge(c)
                 \/ \E k \in CodeIds : ConsumeChallenge(c, k)
                 \/ RejectCode(c)
                 \/ VerifyTOTP(c)
                 \/ \E b \in BackupCodes : ReadBackupCode(c, b)
                 \/ \E trustDevice \in BOOLEAN : IssueSession(c, trustDevice)
                 \/ CreateTrustedDevice(c)
          PROVE  LeavesRows
      BY <2>1 DEF HandleTwoFactorSignIn, ReadTrustedDevice, IssueChallenge, ConsumeChallenge,
                  RejectCode, VerifyTOTP, ReadBackupCode, IssueSession, CreateTrustedDevice,
                  LeavesRows
    <2> QED BY <1>9, <1>6, <2>1 DEF SignInStep
  <1>10. CASE ExpiryStep
    BY <1>10 DEF ExpiryStep, LeavesRows
  <1>11. CASE UNCHANGED vars
    BY <1>11 DEF vars, LeavesRows
  <1> QED BY <1>7, <1>8, <1>9, <1>10, <1>11 DEF Next

(* A call that moves remembers nothing, what it remembered, or the row it  *)
(* has just read.                                                          *)
LEMMA MoveKnow ==
    ASSUME IInv, NEW c \in Calls, NEW q, calls' = [calls EXCEPT ![c] = q],
           \/ q.row.backup = {}
           \/ q.user = calls[c].user /\ q.row = calls[c].row
           \/ q.row = rows[q.user]
    PROVE  CallsKnow
  <1>1. /\ calls'[c] = q
        /\ \A d \in Calls \ {c} : calls'[d] = calls[d]
    BY DEF IInv, TypeOK
  <1>2. ASSUME NEW d \in Calls, NEW b \in calls'[d].row.backup
        PROVE  Known(calls'[d].user, b)
    <2>1. CASE d = c
      BY <1>1, <1>2, <2>1 DEF Known
    <2>2. CASE d # c
      BY <1>1, <1>2, <2>2 DEF Known
    <2> QED BY <2>1, <2>2
  <1> QED BY <1>2 DEF CallsKnow

(* So what the calls remember after a step is known before it.             *)
LEMMA KnowStep ==
    ASSUME IInv, [Next]_vars
    PROVE  CallsKnow
  <1>a. calls \in [Calls -> Call] /\ NoRow.backup = {} /\ Idle.row.backup = {}
    BY DEF IInv, TypeOK, NoRow, Idle
  <1>b. ASSUME UNCHANGED calls PROVE CallsKnow
    BY <1>b DEF CallsKnow, Known
  <1>c. ASSUME NEW c \in Calls, Return(c) PROVE CallsKnow
    BY <1>a, <1>c, MoveKnow DEF Return
  <1>1. ASSUME NEW c \in Calls, NEW u \in Users, ReadToConfirm(c, u) \/ ReadToGenerate(c, u)
        PROVE  CallsKnow
    <2>1. PICK op \in {"confirm", "generate"} :
             calls' = [calls EXCEPT ![c] = [Idle EXCEPT !.op = op, !.user = u, !.row = rows[u]]]
      BY <1>1 DEF ReadToConfirm, ReadToGenerate, Start
    <2> DEFINE q == [Idle EXCEPT !.op = op, !.user = u, !.row = rows[u]]
    <2>2. q.row = rows[q.user]
      BY DEF Idle
    <2>3. calls' = [calls EXCEPT ![c] = q]
      BY <2>1
    <2> HIDE DEF q
    <2> QED BY <2>2, <2>3, MoveKnow
  <1>2. ASSUME NEW c \in Calls, NEW u \in Users, TwoFactorDisable(c, u) PROVE CallsKnow
    <2> DEFINE q == [Idle EXCEPT !.op = "disable", !.user = u]
    <2>1. q.row.backup = {}
      BY DEF Idle, NoRow
    <2>2. calls' = [calls EXCEPT ![c] = q]
      BY <1>2 DEF TwoFactorDisable, Start
    <2> HIDE DEF q
    <2> QED BY <2>1, <2>2, MoveKnow
  <1>3. ASSUME NEW c \in Calls,
               \/ Confirm(c) \/ RevokeDevices(c) \/ TwoFactorGenerateBackupCodes(c) \/ Crash(c)
               \/ IssueChallenge(c) \/ RejectCode(c) \/ CreateTrustedDevice(c)
        PROVE  CallsKnow
    BY <1>3, <1>c DEF Confirm, RevokeDevices, TwoFactorGenerateBackupCodes, Crash,
                      IssueChallenge, RejectCode, CreateTrustedDevice
  <1>4. ASSUME NEW c \in Calls, NEW u \in Users, NEW device \in CodeIds \cup {0},
               HandleTwoFactorSignIn(c, u, device)
        PROVE  CallsKnow
    <2> DEFINE q == [Idle EXCEPT !.op = IF ~rows[u].enabled THEN "session"
                                        ELSE IF device # 0 THEN "device" ELSE "challenge",
                                 !.user = u, !.row = rows[u],
                                 !.code = IF rows[u].enabled THEN device ELSE 0]
    <2>1. q.row = rows[q.user]
      BY DEF Idle
    <2>2. calls' = [calls EXCEPT ![c] = q]
      BY <1>4 DEF HandleTwoFactorSignIn, Start
    <2> HIDE DEF q
    <2> QED BY <2>1, <2>2, MoveKnow
  <1>5. ASSUME NEW c \in Calls, NEW k \in CodeIds, ConsumeChallenge(c, k) PROVE CallsKnow
    <2> DEFINE q == [Idle EXCEPT !.op = "resolved", !.user = codes[k].user, !.code = k]
    <2>1. q.row.backup = {}
      BY DEF Idle, NoRow
    <2>2. calls' = [calls EXCEPT ![c] = q]
      BY <1>5 DEF ConsumeChallenge, Start
    <2> HIDE DEF q
    <2> QED BY <2>1, <2>2, MoveKnow
  \* A call that goes on with what it has.
  <1>d. ASSUME NEW c \in Calls, NEW op, NEW code, NEW b,
               calls' = [calls EXCEPT ![c] = [@ EXCEPT !.op = op, !.code = code, !.backup = b]]
        PROVE  CallsKnow
    <2> DEFINE q == [calls[c] EXCEPT !.op = op, !.code = code, !.backup = b]
    <2>1. q.user = calls[c].user /\ q.row = calls[c].row
      BY <1>a DEF Call
    <2>2. calls' = [calls EXCEPT ![c] = q]
      BY <1>d
    <2> HIDE DEF q
    <2> QED BY <2>1, <2>2, MoveKnow
  <1>6. ASSUME NEW c \in Calls, ReadTrustedDevice(c) PROVE CallsKnow
    <2>1. PICK op \in {"session", "challenge"} :
             calls' = [calls EXCEPT ![c] = [@ EXCEPT !.op = op, !.code = 0,
                                                     !.backup = calls[c].backup]]
      BY <1>6, <1>a DEF ReadTrustedDevice, Call
    <2> QED BY <1>d, <2>1
  <1>7. ASSUME NEW c \in Calls, VerifyTOTP(c) PROVE CallsKnow
    <2>1. calls' = [calls EXCEPT ![c] = [@ EXCEPT !.op = "session", !.code = calls[c].code,
                                                  !.backup = calls[c].backup]]
      BY <1>7, <1>a DEF VerifyTOTP, Goto, Call
    <2> QED BY <1>d, <2>1
  <1>8. ASSUME NEW c \in Calls, NEW b \in BackupCodes, ReadBackupCode(c, b) PROVE CallsKnow
    <2>1. calls' = [calls EXCEPT ![c] = [@ EXCEPT !.op = "backup", !.code = calls[c].code,
                                                  !.backup = b]]
      BY <1>8, <1>a DEF ReadBackupCode, Call
    <2> QED BY <1>d, <2>1
  <1>9. ASSUME NEW c \in Calls, ConsumeBackupCode(c) PROVE CallsKnow
    <2>1. CASE Return(c)
      BY <1>c, <2>1
    <2>2. CASE calls' = [calls EXCEPT ![c].op = "session", ![c].backup = NoCode]
      <3>1. calls' = [calls EXCEPT ![c] = [@ EXCEPT !.op = "session", !.code = calls[c].code,
                                                    !.backup = NoCode]]
        BY <1>a, <2>2 DEF Call
      <3> QED BY <1>d, <3>1
    <2> QED BY <1>9, <2>1, <2>2 DEF ConsumeBackupCode
  <1>10. ASSUME NEW c \in Calls, NEW trustDevice \in BOOLEAN, IssueSession(c, trustDevice)
         PROVE  CallsKnow
    <2>1. CASE Return(c)
      BY <1>c, <2>1
    <2>2. CASE Goto(c, "trust")
      <3>1. calls' = [calls EXCEPT ![c] = [@ EXCEPT !.op = "trust", !.code = calls[c].code,
                                                    !.backup = calls[c].backup]]
        BY <1>a, <2>2 DEF Goto, Call
      <3> QED BY <1>d, <3>1
    <2> QED BY <1>10, <2>1, <2>2 DEF IssueSession
  <1>11. CASE UserStep
    BY <1>11, <1>b DEF UserStep, TwoFactorEnable, DeleteUser
  <1>12. CASE SettingsStep
    BY <1>12, <1>1, <1>2, <1>3 DEF SettingsStep
  <1>13. CASE SignInStep
    BY <1>13, <1>3, <1>4, <1>5, <1>6, <1>7, <1>8, <1>9, <1>10 DEF SignInStep
  <1>14. CASE ExpiryStep
    BY <1>14, <1>b DEF ExpiryStep
  <1>15. CASE UNCHANGED vars
    BY <1>15, <1>b DEF vars
  <1> QED BY <1>11, <1>12, <1>13, <1>14, <1>15 DEF Next

(* What a step writes keeps the codes fresh.                               *)
LEMMA FreshStep ==
    ASSUME CodesInv, [Next]_vars
    PROVE  BackupCodesFresh'
  <1>1. /\ nextDraw \in Nat /\ nextDraw' \in Nat
        /\ used \subseteq BackupCodes
        /\ \A u \in Users : rows[u].backup \subseteq BackupCodes
    BY RowsStep, TwoFactorAssumption DEF CodesInv, IInv, TypeOK, Row
  <1>2. \A b \in BackupCodes : b[1] \in Nat
    BY TwoFactorAssumption DEF BackupCodes, Draws
  <1>3. BackupCodesFresh
    BY DEF CodesInv
  <1>4. CallsKnow
    BY KnowStep DEF CodesInv
  \* What is known after a step was known before it, or is in a row it wrote.
  <1>5. ASSUME NEW u \in Users, NEW b, Known(u, b)' PROVE Known(u, b) \/ b \in rows'[u].backup
    BY <1>4, <1>5 DEF Known, CallsKnow
  <1>6. CASE LeavesRows
    <2>1. \A u \in Users, b \in BackupCodes : Known(u, b)' => Known(u, b)
      BY <1>5, <1>6 DEF LeavesRows, Known
    <2> QED BY <1>3, <1>6, <2>1 DEF LeavesRows, BackupCodesFresh
  <1>7. ASSUME NEW u \in Users, WritesRow(u) PROVE BackupCodesFresh'
    <2>1. \A v \in Users \ {u} : rows'[v] = rows[v] /\ (v \in revived <=> v \in revived')
      BY <1>7 DEF WritesRow
    <2>2. \A v \in Users : ~rows'[v].exists => rows'[v].backup = {}
      BY <1>3, <1>7, <2>1 DEF WritesRow, BackupCodesFresh
    <2>3. \A v \in Users \ {u} : \A b : Known(v, b)' => Known(v, b)
      BY <1>5, <2>1 DEF Known
    <2>4. ASSUME \A b : Known(u, b)' => Known(u, b), nextDraw' = nextDraw
          PROVE  \A v \in Users : \A b \in BackupCodes : Known(v, b)' =>
                    /\ b[1] < nextDraw'
                    /\ \A w \in Users \ {v} : ~Known(w, b)'
      <3>1. \A v \in Users : \A b : Known(v, b)' => Known(v, b)
        BY <2>3, <2>4
      <3> QED BY <1>3, <2>4, <3>1 DEF BackupCodesFresh
    <2>5. CASE /\ rows'[u].backup \subseteq rows[u].backup
               /\ u \in revived => u \in revived' \/ rows'[u].backup = {}
               /\ UNCHANGED <<used, nextDraw>>
      <3>1. \A b : Known(u, b)' => Known(u, b)
        BY <1>5, <2>5 DEF Known
      <3>2. \A v \in Users : v \notin revived' => rows'[v].backup \cap used' = {}
        BY <1>3, <2>1, <2>5 DEF BackupCodesFresh
      <3> QED BY <1>3, <2>2, <2>4, <2>5, <3>1, <3>2 DEF BackupCodesFresh
    <2>6. CASE /\ \A b \in rows'[u].backup : Known(u, b)
               /\ u \in revived'
               /\ UNCHANGED <<used, nextDraw>>
      <3>1. \A b : Known(u, b)' => Known(u, b)
        BY <1>5, <2>6
      <3>2. \A v \in Users : v \notin revived' => rows'[v].backup \cap used' = {}
        BY <1>3, <2>1, <2>6 DEF BackupCodesFresh
      <3> QED BY <1>3, <2>2, <2>4, <2>6, <3>1, <3>2 DEF BackupCodesFresh
    <2>7. CASE /\ rows'[u].backup \subseteq NewBackupCodes(nextDraw)
               /\ used' = used
               /\ nextDraw' = nextDraw + 1
      <3>1. \A b \in BackupCodes : b[1] < nextDraw => b[1] < nextDraw' /\ b[1] # nextDraw
        BY <1>1, <1>2, <2>7
      <3>2. \A b \in rows'[u].backup : b[1] = nextDraw /\ b[1] < nextDraw'
        BY <1>1, <2>7 DEF NewBackupCodes
      <3>3. \A v \in Users : \A b \in BackupCodes : Known(v, b) => b[1] < nextDraw
        BY <1>3 DEF BackupCodesFresh
      <3>4. ASSUME NEW v \in Users, NEW b \in BackupCodes, Known(v, b)'
            PROVE  /\ b[1] < nextDraw'
                   /\ \A w \in Users \ {v} : ~Known(w, b)'
        <4>1. Known(v, b) \/ (v = u /\ b[1] = nextDraw)
          BY <1>5, <2>3, <3>2, <3>4
        <4>2. \A w \in Users : Known(w, b)' => Known(w, b) \/ (w = u /\ b[1] = nextDraw)
          BY <1>5, <2>3, <3>2
        <4>3. CASE Known(v, b)
          <5>1. b[1] < nextDraw' /\ b[1] # nextDraw
            BY <3>1, <3>3, <4>3
          <5> QED BY <1>3, <4>2, <4>3, <5>1 DEF BackupCodesFresh
        <4>4. CASE v = u /\ b[1] = nextDraw
          <5>1. \A w \in Users : ~Known(w, b)
            BY <3>1, <3>3, <4>4
          <5> QED BY <1>1, <2>7, <4>2, <4>4, <5>1
        <4> QED BY <4>1, <4>3, <4>4
      <3>5. \A v \in Users : v \notin revived' => rows'[v].backup \cap used' = {}
        <4>1. \A b \in used : b[1] # nextDraw
          BY <1>1, <1>3, <3>1 DEF BackupCodesFresh
        <4>2. rows'[u].backup \cap used' = {}
          BY <2>7, <3>2, <4>1
        <4> QED BY <1>3, <2>1, <2>7, <4>2 DEF BackupCodesFresh
      <3>6. \A b \in used' : b[1] < nextDraw'
        BY <1>1, <1>3, <2>7, <3>1 DEF BackupCodesFresh
      <3> QED BY <2>2, <3>4, <3>5, <3>6 DEF BackupCodesFresh
    <2>8. ASSUME NEW b \in rows[u].backup,
                 rows'[u].backup = rows[u].backup \ {b},
                 used' = used \cup {b},
                 UNCHANGED <<nextDraw, revived>>
          PROVE  BackupCodesFresh'
      <3>1. \A a : Known(u, a)' => Known(u, a)
        BY <1>5, <2>8 DEF Known
      <3>2. b \in BackupCodes /\ Known(u, b) /\ b[1] < nextDraw
        BY <1>1, <1>3 DEF Known, BackupCodesFresh
      <3>3. \A v \in Users \ {u} : b \notin rows[v].backup
        BY <1>3, <3>2 DEF BackupCodesFresh, Known
      <3>4. \A v \in Users : v \notin revived' => rows'[v].backup \cap used' = {}
        BY <1>3, <2>1, <2>8, <3>3 DEF BackupCodesFresh
      <3>5. \A a \in used' : a[1] < nextDraw'
        BY <1>3, <2>8, <3>2 DEF BackupCodesFresh
      <3> QED BY <2>2, <2>4, <2>8, <3>1, <3>4, <3>5 DEF BackupCodesFresh
    <2> QED BY <1>7, <2>5, <2>6, <2>7, <2>8 DEF WritesRow
  <1> QED BY <1>6, <1>7, RowWrites

(* A call that was about to consume a backup code and goes on to a session *)
(* found that code in the row.                                             *)
LEMMA ConsumedFromRow ==
    ASSUME IInv, [Next]_vars, NEW c \in Calls,
           calls[c].op = "backup", calls'[c].op = "session"
    PROVE  calls[c].user \in Users /\ calls[c].backup \in rows[calls[c].user].backup
  <1>a. calls \in [Calls -> Call] /\ Idle.op = "idle"
    BY IdleCall DEF IInv, TypeOK
  <1>b. ~UNCHANGED calls
    OBVIOUS
  \* A step of another call, or one that starts or ends this one.
  <1>c. ASSUME NEW d \in Calls, NEW q, Start(d, q) PROVE FALSE
    BY <1>a, <1>c DEF Start
  <1>d. ASSUME NEW d \in Calls, Return(d) PROVE FALSE
    BY <1>a, <1>d DEF Return
  <1>e. ASSUME NEW d \in Calls, calls[d].op # "backup",
               \A e \in Calls \ {d} : calls'[e] = calls[e]
        PROVE  FALSE
    BY <1>e
  <1>1. ASSUME NEW d \in Calls, ConsumeBackupCode(d)
        PROVE  calls[c].user \in Users /\ calls[c].backup \in rows[calls[c].user].backup
    <2>1. d = c
      BY <1>1, <1>a DEF ConsumeBackupCode, Return
    <2>2. calls[c].user \in Users
      BY DEF IInv, CallsLinked
    <2>3. calls[c].backup \in rows[calls[c].user].backup
      BY <1>1, <1>d, <2>1 DEF ConsumeBackupCode
    <2> QED BY <2>2, <2>3
  <1>2. CASE UserStep
    BY <1>2, <1>b DEF UserStep, TwoFactorEnable, DeleteUser
  <1>3. CASE SettingsStep
    BY <1>3, <1>c, <1>d DEF SettingsStep, ReadToConfirm, Confirm, TwoFactorDisable,
                            RevokeDevices, ReadToGenerate, TwoFactorGenerateBackupCodes, Crash
  <1>4. ASSUME NEW d \in Calls,
               \/ \E u \in Users, device \in CodeIds \cup {0} : HandleTwoFactorSignIn(d, u, device)
               \/ IssueChallenge(d)
               \/ \E k \in CodeIds : ConsumeChallenge(d, k)
               \/ RejectCode(d)
               \/ CreateTrustedDevice(d)
        PROVE  FALSE
    BY <1>4, <1>c, <1>d DEF HandleTwoFactorSignIn, IssueChallenge, ConsumeChallenge, RejectCode,
                            CreateTrustedDevice
  <1>5. ASSUME NEW d \in Calls,
               \/ ReadTrustedDevice(d)
               \/ VerifyTOTP(d)
               \/ \E b \in BackupCodes : ReadBackupCode(d, b)
        PROVE  FALSE
    <2>1. calls[d].op # "backup"
      BY <1>5 DEF ReadTrustedDevice, VerifyTOTP, ReadBackupCode
    <2>2. \A e \in Calls \ {d} : calls'[e] = calls[e]
      BY <1>5, <1>a DEF ReadTrustedDevice, VerifyTOTP, Goto, ReadBackupCode
    <2> QED BY <1>e, <2>1, <2>2
  <1>6. ASSUME NEW d \in Calls, NEW trustDevice \in BOOLEAN, IssueSession(d, trustDevice)
        PROVE  FALSE
    <2>1. calls[d].op # "backup"
      BY <1>6 DEF IssueSession
    <2>2. \A e \in Calls \ {d} : calls'[e] = calls[e]
      BY <1>6, <1>a DEF IssueSession, Goto, Return
    <2> QED BY <1>e, <2>1, <2>2
  <1>7. CASE SignInStep
    BY <1>7, <1>1, <1>4, <1>5, <1>6 DEF SignInStep
  <1>8. CASE ExpiryStep
    BY <1>8, <1>b DEF ExpiryStep
  <1>9. CASE UNCHANGED vars
    BY <1>9, <1>b DEF vars
  <1> QED BY <1>2, <1>3, <1>7, <1>8, <1>9 DEF Next

(* The codes stay fresh in every reachable state.                          *)
THEOREM CodesInvariance == Spec => []CodesInv
  <1>1. Init => BackupCodesFresh
    <2> SUFFICES ASSUME Init PROVE BackupCodesFresh
      OBVIOUS
    <2>1. \A u \in Users : rows[u].backup = {}
      BY DEF Init, NoRow
    <2>2. \A c \in Calls : calls[c].row.backup = {}
      BY DEF Init, Idle, NoRow
    <2>3. used = {}
      BY DEF Init
    <2> QED BY <2>1, <2>2, <2>3 DEF BackupCodesFresh, Known
  <1>2. CodesInv /\ [Next]_vars => CodesInv'
    BY InvStep, FreshStep DEF CodesInv
  <1> QED BY <1>1, <1>2, InvInit, PTL DEF Spec, CodesInv

(* A backup code completes one sign-in at most, however many present it at *)
(* the same time and whatever the user does to the settings meanwhile,     *)
(* unless a confirmation has given it back: twoFactorVerifyTOTP writes the *)
(* codes it has read.                                                      *)
THEOREM BackupCodeOnce == Spec => BackupCodeUsedOnce
  <1>1. CodesInv /\ [Next]_vars =>
           [\A c \in Calls :
               /\ calls[c].op = "backup"
               /\ calls'[c].op = "session"
               /\ calls[c].user \notin revived
               => calls[c].backup \notin used]_vars
    <2> SUFFICES ASSUME CodesInv, [Next]_vars, NEW c \in Calls,
                        calls[c].op = "backup", calls'[c].op = "session",
                        calls[c].user \notin revived
                 PROVE  calls[c].backup \notin used
      OBVIOUS
    <2>1. calls[c].user \in Users /\ calls[c].backup \in rows[calls[c].user].backup
      BY ConsumedFromRow DEF CodesInv
    <2> QED BY <2>1 DEF CodesInv, BackupCodesFresh
  <1> QED BY CodesInvariance, <1>1, PTL DEF Spec, BackupCodeUsedOnce

=============================================================================
