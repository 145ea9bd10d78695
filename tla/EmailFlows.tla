----------------------------- MODULE EmailFlows -----------------------------
(***************************************************************************)
(* What a mail proves: sign-up with e-mail verification, password reset,   *)
(* e-mail change, sign-in by one-time password (OTP) or magic link, and    *)
(* the linking of anonymous users.                                         *)
(*   component/identity.ts            provisionFromIdentity, verifyEmail,  *)
(*                                    resetPassword, changeEmail           *)
(*   component/native/{verifiers,anonymous,accounts,users}.ts              *)
(*   convex-runtime/native/{provider,emailOtp,magicLink,anonymous}.ts      *)
(*                                                                         *)
(* A mail is read by whoever owns the address, and holding the mail is     *)
(* holding its code.  A password is known by the address whose mail set    *)
(* it, or NoMail when it was chosen at sign-up.  Sessions are in           *)
(* NativeSessions; here a sign-in only is answered with one or without.    *)
(***************************************************************************)
EXTENDS VerificationCodes

CONSTANTS
    Emails,         \* addresses, normalized
    NoMail,         \* no address: the synthetic one of an anonymous user
    Methods,        \* sign-in by mail: providers "emailOtp", "magicLink"
    DisableSignUp,  \* the option of both providers
    Calls,          \* actions in progress
    NoCall,         \* a call that is idle
    MaxMails,       \* bound: codes and verifiers together
    MaxVerifiers,   \* bound: rows of authVerifiers ever inserted
    MaxIdentities,  \* bound: rows of auth_identities ever inserted
    MaxAccounts     \* bound: rows of authAccounts ever inserted

ASSUME EmailsAssumption ==
    /\ NoMail \notin Emails
    /\ DisableSignUp \in BOOLEAN
    /\ CodeTypes = {"email_verification", "password_reset", "email_change"}
    /\ "password" \notin Methods /\ "none" \notin Methods
    /\ MaxMails \in Nat /\ MaxVerifiers \in Nat /\ MaxIdentities \in Nat /\ MaxAccounts \in Nat

VARIABLES
    users,       \* users
    identities,  \* auth_identities of the providers password, emailOtp, magicLink
    accounts,    \* authAccounts of the provider password
    linked,      \* authAccounts of the provider email: user and subject
    verifiers,   \* authVerifiers; over is consumed or expired
    mail,        \* of each code: where it went, and whether its hash binds the address
    calls,       \* the actions in progress
    proven,      \* history: addresses whose mail was used for a user
    signedUp,    \* history: users that signUp created
    moved,       \* history: addresses a user has moved away from, or linkAnonymousUser wrote
    relinked,    \* history: users whose real address linkAnonymousUser replaced
    used, reused \* history: mails that had an effect, and a second one

rowVars == <<users, identities, accounts, linked>>
historyVars == <<proven, signedUp, moved, relinked, used, reused>>
vars == <<codesVars, rowVars, verifiers, mail, calls, historyVars>>

VerifierIds == 1 .. MaxVerifiers
IdentityIds == 1 .. MaxIdentities
AccountIds == 1 .. MaxAccounts
Addresses == Emails \cup {NoMail}
Mails == ({"code"} \X CodeIds) \cup ({"verifier"} \X VerifierIds)

User == [live : BOOLEAN, email : Addresses, verified : BOOLEAN, anonymous : BOOLEAN]
\* A password identity is known by random strings, an identity of a mail by addresses.
Identity == [provider : {"none"}, user : {Nobody}, key : {NoMail}, subject : {NoMail}]
       \cup [provider : {"password"}, user : Users, key : {NoMail}, subject : {NoMail}]
       \cup [provider : Methods, user : Users, key : Emails, subject : Emails]
Account == [identity : {0} \cup IdentityIds, by : Addresses]
Verifier == [state : {"none", "live", "over"},
             method : {"none"} \cup Methods, email : Addresses]
Call == [op : {"lookUp", "provision", "answered",
               "readCode", "readIdentity", "firstPassword", "consumeCode",
               "readTarget", "link", "linkAccount"},
         email : Addresses, user : Users \cup {Nobody}, row : Nat,
         method : {"none"} \cup Methods, identity : {0} \cup IdentityIds, session : BOOLEAN]

EmailTypeOK ==
    /\ CodesTypeOK
    /\ users \in [Users -> User]
    /\ identities \in [IdentityIds -> Identity]
    /\ accounts \in [AccountIds -> Account]
    /\ linked \subseteq Users \X Emails
    /\ verifiers \in [VerifierIds -> Verifier]
    /\ mail \in [CodeIds -> [to : Addresses, otp : BOOLEAN]]
    /\ calls \in [Calls -> Call \cup {NoCall}]
    /\ proven \in [Users -> SUBSET Emails]
    /\ signedUp \subseteq Users /\ relinked \subseteq Users
    /\ moved \subseteq Emails
    /\ used \subseteq Mails /\ reused \subseteq used

Init ==
    /\ CodesInit
    /\ users = [u \in Users |->
                  [live |-> FALSE, email |-> NoMail, verified |-> FALSE, anonymous |-> FALSE]]
    /\ identities = [i \in IdentityIds |->
                       [provider |-> "none", user |-> Nobody, key |-> NoMail, subject |-> NoMail]]
    /\ accounts = [a \in AccountIds |-> [identity |-> 0, by |-> NoMail]]
    /\ linked = {}
    /\ verifiers = [n \in VerifierIds |->
                      [state |-> "none", method |-> "none", email |-> NoMail]]
    /\ mail = [k \in CodeIds |-> [to |-> NoMail, otp |-> FALSE]]
    /\ calls = [c \in Calls |-> NoCall]
    /\ proven = [u \in Users |-> {}]
    /\ signedUp = {} /\ moved = {} /\ relinked = {}
    /\ used = {} /\ reused = {}

-----------------------------------------------------------------------------
(* Rows *)

First(S) == CHOOSE i \in S : \A j \in S : i <= j
FirstOf(S) == IF S = {} THEN {} ELSE {First(S)}

UsersAt(e) == {u \in Users : users[u].live /\ users[u].email = e}

\* getOneFrom and .unique() throw when the index holds two rows.
Ambiguous(e) == Cardinality(UsersAt(e)) > 1

FreshUsers == {u \in Users : ~users[u].live}

\* A user with the address, or a new row when there is none.
UserOrNew(e) == IF UsersAt(e) # {} THEN UsersAt(e) ELSE FreshUsers

FreshIdentities == FirstOf({i \in IdentityIds : identities[i].provider = "none"})
FreshAccounts == FirstOf({a \in AccountIds : accounts[a].identity = 0})
FreshVerifiers == FirstOf({n \in VerifierIds : verifiers[n].state = "none"})

\* findIdentityByIdentityId, then findIdentityByProviderIssuerSubject.
MailIdentity(m, e) ==
    LET byKey == {i \in IdentityIds : identities[i].provider = m /\ identities[i].key = e}
        bySubject == {i \in IdentityIds :
                        identities[i].provider = m /\ identities[i].subject = e}
    IN IF byKey # {} THEN byKey ELSE FirstOf(bySubject)

\* findIdentityByUserAndProvider
IdentityOf(u, provider) ==
    FirstOf({i \in IdentityIds : identities[i].provider = provider /\ identities[i].user = u})

\* getUserAndAccount: the one account whose password signs u in.
AccountOf(u) ==
    FirstOf({a \in AccountIds : accounts[a].identity \in IdentityOf(u, "password")})

\* The bound on the mails of a behaviour.
Postage ==
    nextCode - 1 + Cardinality({n \in VerifierIds : verifiers[n].state # "none"}) < MaxMails

PatchUser(u, e, verified) ==
    /\ users' = [users EXCEPT ![u] = [@ EXCEPT !.live = TRUE, !.email = e, !.verified = verified]]
    /\ moved' = moved \cup ({users[u].email} \ {e, NoMail})

InsertPassword(u, i, a, by) ==
    /\ identities' = [identities EXCEPT ![i] =
                        [provider |-> "password", user |-> u, key |-> NoMail, subject |-> NoMail]]
    /\ accounts' = [accounts EXCEPT ![a] = [identity |-> i, by |-> by]]

Use(m) ==
    /\ used' = used \cup {m}
    /\ reused' = reused \cup ({m} \cap used)

Prove(u, e) == proven' = [proven EXCEPT ![u] = @ \cup {e}]

CodeMail(k, e, otp) == mail' = [mail EXCEPT ![k] = [to |-> e, otp |-> otp]]

Idle(c) == calls[c] = NoCall
At(c, op) == ~Idle(c) /\ calls[c].op = op
Goto(c, op) == calls' = [calls EXCEPT ![c].op = op]
Return(c) == calls' = [calls EXCEPT ![c] = NoCall]
\* What was asked is forgotten with the answer.
Answer(c, session) ==
    calls' = [calls EXCEPT ![c] = [op |-> "answered", email |-> NoMail, user |-> Nobody, row |-> 0,
                                   method |-> "none", identity |-> 0, session |-> session]]
Begin(c, op, e, u, row, m) ==
    /\ Idle(c)
    /\ calls' = [calls EXCEPT ![c] = [op |-> op, email |-> e, user |-> u, row |-> row,
                                      method |-> m, identity |-> 0, session |-> FALSE]]

-----------------------------------------------------------------------------
(* Sign-up, and asking for a code *)

\* The code of signUp, when the provider is configured to send one.
FirstCode(u, e, sendMail) ==
    \/ /\ sendMail /\ Postage
       /\ CreateVerificationCode(u, "email_verification")
       /\ CodeMail(nextCode, e, FALSE)
    \/ ~sendMail /\ UNCHANGED <<codesVars, mail>>

\* Mutant: allowLink left at its default.
SignUpLinks(e, sendMail) ==
    /\ \E u \in UserOrNew(e), i \in FreshIdentities, a \in FreshAccounts :
          /\ PatchUser(u, e, FALSE)
          /\ InsertPassword(u, i, a, NoMail)
          /\ signedUp' = signedUp \cup (UserOrNew(e) \ UsersAt(e))
          /\ FirstCode(u, e, sendMail)
    /\ UNCHANGED <<linked, verifiers, calls, proven, relinked, used, reused>>

\* signUp: provisionFromIdentity with allowLink false.
SignUp(e, sendMail) ==
    /\ UsersAt(e) = {}
    /\ \E u \in FreshUsers, i \in FreshIdentities, a \in FreshAccounts :
          /\ PatchUser(u, e, FALSE)
          /\ InsertPassword(u, i, a, NoMail)
          /\ signedUp' = signedUp \cup {u}
          /\ FirstCode(u, e, sendMail)
    /\ UNCHANGED <<linked, verifiers, calls, proven, relinked, used, reused>>

\* The duplicate is answered, and nothing is written.
SignUpDuplicate(e) == UsersAt(e) # {} /\ UNCHANGED vars

\* sendEmailVerification, sendPasswordReset (a link) and sendVerificationOtp.  What
\* happens between the query of the user and the mutation changes neither.  Whether
\* it is an OTP matters to a password reset only.
SendCode(type, e, otp) ==
    /\ Postage /\ ~Ambiguous(e)
    /\ \E u \in UsersAt(e) : CreateVerificationCode(u, type)
    /\ CodeMail(nextCode, e, otp)
    /\ UNCHANGED <<rowVars, verifiers, calls, historyVars>>

\* sendVerificationOtp of type change-email: for the user of the session, mailed to
\* the new address, which is not looked at.
SendChangeCode(u, e) ==
    /\ Postage /\ users[u].live
    /\ CreateVerificationCode(u, "email_change")
    /\ CodeMail(nextCode, e, TRUE)
    /\ UNCHANGED <<rowVars, verifiers, calls, historyVars>>

\* signInMagicLink, and sendVerificationOtp of type sign-in: createVerifier.
SendSignInMail(m, e) ==
    /\ Postage
    /\ \E n \in FreshVerifiers :
          verifiers' = [verifiers EXCEPT ![n] = [state |-> "live", method |-> m, email |-> e]]
    /\ UNCHANGED <<codesVars, rowVars, mail, calls, historyVars>>

-----------------------------------------------------------------------------
(* Using a code *)

\* verifyEmail: marks the user of the code, whatever the address is by now.
VerifyEmail(k) ==
    /\ Consumable(k, "email_verification")
    /\ users' = [users EXCEPT ![codes[k].user].verified = TRUE]
    /\ ConsumeVerificationCode(k)
    /\ Prove(codes[k].user, mail[k].to)
    /\ Use(<<"code", k>>)
    /\ UNCHANGED <<identities, accounts, linked, verifiers, mail, calls,
                   signedUp, moved, relinked>>

\* resetPassword, reached by the link and by the OTP.
ResetPassword(k) ==
    /\ Consumable(k, "password_reset")
    /\ \E a \in AccountOf(codes[k].user) :
          accounts' = [accounts EXCEPT ![a].by = mail[k].to]
    /\ ConsumeVerificationCode(k)
    /\ Prove(codes[k].user, mail[k].to)
    /\ Use(<<"code", k>>)
    /\ UNCHANGED <<users, identities, linked, verifiers, mail, calls,
                   signedUp, moved, relinked>>

\* verifyEmailOtp of type forget-password when resetPassword answers "invalid": the
\* user of the code has no password yet.
ResetByOtp(c, k) ==
    /\ Consumable(k, "password_reset") /\ mail[k].otp
    /\ AccountOf(codes[k].user) = {}
    /\ Begin(c, "readCode", mail[k].to, codes[k].user, k, "none")
    /\ UNCHANGED <<codesVars, rowVars, verifiers, mail, historyVars>>

ReadCode(c) ==
    /\ At(c, "readCode")
    /\ IF Consumable(calls[c].row, "password_reset")
       THEN Goto(c, "readIdentity") ELSE Return(c)
    /\ UNCHANGED <<codesVars, rowVars, verifiers, mail, historyVars>>

ReadIdentity(c) ==
    /\ At(c, "readIdentity")
    /\ LET found == IdentityOf(calls[c].user, "password")
       IN calls' = [calls EXCEPT ![c].op = "firstPassword",
                                 ![c].identity = IF found = {} THEN 0 ELSE First(found)]
    /\ UNCHANGED <<codesVars, rowVars, verifiers, mail, historyVars>>

\* createAccount for the identity that was found, or provisionFromIdentity for the
\* address of the mail, which may be another user's by now.
FirstPassword(c) ==
    /\ At(c, "firstPassword")
    /\ \/ /\ calls[c].identity # 0
          /\ \E a \in FreshAccounts :
                accounts' = [accounts EXCEPT ![a] = [identity |-> calls[c].identity,
                                                     by |-> calls[c].email]]
          /\ Prove(calls[c].user, calls[c].email)
          /\ UNCHANGED <<users, identities, moved>>
       \/ /\ calls[c].identity = 0 /\ ~Ambiguous(calls[c].email)
          /\ \E u \in UserOrNew(calls[c].email), i \in FreshIdentities, a \in FreshAccounts :
                /\ PatchUser(u, calls[c].email, TRUE)
                /\ InsertPassword(u, i, a, calls[c].email)
                /\ Prove(u, calls[c].email)
    /\ Use(<<"code", calls[c].row>>)
    /\ Goto(c, "consumeCode")
    /\ UNCHANGED <<codesVars, linked, verifiers, mail, signedUp, relinked>>

\* consumeVerificationCode comes last; its answer is not looked at.
ConsumeCode(c) ==
    /\ At(c, "consumeCode")
    /\ \/ /\ Consumable(calls[c].row, "password_reset")
          /\ ConsumeVerificationCode(calls[c].row)
       \/ /\ ~Consumable(calls[c].row, "password_reset")
          /\ UNCHANGED codesVars
    /\ Return(c)
    /\ UNCHANGED <<rowVars, verifiers, mail, historyVars>>

\* changeEmail(k, e), where e is in the hash of k.  It moves the subject of the OTP
\* identity but not its key, and leaves the magic link identity as it was.
MoveIdentity(u, e) ==
    identities' = [i \in IdentityIds |->
                     IF i \in IdentityOf(u, "emailOtp")
                     THEN [identities[i] EXCEPT !.subject = e] ELSE identities[i]]

ChangeEmailTo(k, e) ==
    /\ Consumable(k, "email_change")
    /\ users[codes[k].user].email # e
    /\ PatchUser(codes[k].user, e, TRUE)
    /\ MoveIdentity(codes[k].user, e)
    /\ ConsumeVerificationCode(k)
    /\ Prove(codes[k].user, mail[k].to)
    /\ Use(<<"code", k>>)
    /\ UNCHANGED <<accounts, linked, verifiers, mail, calls, signedUp, relinked>>

\* Mutant: the address in use is not refused.
ChangeEmailToAny(k) == ChangeEmailTo(k, mail[k].to)

\* Mutant: the hash does not bind the address, so the caller names it.
ChangeEmailUnbound(k) == \E e \in Emails : UsersAt(e) = {} /\ ChangeEmailTo(k, e)

ChangeEmail(k) == UsersAt(mail[k].to) = {} /\ ChangeEmailTo(k, mail[k].to)

-----------------------------------------------------------------------------
(* Sign-in by OTP or magic link *)

\* Mutant: consumedAt is written and never read.
ConsumeVerifierAgain(c, n) ==
    /\ verifiers[n].state \in {"live", "over"}
    /\ Begin(c, "lookUp", verifiers[n].email, Nobody, n, verifiers[n].method)
    /\ verifiers' = [verifiers EXCEPT ![n].state = "over"]
    /\ UNCHANGED <<codesVars, rowVars, mail, historyVars>>

\* verifyEmailOtp, verifyMagicLink: consumeVerifier,
ConsumeVerifier(c, n) ==
    /\ verifiers[n].state = "live"
    /\ Begin(c, "lookUp", verifiers[n].email, Nobody, n, verifiers[n].method)
    /\ verifiers' = [verifiers EXCEPT ![n].state = "over"]
    /\ UNCHANGED <<codesVars, rowVars, mail, historyVars>>

\* then getUserByEmail for disableSignUp,
LookUp(c) ==
    /\ At(c, "lookUp")
    /\ IF Ambiguous(calls[c].email) \/ (UsersAt(calls[c].email) = {} /\ DisableSignUp)
       THEN Return(c) ELSE Goto(c, "provision")
    /\ UNCHANGED <<codesVars, rowVars, verifiers, mail, historyVars>>

\* then provisionFromIdentity.  An identity that exists decides the user, and the
\* mutation returns before the session is inserted.
KnownIdentity(c, m, e) ==
    \E i \in MailIdentity(m, e) :
        /\ PatchUser(identities[i].user, e, TRUE)
        /\ identities' = [identities EXCEPT ![i].key = e, ![i].subject = e]
        /\ Prove(identities[i].user, e)
        /\ Answer(c, FALSE)

NewIdentity(c, m, e) ==
    /\ MailIdentity(m, e) = {}
    /\ \E u \in UserOrNew(e), i \in FreshIdentities :
          /\ PatchUser(u, e, TRUE)
          /\ identities' = [identities EXCEPT ![i] =
                              [provider |-> m, user |-> u, key |-> e, subject |-> e]]
          /\ Prove(u, e)
    /\ Answer(c, TRUE)

Provision(c) ==
    LET e == calls[c].email
        m == calls[c].method
    IN /\ At(c, "provision")
       /\ ~Ambiguous(e)
       /\ KnownIdentity(c, m, e) \/ NewIdentity(c, m, e)
       /\ Use(<<"verifier", calls[c].row>>)
       /\ UNCHANGED <<codesVars, accounts, linked, verifiers, mail,
                      signedUp, relinked>>

-----------------------------------------------------------------------------
(* Anonymous users *)

\* createAnonymousUser
SignInAnonymous(u) ==
    /\ ~users[u].live
    /\ users' = [users EXCEPT ![u] = [live |-> TRUE, email |-> NoMail,
                                      verified |-> FALSE, anonymous |-> TRUE]]
    /\ UNCHANGED <<codesVars, identities, accounts, linked, verifiers, mail, calls, historyVars>>

\* linkAnonymousAccount: the user of the session is read,
LinkAnonymousAccount(c, u, e) ==
    /\ users[u].live /\ users[u].anonymous
    /\ Begin(c, "readTarget", e, u, 0, "none")
    /\ UNCHANGED <<codesVars, rowVars, verifiers, mail, historyVars>>

\* the address and its account are looked up,
ReadTarget(c) ==
    /\ At(c, "readTarget")
    /\ IF UsersAt(calls[c].email) # {} \/ (\E u \in Users : <<u, calls[c].email>> \in linked)
       THEN Return(c) ELSE Goto(c, "link")
    /\ UNCHANGED <<codesVars, rowVars, verifiers, mail, historyVars>>

\* linkAnonymousUser writes the address without looking again,
LinkAnonymousUser(c) ==
    LET u == calls[c].user
        e == calls[c].email
    IN /\ At(c, "link")
       /\ users' = [users EXCEPT ![u] = [live |-> TRUE, email |-> e,
                                         verified |-> FALSE, anonymous |-> FALSE]]
       /\ moved' = moved \cup ({e, users[u].email} \ {NoMail})
       /\ relinked' = IF users[u].email = NoMail THEN relinked ELSE relinked \cup {u}
       /\ Goto(c, "linkAccount")
       /\ UNCHANGED <<codesVars, identities, accounts, linked, verifiers, mail,
                      proven, signedUp, used, reused>>

\* and the account is created, of the provider "email".  The identity and the session
\* that follow are read by no other step here.
LinkAccount(c) ==
    /\ At(c, "linkAccount")
    /\ linked' = linked \cup {<<calls[c].user, calls[c].email>>}
    /\ Return(c)
    /\ UNCHANGED <<codesVars, users, identities, accounts, verifiers, mail, historyVars>>

-----------------------------------------------------------------------------
(* Time and failure *)

\* The answer is given, the transaction throws, or the isolate stops.
EndCall(c) ==
    /\ ~Idle(c)
    /\ Return(c)
    /\ UNCHANGED <<codesVars, rowVars, verifiers, mail, historyVars>>

\* Only a live code: to no step here does an expired one that was consumed differ.
Expire ==
    /\ \E k \in CodeIds : codes[k].state = "live" /\ ExpireCode(k)
    /\ UNCHANGED <<rowVars, verifiers, mail, calls, historyVars>>

ExpireVerifier(n) ==
    /\ verifiers[n].state = "live"
    /\ verifiers' = [verifiers EXCEPT ![n].state = "over"]
    /\ UNCHANGED <<codesVars, rowVars, mail, calls, historyVars>>

Next ==
    \/ \E e \in Emails :
          \/ (\E sendMail \in BOOLEAN : SignUp(e, sendMail)) \/ SignUpDuplicate(e)
          \/ SendCode("email_verification", e, FALSE)
          \/ \E otp \in BOOLEAN : SendCode("password_reset", e, otp)
          \/ \E u \in Users : SendChangeCode(u, e)
          \/ \E m \in Methods : SendSignInMail(m, e)
    \/ \E k \in CodeIds : VerifyEmail(k) \/ ResetPassword(k) \/ ChangeEmail(k)
    \/ \E n \in VerifierIds : ExpireVerifier(n)
    \/ \E u \in Users : SignInAnonymous(u)
    \/ Expire
    \/ \E c \in Calls :
          \/ \E k \in CodeIds : ResetByOtp(c, k)
          \/ ReadCode(c) \/ ReadIdentity(c) \/ FirstPassword(c) \/ ConsumeCode(c)
          \/ \E n \in VerifierIds : ConsumeVerifier(c, n)
          \/ LookUp(c) \/ Provision(c)
          \/ \E u \in Users, e \in Emails : LinkAnonymousAccount(c, u, e)
          \/ ReadTarget(c) \/ LinkAnonymousUser(c) \/ LinkAccount(c)
          \/ EndCall(c)

Spec == Init /\ [][Next]_vars

-----------------------------------------------------------------------------
(* Properties *)

(* An address that is marked verified was proven: a mail to it was used    *)
(* for that user, by a verification, a reset, a change or a sign-in.  Left *)
(* out are users whose real address linkAnonymousUser has replaced: a code *)
(* for the old one verifies whatever address the user has by then.         *)
VerifiedMeansProven ==
    \A u \in Users \ relinked :
        users[u].live /\ users[u].verified => users[u].email \in proven[u]

(* The password that signs a user in was chosen when the user signed up,   *)
(* or by someone who has used a mail to an address of that user: signing   *)
(* up with the address of another account never puts a password on it.     *)
PasswordByProof ==
    \A u \in Users : \A a \in AccountOf(u) :
        \/ accounts[a].by \in proven[u]
        \/ accounts[a].by = NoMail /\ u \in signedUp

(* A mail works once, however many calls present it at once.  The one      *)
(* exception is the OTP that sets the first password of a user, which is   *)
(* consumed after the password has been written.                           *)
MailWorksOnce ==
    \A m \in reused :
        m[1] = "code" /\ codes[m[2]].type = "password_reset" /\ mail[m[2]].otp

(* Two users share an address only if some user has moved away from it, in *)
(* which case the key of an old identity may bring that user back, or a    *)
(* link has written it, which looks the address up in an earlier           *)
(* transaction.  Sign-up, sign-in and e-mail change alone keep it unique,  *)
(* as every lookup by address assumes.                                     *)
OneUserPerEmail ==
    \A e \in Emails \ moved : ~Ambiguous(e)

(* What a sign-in that was accepted is answered with: a session, as the    *)
(* documentation of both providers says.                                   *)
AcceptedMailSignsIn ==
    \A c \in Calls : At(c, "answered") => calls[c].session

=============================================================================
