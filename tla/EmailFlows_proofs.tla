-------------------------- MODULE EmailFlows_proofs ---------------------------
(***************************************************************************)
(* What the flows that run over mail promise, for any number of users,     *)
(* addresses, mails and calls in progress.                                 *)
(*                                                                         *)
(* Each action is read once, for what it may do to the users, the codes,   *)
(* the identities, the accounts, the verifiers, the calls and the history  *)
(* of used mails (Moves); that the invariant is kept follows from these.   *)
(***************************************************************************)
EXTENDS EmailFlows, FiniteSetTheorems, WellFoundedInduction, TLAPS

-----------------------------------------------------------------------------
(* The inductive invariant                                                 *)

ResetOtp(k) == codes[k].type = "password_reset" /\ mail[k].otp

SignsIn(c) == ~Idle(c) /\ calls[c].op \in {"lookUp", "provision"}

UserGood(u) == ~users[u].live => users[u].email = NoMail /\ ~users[u].verified

\* A code went to an address, for a user that is there. What a verification code
\* went to is the address of its user, unless that has moved on by proof or by a link.
CodeGood(k) ==
    IF k < nextCode
    THEN /\ codes[k].state # "none"
         /\ codes[k].user \in Users
         /\ users[codes[k].user].live
         /\ mail[k].to \in Emails
         /\ codes[k].type = "email_verification" =>
               /\ users[codes[k].user].email # NoMail
               /\ \/ codes[k].user \in relinked
                  \/ users[codes[k].user].email = mail[k].to
                  \/ users[codes[k].user].email \in proven[codes[k].user]
    ELSE codes[k].state = "none"

VerifierGood(n) ==
    verifiers[n].state # "none" => verifiers[n].method \in Methods /\ verifiers[n].email \in Emails

\* An identity is known by the address of its user, unless someone has left it.
IdentityGood(i) ==
    identities[i].provider \in Methods =>
        \A e \in {identities[i].key, identities[i].subject} :
            \/ e \in moved
            \/ users[identities[i].user].live /\ users[identities[i].user].email = e

AccountGood(a) ==
    accounts[a].identity # 0 =>
        /\ identities[accounts[a].identity].provider = "password"
        /\ \/ accounts[a].by \in proven[identities[accounts[a].identity].user]
           \/ accounts[a].by = NoMail /\ identities[accounts[a].identity].user \in signedUp

CallGood(c) ==
    ~Idle(c) =>
        /\ calls[c].op \in {"lookUp", "provision"} =>
              /\ calls[c].email \in Emails
              /\ calls[c].method \in Methods
              /\ calls[c].row \in VerifierIds
              /\ verifiers[calls[c].row].state = "over"
        /\ calls[c].op \in {"readCode", "readIdentity", "firstPassword", "consumeCode"} =>
              /\ calls[c].email \in Emails
              /\ calls[c].user \in Users
              /\ calls[c].row \in CodeIds
              /\ calls[c].row < nextCode
              /\ ResetOtp(calls[c].row)
        /\ calls[c].op = "firstPassword" /\ calls[c].identity # 0 =>
              /\ identities[calls[c].identity].provider = "password"
              /\ identities[calls[c].identity].user = calls[c].user
        /\ calls[c].op \in {"readTarget", "link", "linkAccount"} =>
              calls[c].email \in Emails /\ calls[c].user \in Users

RowsGood ==
    /\ \A u \in Users : UserGood(u)
    /\ \A k \in CodeIds : CodeGood(k)
    /\ \A n \in VerifierIds : VerifierGood(n)
    /\ \A i \in IdentityIds : IdentityGood(i)
    /\ \A a \in AccountIds : AccountGood(a)
    /\ \A c \in Calls : CallGood(c)

\* An address nobody has left is one user's.
OneHolder ==
    \A e \in Emails \ moved : \A u, v \in UsersAt(e) : u = v

\* A verifier is presented by one call.
OnePresenter ==
    \A c, d \in Calls : SignsIn(c) /\ SignsIn(d) /\ calls[c].row = calls[d].row => c = d

UsedGood ==
    /\ \A k \in CodeIds : <<"code", k>> \in used =>
          k < nextCode /\ (codes[k].state # "live" \/ ResetOtp(k))
    /\ \A n \in VerifierIds : <<"verifier", n>> \in used =>
          verifiers[n].state = "over" /\ \A c \in Calls : SignsIn(c) => calls[c].row # n

IInv ==
    /\ EmailTypeOK
    /\ RowsGood
    /\ OneHolder
    /\ OnePresenter
    /\ UsedGood
    /\ VerifiedMeansProven
    /\ MailWorksOnce

-----------------------------------------------------------------------------
(* What a step may do                                                      *)

Grows ==
    /\ \A u \in Users : proven[u] \subseteq proven'[u]
    /\ moved \subseteq moved' /\ relinked \subseteq relinked' /\ signedUp \subseteq signedUp'

\* The user that is written gets an address that is free or that someone has left,
\* and one marked verified was proven.
UserMove(u) ==
    /\ users'[u].live
    /\ users'[u].email \in Emails \/ (users'[u].email = NoMail /\ users[u].email = NoMail)
    /\ users'[u].email # users[u].email => users[u].email \in moved' \cup {NoMail}
    /\ \/ users'[u].email \in moved' \cup {NoMail}
       \/ users[u].live /\ users'[u].email = users[u].email
       \/ UsersAt(users'[u].email) = {}
    /\ users'[u].verified => users'[u].email \in proven'[u] \/ u \in relinked'
    /\ users[u].live /\ users'[u].email # users[u].email =>
          users[u].email = NoMail \/ users'[u].email \in proven'[u] \/ u \in relinked'

UsersMove ==
    \/ UNCHANGED users
    \/ \E w \in Users : UserMove(w) /\ \A u \in Users : u # w => users'[u] = users[u]

CodeStays(k) ==
    /\ codes'[k].user = codes[k].user /\ codes'[k].type = codes[k].type /\ mail'[k] = mail[k]
    /\ codes'[k].state # "none"
    /\ codes'[k].state = "live" => codes[k].state = "live"

CodesMove ==
    /\ nextCode' >= nextCode
    /\ \A k \in CodeIds : IF k < nextCode THEN CodeStays(k) ELSE CodeGood(k)'

IdentitiesMove ==
    \A i \in IdentityIds :
        /\ identities[i].provider # "none" =>
              identities'[i].provider = identities[i].provider /\ identities'[i].user = identities[i].user
        /\ identities'[i].provider \in Methods =>
              \A e \in {identities'[i].key, identities'[i].subject} :
                  \/ users'[identities'[i].user].live /\ users'[identities'[i].user].email = e
                  \/ /\ identities[i].provider \in Methods
                     /\ e \in {identities[i].key, identities[i].subject}

AccountsMove == \A a \in AccountIds : accounts'[a] = accounts[a] \/ AccountGood(a)'

VerifiersMove ==
    \A n \in VerifierIds :
        /\ verifiers'[n] = verifiers[n] \/ VerifierGood(n)'
        /\ verifiers[n].state = "over" => verifiers'[n].state = "over"

CallsMove ==
    /\ \A c \in Calls : calls'[c] = calls[c] \/ CallGood(c)'
    /\ \A c \in Calls : SignsIn(c)' =>
          \/ SignsIn(c) /\ calls'[c].row = calls[c].row
          \/ /\ verifiers[calls'[c].row].state = "live"
             /\ \A d \in Calls : d # c => calls'[d] = calls[d]

UsedMove ==
    \/ UNCHANGED <<used, reused>>
    \/ \E k \in CodeIds :
          /\ Use(<<"code", k>>) /\ k < nextCode
          /\ (codes[k].state = "live" /\ codes'[k].state # "live") \/ ResetOtp(k)
    \/ \E c \in Calls : Use(<<"verifier", calls[c].row>>) /\ SignsIn(c) /\ ~SignsIn(c)'

Moves ==
    /\ Grows /\ UsersMove /\ CodesMove /\ IdentitiesMove /\ AccountsMove
    /\ VerifiersMove /\ CallsMove /\ UsedMove

-----------------------------------------------------------------------------
(* The invariant follows from the moves                                    *)

LEMMA Numbers ==
    /\ MaxMails \in Nat /\ MaxVerifiers \in Nat /\ MaxIdentities \in Nat /\ MaxAccounts \in Nat
    /\ NoMail \notin Emails /\ "password" \notin Methods /\ "none" \notin Methods
    /\ CodeTypes = {"email_verification", "password_reset", "email_change"}
    /\ MaxCodes \in Nat \ {0} /\ Nobody \notin Users
    /\ \A k \in CodeIds : k \in Nat
  BY EmailsAssumption, CodesAssumption DEF EmailsAssumption, CodesAssumption, CodeIds

LEMMA Typed ==
    ASSUME EmailTypeOK
    PROVE  /\ \A u \in Users : users[u] \in User /\ proven[u] \in SUBSET Emails
           /\ \A k \in CodeIds : codes[k] \in Code /\ mail[k] \in [to : Addresses, otp : BOOLEAN]
           /\ \A i \in IdentityIds : identities[i] \in Identity
           /\ \A a \in AccountIds : accounts[a] \in Account
           /\ \A n \in VerifierIds : verifiers[n] \in Verifier
           /\ \A c \in Calls : ~Idle(c) => calls[c] \in Call
           /\ nextCode \in Nat
  <1>1. \A c \in Calls : calls[c] \in Call \cup {NoCall}
    BY DEF EmailTypeOK
  <1>2. nextCode \in Nat
    BY Numbers DEF EmailTypeOK, CodesTypeOK
  <1> QED BY <1>1, <1>2 DEF EmailTypeOK, CodesTypeOK, Idle

LEMMA UsersKept ==
    ASSUME IInv, EmailTypeOK', Moves
    PROVE  /\ \A u \in Users : UserGood(u)'
           /\ \A u \in Users : users[u].live => users'[u].live
           /\ VerifiedMeansProven'
  <1>1. ASSUME NEW u \in Users
        PROVE  /\ UserGood(u)' /\ (users[u].live => users'[u].live)
               /\ users'[u].verified => users'[u].email \in proven'[u] \/ u \in relinked'
    <2>1. CASE users'[u] = users[u]
      <3>1. users[u].verified => users[u].live
        BY Typed DEF IInv, RowsGood, UserGood, User
      <3>2. users[u].verified => users[u].email \in proven[u] \/ u \in relinked
        BY <3>1 DEF IInv, VerifiedMeansProven
      <3> QED BY <2>1, <3>2 DEF IInv, RowsGood, UserGood, Moves, Grows
    <2>2. CASE UserMove(u)
      BY <2>2 DEF UserMove, UserGood
    <2> QED BY <2>1, <2>2 DEF Moves, UsersMove
  <1> QED BY <1>1 DEF VerifiedMeansProven

LEMMA CodesKept ==
    ASSUME IInv, EmailTypeOK', Moves
    PROVE  \A k \in CodeIds : CodeGood(k)'
  <1> SUFFICES ASSUME NEW k \in CodeIds PROVE CodeGood(k)'
    OBVIOUS
  <1>1. CASE ~(k < nextCode)
    BY <1>1 DEF Moves, CodesMove
  <1>2. CASE k < nextCode
    <2>1. CodeStays(k) /\ CodeGood(k) /\ k < nextCode'
      <3>1. nextCode \in Nat /\ k \in Nat /\ nextCode' \in Nat
        <4>1. nextCode' \in Nat
          BY Numbers DEF EmailTypeOK, CodesTypeOK
        <4> QED BY <4>1, Typed, Numbers DEF IInv
      <3> QED BY <1>2, <3>1 DEF Moves, CodesMove, IInv, RowsGood
    <2>2. PICK u \in Users : u = codes[k].user
      BY <1>2, <2>1 DEF CodeGood
    <2>3. users'[u].live
      BY <1>2, <2>1, <2>2, UsersKept DEF CodeGood
    <2>4. codes'[k].type = "email_verification" =>
             /\ users'[u].email # NoMail
             /\ u \in relinked' \/ users'[u].email = mail'[k].to \/ users'[u].email \in proven'[u]
      <3> SUFFICES ASSUME codes[k].type = "email_verification"
                   PROVE  /\ users'[u].email # NoMail
                          /\ \/ u \in relinked' \/ users'[u].email = mail'[k].to
                             \/ users'[u].email \in proven'[u]
        BY <2>1 DEF CodeStays
      <3>1. /\ users[u].email # NoMail /\ users[u].live
            /\ u \in relinked \/ users[u].email = mail[k].to \/ users[u].email \in proven[u]
        BY <1>2, <2>1, <2>2 DEF CodeGood
      <3>2. CASE users'[u].email = users[u].email
        BY <2>1, <3>1, <3>2 DEF CodeStays, Moves, Grows
      <3>3. CASE UserMove(u) /\ users'[u].email # users[u].email
        BY <3>1, <3>3, Numbers DEF UserMove
      <3> QED BY <3>2, <3>3 DEF Moves, UsersMove
    <2> QED BY <2>1, <1>2, <2>2, <2>3, <2>4 DEF CodeGood, CodeStays
  <1> QED BY <1>1, <1>2

LEMMA IdentitiesKept ==
    ASSUME IInv, EmailTypeOK', Moves
    PROVE  \A i \in IdentityIds : IdentityGood(i)'
  <1> SUFFICES ASSUME NEW i \in IdentityIds, identities'[i].provider \in Methods,
                      NEW e \in {identities'[i].key, identities'[i].subject}
               PROVE  \/ e \in moved'
                      \/ users'[identities'[i].user].live /\ users'[identities'[i].user].email = e
    BY DEF IdentityGood
  <1>1. CASE users'[identities'[i].user].live /\ users'[identities'[i].user].email = e
    BY <1>1
  <1>2. CASE identities[i].provider \in Methods /\ e \in {identities[i].key, identities[i].subject}
    <2>1. identities[i].provider # "none" /\ identities[i] \in Identity
      BY <1>2, Typed, Numbers DEF IInv
    <2>2. identities'[i].user = identities[i].user
      BY <2>1 DEF Moves, IdentitiesMove
    <2>3. PICK u \in Users : u = identities[i].user
      BY <1>2, <2>1, Numbers DEF Identity
    <2>4. e \in Emails
      BY <1>2, <2>1, Numbers DEF Identity
    <2>5. e \in moved \/ (users[u].live /\ users[u].email = e)
      BY <1>2, <2>3 DEF IInv, RowsGood, IdentityGood
    <2>6. CASE users'[u].email # users[u].email
      BY <2>2, <2>3, <2>4, <2>5, <2>6, Numbers DEF Moves, Grows, UsersMove, UserMove
    <2>7. CASE users'[u].email = users[u].email
      BY <2>2, <2>3, <2>5, <2>7, UsersKept DEF Moves, Grows
    <2> QED BY <2>6, <2>7
  <1> QED BY <1>1, <1>2 DEF Moves, IdentitiesMove

LEMMA AccountsKept ==
    ASSUME IInv, EmailTypeOK', Moves
    PROVE  \A a \in AccountIds : AccountGood(a)'
  <1> SUFFICES ASSUME NEW a \in AccountIds, accounts'[a] = accounts[a], accounts[a].identity # 0
               PROVE  AccountGood(a)'
    BY DEF Moves, AccountsMove, AccountGood
  <1>1. PICK i \in IdentityIds : i = accounts[a].identity
    BY Typed DEF IInv, Account
  <1>2. /\ identities[i].provider = "password" /\ identities[i] \in Identity
        /\ accounts[a].by \in proven[identities[i].user] \/
              (accounts[a].by = NoMail /\ identities[i].user \in signedUp)
    BY <1>1, Typed DEF IInv, RowsGood, AccountGood
  <1>3. identities'[i].provider = "password" /\ identities'[i].user = identities[i].user
    BY <1>2 DEF Moves, IdentitiesMove
  <1>4. identities[i].user \in Users
    BY <1>2, Numbers DEF Identity
  <1> QED BY <1>1, <1>2, <1>3, <1>4 DEF AccountGood, Moves, Grows

LEMMA VerifiersKept ==
    ASSUME IInv, EmailTypeOK', Moves
    PROVE  \A n \in VerifierIds : VerifierGood(n)'
  BY DEF IInv, RowsGood, Moves, VerifiersMove, VerifierGood

LEMMA CallsKept ==
    ASSUME IInv, EmailTypeOK', Moves
    PROVE  \A c \in Calls : CallGood(c)'
  <1> SUFFICES ASSUME NEW c \in Calls, calls'[c] = calls[c], ~Idle(c) PROVE CallGood(c)'
    BY DEF Moves, CallsMove, CallGood, Idle
  <1>1. CallGood(c) /\ calls[c] \in Call
    BY Typed DEF IInv, RowsGood
  <1>2. CASE calls[c].op \in {"lookUp", "provision"}
    BY <1>1, <1>2 DEF CallGood, Moves, VerifiersMove
  <1>3. CASE calls[c].op \in {"readCode", "readIdentity", "firstPassword", "consumeCode"}
    <2> DEFINE k == calls[c].row
               i == calls[c].identity
    <2>1. k \in CodeIds /\ k < nextCode /\ ResetOtp(k) /\ k \in Nat /\ nextCode \in Nat
      BY <1>1, <1>3, Typed, Numbers DEF CallGood, IInv
    <2>2. nextCode' \in Nat /\ nextCode' >= nextCode /\ CodeStays(k)
      BY <2>1, Numbers DEF EmailTypeOK, CodesTypeOK, Moves, CodesMove
    <2>3. /\ k < nextCode' /\ codes'[k].type = "password_reset" /\ mail'[k].otp
      BY <2>1, <2>2 DEF CodeStays, ResetOtp
    <2>4. calls[c].op = "firstPassword" /\ i # 0 =>
             identities'[i].provider = "password" /\ identities'[i].user = calls[c].user
      BY <1>1, <1>3 DEF CallGood, Call, Moves, IdentitiesMove
    <2> QED BY <1>1, <1>3, <2>1, <2>3, <2>4 DEF CallGood, ResetOtp
  <1>4. CASE calls[c].op \notin {"lookUp", "provision", "readCode", "readIdentity",
                                 "firstPassword", "consumeCode"}
    BY <1>1, <1>4 DEF CallGood
  <1> QED BY <1>2, <1>3, <1>4

LEMMA HoldersKept ==
    ASSUME IInv, EmailTypeOK', Moves
    PROVE  OneHolder'
  <1> SUFFICES ASSUME NEW e \in Emails, e \notin moved', NEW u \in Users, NEW v \in Users,
                      users'[u].live, users'[v].live, users'[u].email = e, users'[v].email = e,
                      u # v
               PROVE  FALSE
    BY DEF OneHolder, UsersAt
  <1>1. e \notin moved /\ e # NoMail
    BY Numbers DEF Moves, Grows
  <1>2. ~(users'[u] = users[u] /\ users'[v] = users[v])
    BY <1>1 DEF IInv, OneHolder, UsersAt
  <1>3. ASSUME NEW w \in Users, NEW x \in Users, w # x, UserMove(w), users'[x] = users[x],
               users'[w].email = e, users'[x].live, users'[x].email = e
        PROVE  FALSE
    BY <1>1, <1>3 DEF UserMove, IInv, OneHolder, UsersAt
  <1>4. CASE UserMove(u) /\ users'[v] = users[v]
    BY <1>3, <1>4
  <1>5. CASE UserMove(v) /\ users'[u] = users[u]
    BY <1>3, <1>5
  <1> QED BY <1>2, <1>4, <1>5 DEF Moves, UsersMove

LEMMA PresentersKept ==
    ASSUME IInv, EmailTypeOK', Moves
    PROVE  OnePresenter'
  <1> SUFFICES ASSUME NEW c \in Calls, NEW d \in Calls, SignsIn(c)', SignsIn(d)',
                      calls'[c].row = calls'[d].row, c # d
               PROVE  FALSE
    BY DEF OnePresenter
  <1>1. ASSUME NEW b \in Calls, NEW f \in Calls, b # f, SignsIn(f)', calls'[f] = calls[f],
               calls'[b].row = calls'[f].row, verifiers[calls'[b].row].state = "live"
        PROVE  FALSE
    <2>1. SignsIn(f) /\ verifiers[calls[f].row].state = "over"
      BY <1>1 DEF SignsIn, Idle, IInv, RowsGood, CallGood
    <2> QED BY <1>1, <2>1
  <1>2. CASE SignsIn(c) /\ calls'[c].row = calls[c].row /\ SignsIn(d) /\ calls'[d].row = calls[d].row
    BY <1>2 DEF IInv, OnePresenter
  <1>3. CASE verifiers[calls'[c].row].state = "live" /\ calls'[d] = calls[d]
    BY <1>1, <1>3
  <1>4. CASE verifiers[calls'[d].row].state = "live" /\ calls'[c] = calls[c]
    BY <1>1, <1>4
  <1> QED BY <1>2, <1>3, <1>4 DEF Moves, CallsMove

LEMMA UsedKept ==
    ASSUME IInv, EmailTypeOK', Moves
    PROVE  UsedGood' /\ MailWorksOnce'
  <1>1. nextCode \in Nat /\ nextCode' \in Nat /\ nextCode' >= nextCode /\ \A k \in CodeIds : k \in Nat
    BY Numbers DEF IInv, EmailTypeOK, CodesTypeOK, Moves, CodesMove
  <1>2. \A k \in CodeIds : k < nextCode => CodeStays(k) /\ k < nextCode'
    BY <1>1 DEF Moves, CodesMove
  <1>3. used \subseteq Mails /\ reused \subseteq used
    BY DEF IInv, EmailTypeOK
  \* What was used stays so.
  <1>4. ASSUME NEW k \in CodeIds, <<"code", k>> \in used
        PROVE  k < nextCode' /\ (codes'[k].state # "live" \/ ResetOtp(k)')
    BY <1>2, <1>4 DEF IInv, UsedGood, CodeStays, ResetOtp
  <1>5. ASSUME NEW n \in VerifierIds, <<"verifier", n>> \in used
        PROVE  verifiers'[n].state = "over" /\ \A c \in Calls : SignsIn(c)' => calls'[c].row # n
    <2>1. verifiers[n].state = "over" /\ \A c \in Calls : SignsIn(c) => calls[c].row # n
      BY <1>5 DEF IInv, UsedGood
    <2> QED BY <2>1 DEF Moves, VerifiersMove, CallsMove
  <1>6. \A m \in reused : m[1] = "code" /\ codes'[m[2]].type = "password_reset" /\ mail'[m[2]].otp
    <2> TAKE m \in reused
    <2>1. m[1] = "code" /\ codes[m[2]].type = "password_reset" /\ mail[m[2]].otp
      BY DEF IInv, MailWorksOnce
    <2>2. m \in used /\ m \in {"code"} \X CodeIds
      BY <1>3, <2>1 DEF Mails
    <2>3. PICK k \in CodeIds : m = <<"code", k>>
      BY <2>2
    <2>4. k < nextCode /\ m[2] = k
      BY <2>2, <2>3 DEF IInv, UsedGood
    <2> QED BY <1>2, <2>1, <2>4 DEF CodeStays
  <1>7. CASE UNCHANGED <<used, reused>>
    BY <1>4, <1>5, <1>6, <1>7 DEF UsedGood, MailWorksOnce
  <1>8. ASSUME NEW k \in CodeIds, Use(<<"code", k>>), k < nextCode,
               (codes[k].state = "live" /\ codes'[k].state # "live") \/ ResetOtp(k)
        PROVE  UsedGood' /\ MailWorksOnce'
    <2>1. used' = used \cup {<<"code", k>>} /\ reused' = reused \cup ({<<"code", k>>} \cap used)
      BY <1>8 DEF Use
    <2>2. k < nextCode' /\ (codes'[k].state # "live" \/ ResetOtp(k)')
      BY <1>2, <1>8 DEF CodeStays, ResetOtp
    <2>3. <<"code", k>> \in used => ResetOtp(k)'
      BY <1>2, <1>8 DEF IInv, UsedGood, ResetOtp, CodeStays
    <2>4. \A n \in VerifierIds : <<"verifier", n>> # <<"code", k>>
      OBVIOUS
    <2>5. \A j \in CodeIds : <<"code", j>> = <<"code", k>> => j = k
      OBVIOUS
    <2>6. UsedGood'
      BY <1>4, <1>5, <2>1, <2>2, <2>4, <2>5 DEF UsedGood
    <2>7. ASSUME NEW m \in reused'
          PROVE  m[1] = "code" /\ codes'[m[2]].type = "password_reset" /\ mail'[m[2]].otp
      <3>1. CASE m \in reused
        BY <1>6, <3>1
      <3>2. CASE m = <<"code", k>> /\ <<"code", k>> \in used
        BY <2>3, <3>2 DEF ResetOtp
      <3> QED BY <2>1, <2>7, <3>1, <3>2
    <2> QED BY <2>6, <2>7 DEF MailWorksOnce
  <1>9. ASSUME NEW c \in Calls, Use(<<"verifier", calls[c].row>>), SignsIn(c), ~SignsIn(c)'
        PROVE  UsedGood' /\ MailWorksOnce'
    <2>1. PICK n \in VerifierIds : n = calls[c].row /\ verifiers[n].state = "over"
      BY <1>9 DEF IInv, RowsGood, CallGood, SignsIn
    <2>2. used' = used \cup {<<"verifier", n>>} /\ reused' = reused \cup ({<<"verifier", n>>} \cap used)
      BY <1>9, <2>1 DEF Use
    <2>3. <<"verifier", n>> \notin used
      BY <1>9, <2>1 DEF IInv, UsedGood
    <2>4. reused' = reused
      BY <2>2, <2>3
    <2>5. verifiers'[n].state = "over"
      BY <2>1 DEF Moves, VerifiersMove
    <2>6. ASSUME NEW d \in Calls, SignsIn(d)' PROVE calls'[d].row # n
      <3>1. d # c
        BY <1>9, <2>6
      <3>2. CASE SignsIn(d) /\ calls'[d].row = calls[d].row
        BY <1>9, <2>1, <3>1, <3>2 DEF IInv, OnePresenter
      <3>3. CASE verifiers[calls'[d].row].state = "live"
        BY <2>1, <3>3
      <3> QED BY <2>6, <3>2, <3>3 DEF Moves, CallsMove
    <2>7. \A k \in CodeIds : <<"code", k>> # <<"verifier", n>>
      OBVIOUS
    <2>8. \A i \in VerifierIds : <<"verifier", i>> = <<"verifier", n>> => i = n
      OBVIOUS
    <2>9. UsedGood'
      BY <1>4, <1>5, <2>2, <2>5, <2>6, <2>7, <2>8 DEF UsedGood
    <2> QED BY <1>6, <2>4, <2>9 DEF MailWorksOnce
  <1> QED BY <1>7, <1>8, <1>9 DEF Moves, UsedMove

LEMMA InvKept == ASSUME IInv, EmailTypeOK', Moves PROVE IInv'
  BY UsersKept, CodesKept, IdentitiesKept, AccountsKept, VerifiersKept, CallsKept, HoldersKept,
     PresentersKept, UsedKept DEF IInv, RowsGood

-----------------------------------------------------------------------------
(* Rows                                                                    *)

\* The oldest of some rows is one of them.
LEMMA FirstRow ==
    ASSUME NEW S \in SUBSET Nat
    PROVE  FirstOf(S) \in SUBSET S
  <1> DEFINE Less == {p \in Nat \X Nat : p[1] < p[2]}
  <1>1. IsWellFoundedOn(Less, Nat)
    BY NatLessThanWellFounded DEF OpToRel
  <1>2. CASE S = {}
    BY <1>2 DEF FirstOf
  <1>3. CASE S # {}
    <2>1. PICK i \in S : \A j \in S : <<j, i>> \notin Less
      <3> HIDE DEF Less
      <3>1. S \subseteq Nat /\ S # {}
        BY <1>3
      <3>2. \E x \in S : \A y \in S : ~(<<y, x>> \in Less)
        BY ONLY <1>1, <3>1, WFMin
      <3> QED BY <3>2
    <2>2. \A j \in S : i <= j
      <3> TAKE j \in S
      <3>1. <<j, i>> \in Nat \X Nat /\ <<j, i>>[1] = j /\ <<j, i>>[2] = i
        OBVIOUS
      <3>2. ~(<<j, i>>[1] < <<j, i>>[2])
        BY <2>1, <3>1
      <3> QED BY <3>1, <3>2
    <2>3. First(S) \in S
      BY <2>2 DEF First
    <2> QED BY <1>3, <2>3 DEF FirstOf
  <1> QED BY <1>2, <1>3

LEMMA FreshRows ==
    /\ \A i \in FreshIdentities : i \in IdentityIds /\ identities[i].provider = "none"
    /\ \A a \in FreshAccounts : a \in AccountIds /\ accounts[a].identity = 0
    /\ \A n \in FreshVerifiers : n \in VerifierIds /\ verifiers[n].state = "none"
  <1>1. IdentityIds \subseteq Nat /\ AccountIds \subseteq Nat /\ VerifierIds \subseteq Nat
    BY Numbers DEF IdentityIds, AccountIds, VerifierIds
  <1> QED BY <1>1, FirstRow DEF FreshIdentities, FreshAccounts, FreshVerifiers

LEMMA IdentityRow ==
    ASSUME NEW u, NEW provider, NEW i \in IdentityOf(u, provider)
    PROVE  i \in IdentityIds /\ identities[i].provider = provider /\ identities[i].user = u
  <1>1. IdentityIds \subseteq Nat
    BY Numbers DEF IdentityIds
  <1> QED BY <1>1, FirstRow DEF IdentityOf

LEMMA AccountRow ==
    ASSUME NEW u, NEW a \in AccountOf(u)
    PROVE  a \in AccountIds /\ accounts[a].identity \in IdentityOf(u, "password")
  <1>1. AccountIds \subseteq Nat
    BY Numbers DEF AccountIds
  <1> QED BY <1>1, FirstRow DEF AccountOf

LEMMA MailIdentityRow ==
    ASSUME NEW m, NEW e, NEW i \in MailIdentity(m, e)
    PROVE  /\ i \in IdentityIds /\ identities[i].provider = m
           /\ e \in {identities[i].key, identities[i].subject}
  <1>1. IdentityIds \subseteq Nat
    BY Numbers DEF IdentityIds
  <1> DEFINE byKey == {j \in IdentityIds : identities[j].provider = m /\ identities[j].key = e}
             bySubject == {j \in IdentityIds : identities[j].provider = m /\ identities[j].subject = e}
  <1>2. i \in byKey \/ i \in FirstOf(bySubject)
    BY DEF MailIdentity
  <1>3. FirstOf(bySubject) \subseteq bySubject
    BY <1>1, FirstRow
  <1> QED BY <1>2, <1>3

LEMMA UserRow ==
    ASSUME NEW e, NEW u \in UserOrNew(e)
    PROVE  /\ u \in Users
           /\ (users[u].live /\ users[u].email = e) \/ (~users[u].live /\ UsersAt(e) = {})
  BY DEF UserOrNew, UsersAt, FreshUsers

-----------------------------------------------------------------------------
(* What the writes of an action do                                         *)

LEMMA Quiet ==
    ASSUME IInv
    PROVE  /\ UNCHANGED users => UsersMove
           /\ UNCHANGED <<codes, nextCode, mail>> => CodesMove
           /\ UNCHANGED identities => IdentitiesMove
           /\ UNCHANGED accounts => AccountsMove
           /\ UNCHANGED verifiers => VerifiersMove
           /\ UNCHANGED calls => CallsMove
           /\ UNCHANGED <<used, reused>> => UsedMove
           /\ UNCHANGED <<proven, moved, relinked, signedUp>> => Grows
  <1>1. ASSUME UNCHANGED <<codes, nextCode, mail>> PROVE CodesMove
    <2>1. nextCode \in Nat /\ nextCode' \in Nat /\ nextCode' >= nextCode
      BY <1>1, Typed DEF IInv
    <2>2. \A k \in CodeIds : IF k < nextCode THEN CodeStays(k) ELSE CodeGood(k)'
      BY <1>1 DEF IInv, RowsGood, CodeGood, CodeStays
    <2> QED BY <2>1, <2>2 DEF CodesMove
  <1>2. UNCHANGED calls => CallsMove
    BY DEF CallsMove, SignsIn, Idle
  <1> QED BY <1>1, <1>2 DEF UsersMove, IdentitiesMove, AccountsMove, VerifiersMove, UsedMove, Grows

LEMMA SetCodesOf ==
    ASSUME IInv, NEW K \in SUBSET CodeIds
    PROVE  /\ SetCodes(K, "consumed") \in [CodeIds -> Code]
           /\ \A k \in CodeIds : /\ SetCodes(K, "consumed")[k].user = codes[k].user
                                 /\ SetCodes(K, "consumed")[k].type = codes[k].type
                                 /\ SetCodes(K, "consumed")[k].state =
                                       IF k \in K THEN "consumed" ELSE codes[k].state
  <1>1. ASSUME NEW k \in CodeIds
        PROVE  /\ SetCodes(K, "consumed")[k] \in Code
               /\ SetCodes(K, "consumed")[k].user = codes[k].user
               /\ SetCodes(K, "consumed")[k].type = codes[k].type
               /\ SetCodes(K, "consumed")[k].state = IF k \in K THEN "consumed" ELSE codes[k].state
    <2>1. codes[k] \in Code
      BY Typed DEF IInv
    <2>2. SetCodes(K, "consumed")[k] =
             IF k \in K THEN [codes[k] EXCEPT !.state = "consumed"] ELSE codes[k]
      BY DEF SetCodes
    <2> QED BY <2>1, <2>2 DEF Code, CodeStates
  <1>2. SetCodes(K, "consumed") = [k \in CodeIds |-> SetCodes(K, "consumed")[k]]
    BY DEF SetCodes
  <1> QED BY <1>1, <1>2

LEMMA CodeConsumed ==
    ASSUME IInv, NEW k \in CodeIds, codes[k].state = "live", ConsumeVerificationCode(k), UNCHANGED mail
    PROVE  CodesTypeOK' /\ CodesMove /\ k < nextCode /\ codes'[k].state # "live"
  <1>1. codes' = SetCodes({k}, "consumed") /\ UNCHANGED nextCode
    BY DEF ConsumeVerificationCode
  <1>2. nextCode \in Nat /\ k < nextCode
    BY Typed, Numbers DEF IInv, RowsGood, CodeGood
  <1>3. \A j \in CodeIds : /\ codes'[j].user = codes[j].user /\ codes'[j].type = codes[j].type
                           /\ codes'[j].state = IF j \in {k} THEN "consumed" ELSE codes[j].state
    BY <1>1, SetCodesOf
  <1>4. CodesTypeOK'
    BY <1>1, SetCodesOf DEF IInv, EmailTypeOK, CodesTypeOK
  <1>5. \A j \in CodeIds : IF j < nextCode THEN CodeStays(j) ELSE CodeGood(j)'
    BY <1>1, <1>2, <1>3 DEF IInv, RowsGood, CodeGood, CodeStays
  <1> QED BY <1>1, <1>2, <1>3, <1>4, <1>5 DEF CodesMove

LEMMA CodeCreated ==
    ASSUME IInv, NEW u \in Users, users'[u].live, NEW type \in CodeTypes, NEW e \in Emails,
           NEW otp \in BOOLEAN, CreateVerificationCode(u, type), CodeMail(nextCode, e, otp),
           type = "email_verification" => users'[u].email = e
    PROVE  CodesTypeOK' /\ CodesMove /\ mail' \in [CodeIds -> [to : Addresses, otp : BOOLEAN]]
  <1> DEFINE K == PageOfCodes(u, type)
             row == [state |-> "live", user |-> u, type |-> type, expired |-> FALSE]
             sent == [to |-> e, otp |-> otp]
  <1>1. /\ nextCode \in CodeIds /\ nextCode \in Nat /\ nextCode' = nextCode + 1
        /\ codes' = [SetCodes(K, "consumed") EXCEPT ![nextCode] = row]
        /\ mail' = [mail EXCEPT ![nextCode] = sent]
    BY Numbers DEF CreateVerificationCode, CodeMail
  <1>2. /\ row \in Code /\ row.state = "live" /\ row.user = u /\ row.type = type
        /\ sent \in [to : Addresses, otp : BOOLEAN] /\ sent.to = e
    BY DEF Code, CodeStates, Addresses
  <1>3. K \in SUBSET CodeIds /\ \A k \in K : codes[k].state # "none"
    BY DEF PageOfCodes, CodesOf, CodeExists
  <1> HIDE DEF K, row, sent
  <1>4. /\ codes' \in [CodeIds -> Code] /\ codes'[nextCode] = row
        /\ \A k \in CodeIds : k # nextCode => codes'[k] = SetCodes(K, "consumed")[k]
    BY <1>1, <1>2, <1>3, SetCodesOf
  <1>5. /\ mail' \in [CodeIds -> [to : Addresses, otp : BOOLEAN]] /\ mail'[nextCode] = sent
        /\ \A k \in CodeIds : k # nextCode => mail'[k] = mail[k]
    BY <1>1, <1>2 DEF IInv, EmailTypeOK
  <1>6. nextCode + 1 \in 1 .. MaxCodes + 1
    BY <1>1, Numbers DEF CodeIds
  <1>7. ASSUME NEW k \in CodeIds, k < nextCode PROVE CodeStays(k)
    <2>1. k # nextCode /\ codes[k].state # "none"
      BY <1>1, <1>7, Numbers DEF IInv, RowsGood, CodeGood
    <2> QED BY <1>3, <1>4, <1>5, <2>1, SetCodesOf DEF CodeStays
  <1>8. ASSUME NEW k \in CodeIds, ~(k < nextCode) PROVE CodeGood(k)'
    <2>1. CASE k = nextCode
      <3>1. k < nextCode'
        BY <1>1, <2>1
      <3> QED BY <1>2, <1>4, <1>5, <2>1, <3>1, Numbers DEF CodeGood
    <2>2. CASE k # nextCode
      <3>1. ~(k < nextCode') /\ codes[k].state = "none"
        BY <1>1, <1>8, <2>2, Numbers DEF IInv, RowsGood, CodeGood
      <3>2. k \notin K
        BY <1>3, <3>1
      <3> QED BY <1>3, <1>4, <2>2, <3>1, <3>2, SetCodesOf DEF CodeGood
    <2> QED BY <2>1, <2>2
  <1> QED BY <1>1, <1>4, <1>5, <1>6, <1>7, <1>8 DEF CodesTypeOK, CodesMove

\* PatchUser, for an address that is the user's, or nobody's, or was left by someone.
LEMMA Patched ==
    ASSUME IInv, NEW u \in Users, NEW e \in Emails, NEW verified \in BOOLEAN,
           PatchUser(u, e, verified),
           \/ e \in moved \/ UsersAt(e) = {}
           \/ users[u].live /\ users[u].email = e,
           ~verified => ~users[u].live \/ users[u].email = e,
           verified => e \in proven'[u]
    PROVE  /\ UsersMove /\ users' \in [Users -> User]
           /\ moved' \subseteq Emails /\ moved \subseteq moved'
           /\ users'[u].live /\ users'[u].email = e
  <1>1. PICK row \in User : /\ row.live /\ row.email = e /\ row.verified = verified
                            /\ users' = [users EXCEPT ![u] = row]
    <2> DEFINE row == [users[u] EXCEPT !.live = TRUE, !.email = e, !.verified = verified]
    <2>1. row \in User /\ row.live /\ row.email = e /\ row.verified = verified
      BY Typed DEF IInv, User, Addresses
    <2>2. users' = [users EXCEPT ![u] = row]
      BY DEF PatchUser
    <2> HIDE DEF row
    <2> QED BY <2>1, <2>2
  <1>2. /\ users' \in [Users -> User] /\ users'[u] = row
        /\ \A v \in Users : v # u => users'[v] = users[v]
    BY <1>1 DEF IInv, EmailTypeOK
  <1>3. /\ moved' = moved \cup ({users[u].email} \ {e, NoMail})
        /\ moved \subseteq Emails /\ users[u].email \in Addresses
    BY Typed DEF PatchUser, IInv, EmailTypeOK, User
  <1>4. UserMove(u)
    BY <1>1, <1>2, <1>3 DEF UserMove, Addresses
  <1> QED BY <1>1, <1>2, <1>3, <1>4 DEF UsersMove, Addresses

LEMMA Proved ==
    ASSUME IInv, NEW u \in Users, NEW e \in Emails, Prove(u, e)
    PROVE  /\ proven' \in [Users -> SUBSET Emails] /\ e \in proven'[u]
           /\ \A v \in Users : proven[v] \subseteq proven'[v]
  BY DEF Prove, IInv, EmailTypeOK

LEMMA IdentityPut ==
    ASSUME IInv, NEW i \in IdentityIds, NEW row \in Identity,
           identities' = [identities EXCEPT ![i] = row],
           identities[i].provider # "none" =>
              row.provider = identities[i].provider /\ row.user = identities[i].user,
           row.provider \in Methods =>
              /\ users'[row.user].live /\ users'[row.user].email = row.key
              /\ row.subject = row.key
    PROVE  identities' \in [IdentityIds -> Identity] /\ IdentitiesMove /\ identities'[i] = row
  <1>1. /\ identities' \in [IdentityIds -> Identity] /\ identities'[i] = row
        /\ \A j \in IdentityIds : j # i => identities'[j] = identities[j]
    BY DEF IInv, EmailTypeOK
  <1> QED BY <1>1 DEF IdentitiesMove

LEMMA AccountPut ==
    ASSUME IInv, NEW a \in AccountIds, NEW row \in Account,
           accounts' = [accounts EXCEPT ![a] = row],
           identities'[row.identity].provider = "password",
           \/ row.by \in proven'[identities'[row.identity].user]
           \/ row.by = NoMail /\ identities'[row.identity].user \in signedUp'
    PROVE  accounts' \in [AccountIds -> Account] /\ AccountsMove
  <1>1. /\ accounts' \in [AccountIds -> Account] /\ accounts'[a] = row
        /\ \A b \in AccountIds : b # a => accounts'[b] = accounts[b]
    BY DEF IInv, EmailTypeOK
  <1> QED BY <1>1 DEF AccountsMove, AccountGood

\* The identity and the account of a first password.
LEMMA Inserted ==
    ASSUME IInv, NEW u \in Users, NEW i \in FreshIdentities, NEW a \in FreshAccounts,
           NEW by \in Addresses, InsertPassword(u, i, a, by),
           by \in proven'[u] \/ (by = NoMail /\ u \in signedUp')
    PROVE  /\ identities' \in [IdentityIds -> Identity] /\ IdentitiesMove
           /\ accounts' \in [AccountIds -> Account] /\ AccountsMove
  <1> DEFINE row == [provider |-> "password", user |-> u, key |-> NoMail, subject |-> NoMail]
             account == [identity |-> i, by |-> by]
  <1>1. /\ identities' = [identities EXCEPT ![i] = row]
        /\ accounts' = [accounts EXCEPT ![a] = account]
        /\ i \in IdentityIds /\ a \in AccountIds /\ identities[i].provider = "none"
    BY FreshRows DEF InsertPassword
  <1>2. row \in Identity /\ row.provider = "password" /\ row.user = u
    BY DEF Identity
  <1>3. account \in Account /\ account.identity = i /\ account.by = by
    BY <1>1 DEF Account
  <1> HIDE DEF row, account
  <1>4. identities' \in [IdentityIds -> Identity] /\ IdentitiesMove /\ identities'[i] = row
    BY <1>1, <1>2, Numbers, IdentityPut
  <1>5. accounts' \in [AccountIds -> Account] /\ AccountsMove
    BY <1>1, <1>2, <1>3, <1>4, AccountPut
  <1> QED BY <1>4, <1>5

LEMMA UsedTyped ==
    ASSUME IInv, NEW m \in Mails, Use(m)
    PROVE  used' \subseteq Mails /\ reused' \subseteq used'
  BY DEF Use, IInv, EmailTypeOK

LEMMA CallPut ==
    ASSUME IInv, NEW c \in Calls, NEW row \in Call, calls' = [calls EXCEPT ![c] = row],
           CallGood(c)',
           row.op \in {"lookUp", "provision"} =>
              \/ SignsIn(c) /\ row.row = calls[c].row
              \/ verifiers[row.row].state = "live"
    PROVE  calls' \in [Calls -> Call \cup {NoCall}] /\ CallsMove /\ calls'[c] = row
  <1>1. /\ calls' \in [Calls -> Call \cup {NoCall}] /\ calls'[c] = row
        /\ \A d \in Calls : d # c => calls'[d] = calls[d]
    BY DEF IInv, EmailTypeOK
  <1> QED BY <1>1 DEF CallsMove, SignsIn, Idle

LEMMA Returned ==
    ASSUME IInv, NEW c \in Calls, Return(c)
    PROVE  calls' \in [Calls -> Call \cup {NoCall}] /\ CallsMove /\ ~SignsIn(c)'
  <1>1. /\ calls' \in [Calls -> Call \cup {NoCall}] /\ calls'[c] = NoCall
        /\ \A d \in Calls : d # c => calls'[d] = calls[d]
    BY DEF Return, IInv, EmailTypeOK
  <1> QED BY <1>1 DEF CallsMove, CallGood, SignsIn, Idle

LEMMA Answered ==
    ASSUME IInv, NEW c \in Calls, NEW session \in BOOLEAN, Answer(c, session)
    PROVE  calls' \in [Calls -> Call \cup {NoCall}] /\ CallsMove /\ ~SignsIn(c)'
  <1> DEFINE row == [op |-> "answered", email |-> NoMail, user |-> Nobody, row |-> 0,
                     method |-> "none", identity |-> 0, session |-> session]
  <1>1. row \in Call /\ row.op = "answered"
    BY DEF Call, Addresses
  <1>2. calls' = [calls EXCEPT ![c] = row]
    BY DEF Answer
  <1> HIDE DEF row
  <1>3. calls'[c] = row
    BY <1>2 DEF IInv, EmailTypeOK
  <1>4. CallGood(c)'
    BY <1>1, <1>3 DEF CallGood
  <1>5. calls' \in [Calls -> Call \cup {NoCall}] /\ CallsMove
    BY <1>1, <1>2, <1>4, CallPut
  <1> QED BY <1>1, <1>3, <1>5 DEF SignsIn


LEMMA CodeExpired ==
    ASSUME IInv, NEW k \in CodeIds, ExpireCode(k), UNCHANGED mail
    PROVE  CodesTypeOK' /\ CodesMove
  <1>1. PICK row \in Code : /\ codes' = [codes EXCEPT ![k] = row] /\ row.user = codes[k].user
                            /\ row.type = codes[k].type /\ row.state = codes[k].state
    <2> DEFINE row == [codes[k] EXCEPT !.expired = TRUE]
    <2>1. /\ row \in Code /\ row.user = codes[k].user
          /\ row.type = codes[k].type /\ row.state = codes[k].state
      BY Typed DEF IInv, Code
    <2>2. codes' = [codes EXCEPT ![k] = row]
      BY DEF ExpireCode
    <2> HIDE DEF row
    <2> QED BY <2>1, <2>2
  <1>2. /\ codes' \in [CodeIds -> Code] /\ UNCHANGED nextCode /\ nextCode \in Nat
        /\ \A j \in CodeIds : /\ codes'[j].user = codes[j].user /\ codes'[j].type = codes[j].type
                              /\ codes'[j].state = codes[j].state
    BY <1>1, Typed DEF ExpireCode, IInv, EmailTypeOK, CodesTypeOK
  <1>3. CodesTypeOK'
    BY <1>2 DEF IInv, EmailTypeOK, CodesTypeOK
  <1>4. \A j \in CodeIds : IF j < nextCode THEN CodeStays(j) ELSE CodeGood(j)'
    BY <1>2 DEF IInv, RowsGood, CodeGood, CodeStays
  <1> QED BY <1>2, <1>3, <1>4 DEF CodesMove

LEMMA VerifierOver ==
    ASSUME IInv, NEW n \in VerifierIds, verifiers[n].state = "live",
           verifiers' = [verifiers EXCEPT ![n].state = "over"]
    PROVE  verifiers' \in [VerifierIds -> Verifier] /\ VerifiersMove /\ verifiers'[n].state = "over"
  <1>1. PICK row \in Verifier : /\ verifiers' = [verifiers EXCEPT ![n] = row] /\ row.state = "over"
                                /\ row.method = verifiers[n].method /\ row.email = verifiers[n].email
    <2> DEFINE row == [verifiers[n] EXCEPT !.state = "over"]
    <2>1. /\ row \in Verifier /\ row.state = "over"
          /\ row.method = verifiers[n].method /\ row.email = verifiers[n].email
      BY Typed DEF IInv, Verifier
    <2>2. verifiers' = [verifiers EXCEPT ![n] = row]
      OBVIOUS
    <2> HIDE DEF row
    <2> QED BY <2>1, <2>2
  <1>2. /\ verifiers' \in [VerifierIds -> Verifier] /\ verifiers'[n] = row
        /\ \A j \in VerifierIds : j # n => verifiers'[j] = verifiers[j]
    BY <1>1 DEF IInv, EmailTypeOK
  <1>3. verifiers[n].method \in Methods /\ verifiers[n].email \in Emails
    BY DEF IInv, RowsGood, VerifierGood
  <1> QED BY <1>1, <1>2, <1>3 DEF VerifiersMove, VerifierGood

LEMMA Begun ==
    ASSUME IInv, NEW c \in Calls, NEW op \in {"lookUp", "readCode", "readTarget"},
           NEW e \in Emails, NEW u \in Users \cup {Nobody}, NEW n \in Nat,
           NEW m \in {"none"} \cup Methods, Begin(c, op, e, u, n, m),
           op = "lookUp" => /\ m \in Methods /\ n \in VerifierIds
                            /\ verifiers[n].state = "live" /\ verifiers'[n].state = "over",
           op = "readCode" => u \in Users /\ n \in CodeIds /\ n < nextCode' /\ ResetOtp(n)',
           op = "readTarget" => u \in Users
    PROVE  calls' \in [Calls -> Call \cup {NoCall}] /\ CallsMove
  <1>1. PICK row \in Call : /\ calls' = [calls EXCEPT ![c] = row]
                            /\ row.op = op /\ row.email = e /\ row.user = u /\ row.row = n
                            /\ row.method = m
    <2> DEFINE row == [op |-> op, email |-> e, user |-> u, row |-> n,
                       method |-> m, identity |-> 0, session |-> FALSE]
    <2>1. /\ row \in Call /\ row.op = op /\ row.email = e /\ row.user = u /\ row.row = n
          /\ row.method = m
      BY DEF Call, Addresses
    <2>2. calls' = [calls EXCEPT ![c] = row]
      BY DEF Begin
    <2> HIDE DEF row
    <2> QED BY <2>1, <2>2
  <1>2. calls'[c] = row
    BY <1>1 DEF IInv, EmailTypeOK
  <1>3. CallGood(c)'
    BY <1>1, <1>2 DEF CallGood
  <1> QED BY <1>1, <1>3, CallPut

LEMMA Went ==
    ASSUME IInv, NEW c \in Calls, ~Idle(c),
           NEW op \in {"provision", "readIdentity", "consumeCode", "link", "linkAccount"},
           Goto(c, op), UNCHANGED <<codes, nextCode, mail, verifiers>>,
           op = "provision" => calls[c].op = "lookUp",
           op = "readIdentity" => calls[c].op = "readCode",
           op = "consumeCode" => calls[c].op = "firstPassword",
           op \in {"link", "linkAccount"} => calls[c].op \in {"readTarget", "link"}
    PROVE  calls' \in [Calls -> Call \cup {NoCall}] /\ CallsMove
  <1>0. calls[c] \in Call /\ CallGood(c)
    BY Typed DEF IInv, RowsGood
  <1>1. PICK row \in Call : /\ calls' = [calls EXCEPT ![c] = row]
                            /\ row.op = op /\ row.email = calls[c].email /\ row.user = calls[c].user
                            /\ row.row = calls[c].row /\ row.method = calls[c].method
    <2> DEFINE row == [calls[c] EXCEPT !.op = op]
    <2>1. /\ row \in Call /\ row.op = op /\ row.email = calls[c].email /\ row.user = calls[c].user
          /\ row.row = calls[c].row /\ row.method = calls[c].method
      BY <1>0 DEF Call
    <2>2. calls' = [calls EXCEPT ![c] = row]
      BY DEF Goto
    <2> HIDE DEF row
    <2> QED BY <2>1, <2>2
  <1>2. calls'[c] = row
    BY <1>1 DEF IInv, EmailTypeOK
  <1>3. CallGood(c)'
    BY <1>0, <1>1, <1>2 DEF CallGood, ResetOtp
  <1>4. op = "provision" => SignsIn(c)
    BY DEF SignsIn
  <1> QED BY <1>1, <1>3, <1>4, CallPut

-----------------------------------------------------------------------------
(* The actions                                                             *)

LEMMA SignUpMoves ==
    ASSUME IInv, NEW e \in Emails, NEW sendMail \in BOOLEAN, SignUp(e, sendMail)
    PROVE  EmailTypeOK' /\ Moves
  <1>1. PICK u \in FreshUsers, i \in FreshIdentities, a \in FreshAccounts :
           /\ PatchUser(u, e, FALSE)
           /\ InsertPassword(u, i, a, NoMail)
           /\ signedUp' = signedUp \cup {u}
           /\ FirstCode(u, e, sendMail)
    BY DEF SignUp
  <1>2. /\ UNCHANGED <<linked, verifiers, calls, proven, relinked, used, reused>>
        /\ UsersAt(e) = {} /\ u \in Users /\ ~users[u].live
    BY DEF SignUp, FreshUsers
  <1>3. /\ UsersMove /\ users' \in [Users -> User]
        /\ moved' \subseteq Emails /\ moved \subseteq moved'
        /\ users'[u].live /\ users'[u].email = e
    <2>1. FALSE \in BOOLEAN /\ PatchUser(u, e, FALSE)
      BY <1>1
    <2> QED BY <1>2, <2>1, Patched
  <1>4. /\ identities' \in [IdentityIds -> Identity] /\ IdentitiesMove
        /\ accounts' \in [AccountIds -> Account] /\ AccountsMove
    <2>1. NoMail \in Addresses /\ u \in signedUp'
      BY <1>1 DEF Addresses
    <2> QED BY <1>1, <1>2, <2>1, Inserted
  <1>5. CodesTypeOK' /\ CodesMove /\ mail' \in [CodeIds -> [to : Addresses, otp : BOOLEAN]]
    <2>1. CASE UNCHANGED <<codesVars, mail>>
      BY <2>1, Quiet DEF codesVars, IInv, EmailTypeOK, CodesTypeOK
    <2>2. CASE CreateVerificationCode(u, "email_verification") /\ CodeMail(nextCode, e, FALSE)
      <3>1. "email_verification" \in CodeTypes /\ FALSE \in BOOLEAN
        BY Numbers
      <3> QED BY <1>2, <1>3, <2>2, <3>1, CodeCreated
    <2> QED BY <1>1, <2>1, <2>2 DEF FirstCode
  <1>6. VerifiersMove /\ CallsMove /\ UsedMove
    BY <1>2, Quiet
  <1>7. Grows
    BY <1>1, <1>2, <1>3 DEF Grows
  <1> QED BY <1>1, <1>2, <1>3, <1>4, <1>5, <1>6, <1>7 DEF IInv, EmailTypeOK, Moves

LEMMA SendCodeMoves ==
    ASSUME IInv, NEW type \in CodeTypes, NEW e \in Emails, NEW otp \in BOOLEAN, SendCode(type, e, otp)
    PROVE  EmailTypeOK' /\ Moves
  <1>1. PICK u \in UsersAt(e) : CreateVerificationCode(u, type)
    BY DEF SendCode
  <1>2. CodeMail(nextCode, e, otp) /\ UNCHANGED <<rowVars, verifiers, calls, historyVars>>
    BY DEF SendCode
  <1>3. CodesTypeOK' /\ CodesMove /\ mail' \in [CodeIds -> [to : Addresses, otp : BOOLEAN]]
    <2>1. u \in Users /\ users'[u].live /\ users'[u].email = e
      BY <1>2 DEF UsersAt, rowVars
    <2> QED BY <1>1, <1>2, <2>1, CodeCreated
  <1> QED BY <1>2, <1>3, Quiet DEF IInv, EmailTypeOK, Moves, rowVars, historyVars

LEMMA SendChangeCodeMoves ==
    ASSUME IInv, NEW u \in Users, NEW e \in Emails, SendChangeCode(u, e)
    PROVE  EmailTypeOK' /\ Moves
  <1>1. /\ CreateVerificationCode(u, "email_change") /\ CodeMail(nextCode, e, TRUE)
        /\ users[u].live /\ UNCHANGED <<rowVars, verifiers, calls, historyVars>>
    BY DEF SendChangeCode
  <1>2. CodesTypeOK' /\ CodesMove /\ mail' \in [CodeIds -> [to : Addresses, otp : BOOLEAN]]
    <2>1. "email_change" \in CodeTypes /\ TRUE \in BOOLEAN /\ users'[u].live
      BY <1>1, Numbers DEF rowVars
    <2> QED BY <1>1, <2>1, CodeCreated
  <1> QED BY <1>1, <1>2, Quiet DEF IInv, EmailTypeOK, Moves, rowVars, historyVars

LEMMA SendSignInMailMoves ==
    ASSUME IInv, NEW m \in Methods, NEW e \in Emails, SendSignInMail(m, e)
    PROVE  EmailTypeOK' /\ Moves
  <1>1. PICK n \in FreshVerifiers :
           verifiers' = [verifiers EXCEPT ![n] = [state |-> "live", method |-> m, email |-> e]]
    BY DEF SendSignInMail
  <1>2. /\ n \in VerifierIds /\ verifiers[n].state = "none"
        /\ UNCHANGED <<codesVars, rowVars, mail, calls, historyVars>>
    BY FreshRows DEF SendSignInMail
  <1>3. PICK row \in Verifier : /\ verifiers' = [verifiers EXCEPT ![n] = row]
                                /\ row.state = "live" /\ row.method = m /\ row.email = e
    <2> DEFINE row == [state |-> "live", method |-> m, email |-> e]
    <2>1. row \in Verifier /\ row.state = "live" /\ row.method = m /\ row.email = e
      BY DEF Verifier, Addresses
    <2>2. verifiers' = [verifiers EXCEPT ![n] = row]
      BY <1>1
    <2> HIDE DEF row
    <2> QED BY <2>1, <2>2
  <1>4. /\ verifiers' \in [VerifierIds -> Verifier] /\ verifiers'[n] = row
        /\ \A j \in VerifierIds : j # n => verifiers'[j] = verifiers[j]
    BY <1>2, <1>3 DEF IInv, EmailTypeOK
  <1>5. VerifiersMove
    BY <1>2, <1>3, <1>4 DEF VerifiersMove, VerifierGood
  <1> QED BY <1>2, <1>4, <1>5, Quiet
          DEF IInv, EmailTypeOK, CodesTypeOK, Moves, codesVars, rowVars, historyVars

\* Where a code that can be consumed went.
LEMMA CodeInUse ==
    ASSUME IInv, NEW k \in CodeIds, NEW type, Consumable(k, type)
    PROVE  /\ codes[k].state = "live" /\ codes[k].type = type /\ k < nextCode
           /\ codes[k].user \in Users /\ users[codes[k].user].live /\ mail[k].to \in Emails
           /\ <<"code", k>> \in Mails
  BY DEF Consumable, IInv, RowsGood, CodeGood, Mails

LEMMA VerifyEmailMoves ==
    ASSUME IInv, NEW k \in CodeIds, VerifyEmail(k)
    PROVE  EmailTypeOK' /\ Moves
  <1>1. PICK u \in Users : u = codes[k].user
    BY CodeInUse DEF VerifyEmail
  <1>2. PICK e \in Emails : e = mail[k].to
    BY CodeInUse DEF VerifyEmail
  <1>3. /\ codes[k].state = "live" /\ k < nextCode /\ <<"code", k>> \in Mails
        /\ codes[k].type = "email_verification" /\ users[u].live
        /\ ConsumeVerificationCode(k) /\ Prove(u, e) /\ Use(<<"code", k>>)
        /\ UNCHANGED <<identities, accounts, linked, verifiers, mail, calls,
                       signedUp, moved, relinked>>
    BY <1>1, <1>2, CodeInUse DEF VerifyEmail
  <1>4. CodesTypeOK' /\ CodesMove /\ codes'[k].state # "live"
    BY <1>3, CodeConsumed
  <1>5. /\ proven' \in [Users -> SUBSET Emails] /\ e \in proven'[u]
        /\ \A v \in Users : proven[v] \subseteq proven'[v]
    BY <1>3, Proved
  <1>6. /\ users[u].email # NoMail /\ users[u].email \in Addresses
        /\ u \in relinked \/ users[u].email = e \/ users[u].email \in proven[u]
    BY <1>1, <1>2, <1>3, Typed DEF IInv, RowsGood, CodeGood, User
  <1>7. PICK row \in User : /\ users' = [users EXCEPT ![u] = row]
                            /\ row.live /\ row.email = users[u].email
    <2> DEFINE row == [users[u] EXCEPT !.verified = TRUE]
    <2>1. row \in User /\ row.live /\ row.email = users[u].email
      BY <1>3, Typed DEF IInv, User
    <2>2. users' = [users EXCEPT ![u] = row]
      BY <1>1 DEF VerifyEmail
    <2> HIDE DEF row
    <2> QED BY <2>1, <2>2
  <1>8. /\ users' \in [Users -> User] /\ users'[u] = row
        /\ \A v \in Users : v # u => users'[v] = users[v]
    BY <1>7 DEF IInv, EmailTypeOK
  <1>9. UserMove(u)
    BY <1>3, <1>5, <1>6, <1>7, <1>8 DEF UserMove, Addresses
  <1>10. UsersMove
    BY <1>8, <1>9 DEF UsersMove
  <1>11. UsedMove
    BY <1>3, <1>4 DEF UsedMove
  <1>12. Grows
    BY <1>3, <1>5 DEF Grows
  <1> QED BY <1>3, <1>4, <1>5, <1>8, <1>10, <1>11, <1>12, Quiet, UsedTyped
          DEF IInv, EmailTypeOK, Moves

LEMMA ResetPasswordMoves ==
    ASSUME IInv, NEW k \in CodeIds, ResetPassword(k)
    PROVE  EmailTypeOK' /\ Moves
  <1>1. PICK u \in Users : u = codes[k].user
    BY CodeInUse DEF ResetPassword
  <1>2. PICK e \in Emails : e = mail[k].to
    BY CodeInUse DEF ResetPassword
  <1>3. /\ codes[k].state = "live" /\ k < nextCode /\ <<"code", k>> \in Mails
        /\ ConsumeVerificationCode(k) /\ Prove(u, e) /\ Use(<<"code", k>>)
        /\ UNCHANGED <<users, identities, linked, verifiers, mail, calls,
                       signedUp, moved, relinked>>
    BY <1>1, <1>2, CodeInUse DEF ResetPassword
  <1>4. CodesTypeOK' /\ CodesMove /\ codes'[k].state # "live"
    BY <1>3, CodeConsumed
  <1>5. /\ proven' \in [Users -> SUBSET Emails] /\ e \in proven'[u]
        /\ \A v \in Users : proven[v] \subseteq proven'[v]
    BY <1>3, Proved
  <1>6. PICK a \in AccountOf(u) : accounts' = [accounts EXCEPT ![a].by = e]
    BY <1>1, <1>2 DEF ResetPassword
  <1>7. /\ a \in AccountIds /\ accounts[a].identity \in IdentityIds
        /\ identities[accounts[a].identity].provider = "password"
        /\ identities[accounts[a].identity].user = u
    BY AccountRow, IdentityRow
  <1>8. PICK row \in Account : /\ accounts' = [accounts EXCEPT ![a] = row]
                               /\ row.identity = accounts[a].identity /\ row.by = e
    <2> DEFINE row == [accounts[a] EXCEPT !.by = e]
    <2>1. row \in Account /\ row.identity = accounts[a].identity /\ row.by = e
      BY <1>7, Typed DEF IInv, Account, Addresses
    <2>2. accounts' = [accounts EXCEPT ![a] = row]
      BY <1>6
    <2> HIDE DEF row
    <2> QED BY <2>1, <2>2
  <1>9. accounts' \in [AccountIds -> Account] /\ AccountsMove
    BY <1>3, <1>5, <1>7, <1>8, AccountPut
  <1>10. UsedMove
    BY <1>3, <1>4 DEF UsedMove
  <1>11. Grows
    BY <1>3, <1>5 DEF Grows
  <1> QED BY <1>3, <1>4, <1>5, <1>9, <1>10, <1>11, Quiet, UsedTyped DEF IInv, EmailTypeOK, Moves

\* What the calls that set a first password carry.
LEMMA ResetCall ==
    ASSUME IInv, NEW c \in Calls, ~Idle(c),
           calls[c].op \in {"readCode", "readIdentity", "firstPassword", "consumeCode"}
    PROVE  /\ calls[c] \in Call /\ calls[c].email \in Emails /\ calls[c].user \in Users
           /\ calls[c].row \in CodeIds /\ calls[c].row < nextCode /\ ResetOtp(calls[c].row)
           /\ <<"code", calls[c].row>> \in Mails
  BY Typed DEF IInv, RowsGood, CallGood, Mails

LEMMA ResetByOtpMoves ==
    ASSUME IInv, NEW c \in Calls, NEW k \in CodeIds, ResetByOtp(c, k)
    PROVE  EmailTypeOK' /\ Moves
  <1>1. PICK u \in Users : u = codes[k].user
    BY CodeInUse DEF ResetByOtp
  <1>2. PICK e \in Emails : e = mail[k].to
    BY CodeInUse DEF ResetByOtp
  <1>3. /\ k < nextCode /\ ResetOtp(k) /\ k \in Nat
        /\ Begin(c, "readCode", e, u, k, "none")
        /\ UNCHANGED <<codes, nextCode, rowVars, verifiers, mail, historyVars>>
    BY <1>1, <1>2, CodeInUse, Numbers DEF ResetByOtp, ResetOtp, codesVars
  <1>4. ResetOtp(k)' /\ k < nextCode'
    BY <1>3 DEF ResetOtp
  <1>5. calls' \in [Calls -> Call \cup {NoCall}] /\ CallsMove
    <2>1. "readCode" \in {"lookUp", "readCode", "readTarget"} /\ "none" \in {"none"} \cup Methods
          /\ u \in Users \cup {Nobody}
      OBVIOUS
    <2> QED BY <1>3, <1>4, <2>1, Begun
  <1> QED BY <1>3, <1>5, Quiet DEF IInv, EmailTypeOK, CodesTypeOK, Moves, rowVars, historyVars

LEMMA ReadCodeMoves ==
    ASSUME IInv, NEW c \in Calls, ReadCode(c)
    PROVE  EmailTypeOK' /\ Moves
  <1>1. /\ ~Idle(c) /\ calls[c].op = "readCode"
        /\ UNCHANGED <<codes, nextCode, rowVars, verifiers, mail, historyVars>>
        /\ Goto(c, "readIdentity") \/ Return(c)
    BY DEF ReadCode, At, codesVars
  <1>2. calls' \in [Calls -> Call \cup {NoCall}] /\ CallsMove
    BY <1>1, Returned, Went
  <1> QED BY <1>1, <1>2, Quiet DEF IInv, EmailTypeOK, CodesTypeOK, Moves, rowVars, historyVars

LEMMA ReadIdentityMoves ==
    ASSUME IInv, NEW c \in Calls, ReadIdentity(c)
    PROVE  EmailTypeOK' /\ Moves
  <1>1. /\ ~Idle(c) /\ calls[c].op = "readIdentity"
        /\ UNCHANGED <<codes, nextCode, rowVars, verifiers, mail, historyVars>>
    BY DEF ReadIdentity, At, codesVars
  <1> DEFINE found == IdentityOf(calls[c].user, "password")
             i == IF found = {} THEN 0 ELSE First(found)
  <1>2. i # 0 => i \in IdentityIds /\ identities[i].provider = "password"
                 /\ identities[i].user = calls[c].user
    <2> SUFFICES ASSUME found # {}
                 PROVE  /\ First(found) \in IdentityIds
                        /\ identities[First(found)].provider = "password"
                        /\ identities[First(found)].user = calls[c].user
      OBVIOUS
    <2>1. found \in SUBSET Nat
      BY IdentityRow, Numbers DEF IdentityIds
    <2>2. First(found) \in found
      <3> HIDE DEF found
      <3> QED BY <2>1, FirstRow DEF FirstOf
    <2> QED BY <2>2, IdentityRow
  <1>3. i \in {0} \cup IdentityIds
    BY <1>2
  <1>4. calls[c] \in Call /\ CallGood(c)
    BY <1>1, Typed DEF IInv, RowsGood
  <1>5. PICK row \in Call : /\ calls' = [calls EXCEPT ![c] = row]
                            /\ row.op = "firstPassword" /\ row.email = calls[c].email
                            /\ row.user = calls[c].user /\ row.row = calls[c].row
                            /\ row.identity = i
    <2> DEFINE row == [calls[c] EXCEPT !.op = "firstPassword", !.identity = i]
    <2>0. calls' = [calls EXCEPT ![c].op = "firstPassword", ![c].identity = i]
      BY DEF ReadIdentity
    <2> HIDE DEF i
    <2>1. /\ row \in Call /\ row.op = "firstPassword" /\ row.email = calls[c].email
          /\ row.user = calls[c].user /\ row.row = calls[c].row /\ row.identity = i
      BY <1>3, <1>4 DEF Call
    <2>2. calls' = [calls EXCEPT ![c] = row]
      <3>1. calls \in [Calls -> Call \cup {NoCall}]
        BY DEF IInv, EmailTypeOK
      <3> QED BY <2>0, <3>1
    <2> HIDE DEF row
    <2> QED BY <2>1, <2>2
  <1> HIDE DEF i
  <1>6. calls'[c] = row
    BY <1>5 DEF IInv, EmailTypeOK
  <1>7. CallGood(c)'
    BY <1>1, <1>2, <1>4, <1>5, <1>6 DEF CallGood, ResetOtp, rowVars
  <1>8. calls' \in [Calls -> Call \cup {NoCall}] /\ CallsMove
    BY <1>5, <1>7, CallPut
  <1> QED BY <1>1, <1>8, Quiet DEF IInv, EmailTypeOK, CodesTypeOK, Moves, rowVars, historyVars

LEMMA FirstPasswordMoves ==
    ASSUME IInv, NEW c \in Calls, FirstPassword(c)
    PROVE  EmailTypeOK' /\ Moves
  <1>1. /\ ~Idle(c) /\ calls[c].op = "firstPassword"
        /\ Use(<<"code", calls[c].row>>) /\ Goto(c, "consumeCode")
        /\ UNCHANGED <<codes, nextCode, linked, verifiers, mail, signedUp, relinked>>
    BY DEF FirstPassword, At, codesVars
  <1>2. PICK k \in CodeIds : k = calls[c].row /\ k < nextCode /\ ResetOtp(k) /\ <<"code", k>> \in Mails
    BY <1>1, ResetCall
  <1>3. PICK e \in Emails : e = calls[c].email
    BY <1>1, ResetCall
  <1>4. calls' \in [Calls -> Call \cup {NoCall}] /\ CallsMove
    BY <1>1, Went
  <1>5. UsedMove
    BY <1>1, <1>2 DEF UsedMove
  <1>6. CASE /\ calls[c].identity # 0
             /\ \E a \in FreshAccounts :
                   accounts' = [accounts EXCEPT ![a] = [identity |-> calls[c].identity,
                                                        by |-> calls[c].email]]
             /\ Prove(calls[c].user, calls[c].email)
             /\ UNCHANGED <<users, identities, moved>>
    <2>1. PICK u \in Users : u = calls[c].user
      BY <1>1, ResetCall
    <2>2. PICK i \in IdentityIds : /\ i = calls[c].identity
                                   /\ identities[i].provider = "password" /\ identities[i].user = u
      BY <1>1, <1>6, <2>1, Typed DEF IInv, RowsGood, CallGood, Call
    <2>3. PICK a \in FreshAccounts : accounts' = [accounts EXCEPT ![a] = [identity |-> i, by |-> e]]
      BY <1>3, <1>6, <2>2
    <2>4. PICK row \in Account : /\ accounts' = [accounts EXCEPT ![a] = row]
                                 /\ row.identity = i /\ row.by = e
      <3> DEFINE row == [identity |-> i, by |-> e]
      <3>1. row \in Account /\ row.identity = i /\ row.by = e
        BY DEF Account, Addresses
      <3>2. accounts' = [accounts EXCEPT ![a] = row]
        BY <2>3
      <3> HIDE DEF row
      <3> QED BY <3>1, <3>2
    <2>5. /\ proven' \in [Users -> SUBSET Emails] /\ e \in proven'[u]
          /\ \A v \in Users : proven[v] \subseteq proven'[v]
      BY <1>3, <1>6, <2>1, Proved
    <2>6. a \in AccountIds
      BY FreshRows
    <2>7. accounts' \in [AccountIds -> Account] /\ AccountsMove
      BY <1>6, <2>2, <2>4, <2>5, <2>6, AccountPut
    <2>8. Grows
      BY <1>1, <1>6, <2>5 DEF Grows
    <2> QED BY <1>1, <1>2, <1>4, <1>5, <1>6, <2>5, <2>7, <2>8, Quiet, UsedTyped
            DEF IInv, EmailTypeOK, CodesTypeOK, Moves
  <1>7. CASE \E u \in UserOrNew(calls[c].email), i \in FreshIdentities, a \in FreshAccounts :
                /\ PatchUser(u, calls[c].email, TRUE)
                /\ InsertPassword(u, i, a, calls[c].email)
                /\ Prove(u, calls[c].email)
    <2>1. PICK u \in UserOrNew(e), i \in FreshIdentities, a \in FreshAccounts :
             PatchUser(u, e, TRUE) /\ InsertPassword(u, i, a, e) /\ Prove(u, e)
      BY <1>3, <1>7
    <2>2. /\ u \in Users
          /\ (users[u].live /\ users[u].email = e) \/ UsersAt(e) = {}
      BY UserRow
    <2>3. /\ proven' \in [Users -> SUBSET Emails] /\ e \in proven'[u]
          /\ \A v \in Users : proven[v] \subseteq proven'[v]
      BY <2>1, <2>2, Proved
    <2>4. /\ UsersMove /\ users' \in [Users -> User]
          /\ moved' \subseteq Emails /\ moved \subseteq moved'
      <3>1. TRUE \in BOOLEAN
        OBVIOUS
      <3> QED BY <2>1, <2>2, <2>3, <3>1, Patched
    <2>5. /\ identities' \in [IdentityIds -> Identity] /\ IdentitiesMove
          /\ accounts' \in [AccountIds -> Account] /\ AccountsMove
      <3>1. e \in Addresses
        BY DEF Addresses
      <3> QED BY <2>1, <2>2, <2>3, <3>1, Inserted
    <2>6. Grows
      BY <1>1, <2>3, <2>4 DEF Grows
    <2> QED BY <1>1, <1>2, <1>4, <1>5, <2>3, <2>4, <2>5, <2>6, Quiet, UsedTyped
            DEF IInv, EmailTypeOK, CodesTypeOK, Moves
  <1> QED BY <1>6, <1>7 DEF FirstPassword

LEMMA ConsumeCodeMoves ==
    ASSUME IInv, NEW c \in Calls, ConsumeCode(c)
    PROVE  EmailTypeOK' /\ Moves
  <1>1. Return(c) /\ UNCHANGED <<rowVars, verifiers, mail, historyVars>>
    BY DEF ConsumeCode
  <1>2. CodesTypeOK' /\ CodesMove
    <2>1. CASE UNCHANGED codesVars
      BY <1>1, <2>1, Quiet DEF codesVars, IInv, EmailTypeOK, CodesTypeOK
    <2>2. CASE Consumable(calls[c].row, "password_reset") /\ ConsumeVerificationCode(calls[c].row)
      <3>1. calls[c].row \in CodeIds
        BY ResetCall DEF ConsumeCode, At
      <3> QED BY <1>1, <2>2, <3>1, CodeConsumed DEF Consumable
    <2> QED BY <2>1, <2>2 DEF ConsumeCode
  <1> QED BY <1>1, <1>2, Quiet, Returned DEF IInv, EmailTypeOK, Moves, rowVars, historyVars

LEMMA ChangeEmailMoves ==
    ASSUME IInv, NEW k \in CodeIds, ChangeEmail(k)
    PROVE  EmailTypeOK' /\ Moves
  <1>0. Consumable(k, "email_change")
    BY DEF ChangeEmail, ChangeEmailTo
  <1>1. PICK u \in Users : u = codes[k].user
    BY <1>0, CodeInUse
  <1>2. PICK e \in Emails : e = mail[k].to
    BY <1>0, CodeInUse
  <1>3. /\ codes[k].state = "live" /\ k < nextCode /\ <<"code", k>> \in Mails
        /\ UsersAt(e) = {} /\ PatchUser(u, e, TRUE) /\ MoveIdentity(u, e)
        /\ ConsumeVerificationCode(k) /\ Prove(u, e) /\ Use(<<"code", k>>)
        /\ UNCHANGED <<accounts, linked, verifiers, mail, calls, signedUp, relinked>>
    BY <1>0, <1>1, <1>2, CodeInUse DEF ChangeEmail, ChangeEmailTo
  <1>4. CodesTypeOK' /\ CodesMove /\ codes'[k].state # "live"
    BY <1>3, CodeConsumed
  <1>5. /\ proven' \in [Users -> SUBSET Emails] /\ e \in proven'[u]
        /\ \A v \in Users : proven[v] \subseteq proven'[v]
    BY <1>3, Proved
  <1>6. /\ UsersMove /\ users' \in [Users -> User]
        /\ moved' \subseteq Emails /\ moved \subseteq moved'
        /\ users'[u].live /\ users'[u].email = e
    <2>1. TRUE \in BOOLEAN
      OBVIOUS
    <2> QED BY <1>3, <1>5, <2>1, Patched
  <1>7. ASSUME NEW i \in IdentityIds
        PROVE  /\ identities'[i] \in Identity
               /\ identities[i].provider # "none" =>
                     /\ identities'[i].provider = identities[i].provider
                     /\ identities'[i].user = identities[i].user
               /\ identities'[i].provider \in Methods =>
                     \A x \in {identities'[i].key, identities'[i].subject} :
                        \/ /\ users'[identities'[i].user].live
                           /\ users'[identities'[i].user].email = x
                        \/ /\ identities[i].provider \in Methods
                           /\ x \in {identities[i].key, identities[i].subject}
    <2>0. identities[i] \in Identity
      BY Typed DEF IInv
    <2>1. CASE i \notin IdentityOf(u, "emailOtp")
      <3>1. identities'[i] = identities[i]
        BY <1>3, <2>1 DEF MoveIdentity
      <3> QED BY <2>0, <3>1
    <2>2. CASE i \in IdentityOf(u, "emailOtp")
      <3>1. identities[i].provider = "emailOtp" /\ identities[i].user = u
        BY <2>2, IdentityRow
      <3>2. identities'[i] = [identities[i] EXCEPT !.subject = e]
        BY <1>3, <2>2 DEF MoveIdentity
      <3>3. /\ identities'[i] \in Identity /\ identities'[i].provider = "emailOtp"
            /\ identities'[i].user = u /\ identities'[i].key = identities[i].key
            /\ identities'[i].subject = e
        BY <2>0, <3>1, <3>2 DEF Identity
      <3> QED BY <1>6, <3>1, <3>3
    <2> QED BY <2>1, <2>2
  <1>8. identities' \in [IdentityIds -> Identity] /\ IdentitiesMove
    <2>1. identities' \in [IdentityIds -> Identity]
      <3>1. identities' = [i \in IdentityIds |-> identities'[i]]
        BY <1>3 DEF MoveIdentity
      <3> QED BY <1>7, <3>1
    <2>2. IdentitiesMove
      BY <1>7 DEF IdentitiesMove
    <2> QED BY <2>1, <2>2
  <1>9. UsedMove
    BY <1>3, <1>4 DEF UsedMove
  <1>10. Grows
    BY <1>3, <1>5, <1>6 DEF Grows
  <1> QED BY <1>3, <1>4, <1>5, <1>6, <1>8, <1>9, <1>10, Quiet, UsedTyped
          DEF IInv, EmailTypeOK, Moves

LEMMA ConsumeVerifierMoves ==
    ASSUME IInv, NEW c \in Calls, NEW n \in VerifierIds, ConsumeVerifier(c, n)
    PROVE  EmailTypeOK' /\ Moves
  <1>1. /\ verifiers[n].state = "live" /\ n \in Nat
        /\ Begin(c, "lookUp", verifiers[n].email, Nobody, n, verifiers[n].method)
        /\ verifiers' = [verifiers EXCEPT ![n].state = "over"]
        /\ UNCHANGED <<codes, nextCode, rowVars, mail, historyVars>>
    BY Numbers DEF ConsumeVerifier, codesVars, VerifierIds
  <1>2. PICK e \in Emails, m \in Methods : e = verifiers[n].email /\ m = verifiers[n].method
    BY <1>1 DEF IInv, RowsGood, VerifierGood
  <1>3. verifiers' \in [VerifierIds -> Verifier] /\ VerifiersMove /\ verifiers'[n].state = "over"
    BY <1>1, VerifierOver
  <1>4. calls' \in [Calls -> Call \cup {NoCall}] /\ CallsMove
    <2>1. /\ "lookUp" \in {"lookUp", "readCode", "readTarget"}
          /\ m \in {"none"} \cup Methods /\ Nobody \in Users \cup {Nobody}
      OBVIOUS
    <2> QED BY <1>1, <1>2, <1>3, <2>1, Begun
  <1> QED BY <1>1, <1>3, <1>4, Quiet
          DEF IInv, EmailTypeOK, CodesTypeOK, Moves, rowVars, historyVars

LEMMA ExpireVerifierMoves ==
    ASSUME IInv, NEW n \in VerifierIds, ExpireVerifier(n)
    PROVE  EmailTypeOK' /\ Moves
  <1>1. /\ verifiers[n].state = "live"
        /\ verifiers' = [verifiers EXCEPT ![n].state = "over"]
        /\ UNCHANGED <<codes, nextCode, rowVars, mail, calls, historyVars>>
    BY DEF ExpireVerifier, codesVars
  <1>2. verifiers' \in [VerifierIds -> Verifier] /\ VerifiersMove
    BY <1>1, VerifierOver
  <1> QED BY <1>1, <1>2, Quiet DEF IInv, EmailTypeOK, CodesTypeOK, Moves, rowVars, historyVars

LEMMA LookUpMoves ==
    ASSUME IInv, NEW c \in Calls, LookUp(c)
    PROVE  EmailTypeOK' /\ Moves
  <1>1. /\ ~Idle(c) /\ calls[c].op = "lookUp"
        /\ UNCHANGED <<codes, nextCode, rowVars, verifiers, mail, historyVars>>
        /\ Goto(c, "provision") \/ Return(c)
    BY DEF LookUp, At, codesVars
  <1>2. calls' \in [Calls -> Call \cup {NoCall}] /\ CallsMove
    BY <1>1, Returned, Went
  <1> QED BY <1>1, <1>2, Quiet DEF IInv, EmailTypeOK, CodesTypeOK, Moves, rowVars, historyVars

LEMMA KnownIdentityMoves ==
    ASSUME IInv, NEW c \in Calls, NEW m \in Methods, NEW e \in Emails, KnownIdentity(c, m, e),
           UNCHANGED relinked, UNCHANGED signedUp
    PROVE  /\ UsersMove /\ users' \in [Users -> User] /\ moved' \subseteq Emails
           /\ identities' \in [IdentityIds -> Identity] /\ IdentitiesMove
           /\ proven' \in [Users -> SUBSET Emails] /\ Grows
           /\ calls' \in [Calls -> Call \cup {NoCall}] /\ CallsMove /\ ~SignsIn(c)'
  <1>1. PICK i \in MailIdentity(m, e) :
           /\ PatchUser(identities[i].user, e, TRUE)
           /\ identities' = [identities EXCEPT ![i].key = e, ![i].subject = e]
           /\ Prove(identities[i].user, e)
           /\ Answer(c, FALSE)
    BY DEF KnownIdentity
  <1>2. /\ i \in IdentityIds /\ identities[i].provider = m /\ identities[i] \in Identity
        /\ e \in {identities[i].key, identities[i].subject}
    BY MailIdentityRow, Typed DEF IInv
  <1>3. PICK u \in Users : u = identities[i].user
    BY <1>2, Numbers DEF Identity
  <1>4. e \in moved \/ (users[u].live /\ users[u].email = e)
    BY <1>2, <1>3 DEF IInv, RowsGood, IdentityGood
  <1>5. /\ proven' \in [Users -> SUBSET Emails] /\ e \in proven'[u]
        /\ \A v \in Users : proven[v] \subseteq proven'[v]
    BY <1>1, <1>3, Proved
  <1>6. /\ UsersMove /\ users' \in [Users -> User]
        /\ moved' \subseteq Emails /\ moved \subseteq moved'
        /\ users'[u].live /\ users'[u].email = e
    <2>1. TRUE \in BOOLEAN /\ PatchUser(u, e, TRUE)
      BY <1>1, <1>3
    <2> QED BY <1>4, <1>5, <2>1, Patched
  <1>7. PICK row \in Identity : /\ identities' = [identities EXCEPT ![i] = row]
                                /\ row.provider = m /\ row.user = u /\ row.key = e /\ row.subject = e
    <2> DEFINE row == [identities[i] EXCEPT !.key = e, !.subject = e]
    <2>1. row \in Identity /\ row.provider = m /\ row.user = u /\ row.key = e /\ row.subject = e
      BY <1>2, <1>3, Numbers DEF Identity
    <2>2. identities' = [identities EXCEPT ![i] = row]
      <3>1. identities \in [IdentityIds -> Identity]
        BY DEF IInv, EmailTypeOK
      <3> QED BY <1>1, <3>1
    <2> HIDE DEF row
    <2> QED BY <2>1, <2>2
  <1>8. identities' \in [IdentityIds -> Identity] /\ IdentitiesMove
    BY <1>2, <1>3, <1>6, <1>7, IdentityPut
  <1>9. calls' \in [Calls -> Call \cup {NoCall}] /\ CallsMove /\ ~SignsIn(c)'
    <2>1. FALSE \in BOOLEAN
      OBVIOUS
    <2> QED BY <1>1, <2>1, Answered
  <1> QED BY <1>5, <1>6, <1>8, <1>9 DEF Grows

LEMMA NewIdentityMoves ==
    ASSUME IInv, NEW c \in Calls, NEW m \in Methods, NEW e \in Emails, NewIdentity(c, m, e),
           UNCHANGED relinked, UNCHANGED signedUp
    PROVE  /\ UsersMove /\ users' \in [Users -> User] /\ moved' \subseteq Emails
           /\ identities' \in [IdentityIds -> Identity] /\ IdentitiesMove
           /\ proven' \in [Users -> SUBSET Emails] /\ Grows
           /\ calls' \in [Calls -> Call \cup {NoCall}] /\ CallsMove /\ ~SignsIn(c)'
  <1>1. PICK u \in UserOrNew(e), i \in FreshIdentities :
           /\ PatchUser(u, e, TRUE)
           /\ identities' = [identities EXCEPT ![i] =
                               [provider |-> m, user |-> u, key |-> e, subject |-> e]]
           /\ Prove(u, e)
    BY DEF NewIdentity
  <1>2. /\ u \in Users
        /\ (users[u].live /\ users[u].email = e) \/ UsersAt(e) = {}
        /\ i \in IdentityIds /\ identities[i].provider = "none"
    BY UserRow, FreshRows
  <1>3. /\ proven' \in [Users -> SUBSET Emails] /\ e \in proven'[u]
        /\ \A v \in Users : proven[v] \subseteq proven'[v]
    BY <1>1, <1>2, Proved
  <1>4. /\ UsersMove /\ users' \in [Users -> User]
        /\ moved' \subseteq Emails /\ moved \subseteq moved'
        /\ users'[u].live /\ users'[u].email = e
    <2>1. TRUE \in BOOLEAN
      OBVIOUS
    <2> QED BY <1>1, <1>2, <1>3, <2>1, Patched
  <1>5. PICK row \in Identity : /\ identities' = [identities EXCEPT ![i] = row]
                                /\ row.provider = m /\ row.user = u /\ row.key = e /\ row.subject = e
    <2> DEFINE row == [provider |-> m, user |-> u, key |-> e, subject |-> e]
    <2>1. row \in Identity /\ row.provider = m /\ row.user = u /\ row.key = e /\ row.subject = e
      BY <1>2 DEF Identity
    <2>2. identities' = [identities EXCEPT ![i] = row]
      BY <1>1
    <2> HIDE DEF row
    <2> QED BY <2>1, <2>2
  <1>6. identities' \in [IdentityIds -> Identity] /\ IdentitiesMove
    BY <1>2, <1>4, <1>5, IdentityPut
  <1>7. calls' \in [Calls -> Call \cup {NoCall}] /\ CallsMove /\ ~SignsIn(c)'
    <2>1. TRUE \in BOOLEAN /\ Answer(c, TRUE)
      BY DEF NewIdentity
    <2> QED BY <2>1, Answered
  <1> QED BY <1>3, <1>4, <1>6, <1>7 DEF Grows

LEMMA ProvisionMoves ==
    ASSUME IInv, NEW c \in Calls, Provision(c)
    PROVE  EmailTypeOK' /\ Moves
  <1>1. /\ ~Idle(c) /\ calls[c].op = "provision"
        /\ Use(<<"verifier", calls[c].row>>)
        /\ UNCHANGED <<codes, nextCode, accounts, linked, verifiers, mail, signedUp, relinked>>
    BY DEF Provision, At, codesVars
  <1>2. /\ SignsIn(c) /\ calls[c].email \in Emails /\ calls[c].method \in Methods
        /\ <<"verifier", calls[c].row>> \in Mails
    BY <1>1 DEF SignsIn, IInv, RowsGood, CallGood, Mails
  <1>3. PICK e \in Emails, m \in Methods : e = calls[c].email /\ m = calls[c].method
    BY <1>2
  <1>4. KnownIdentity(c, m, e) \/ NewIdentity(c, m, e)
    BY <1>3 DEF Provision
  <1>5. /\ UsersMove /\ users' \in [Users -> User] /\ moved' \subseteq Emails
        /\ identities' \in [IdentityIds -> Identity] /\ IdentitiesMove
        /\ proven' \in [Users -> SUBSET Emails] /\ Grows
        /\ calls' \in [Calls -> Call \cup {NoCall}] /\ CallsMove /\ ~SignsIn(c)'
    BY <1>1, <1>4, KnownIdentityMoves, NewIdentityMoves
  <1>6. UsedMove
    BY <1>1, <1>2, <1>5 DEF UsedMove
  <1> QED BY <1>1, <1>2, <1>5, <1>6, Quiet, UsedTyped DEF IInv, EmailTypeOK, CodesTypeOK, Moves

\* A user that is written, and nothing else.
LEMMA UserPut ==
    ASSUME IInv, NEW u \in Users, NEW row \in User, users' = [users EXCEPT ![u] = row], row.live,
           \/ row.email = NoMail /\ users[u].email = NoMail
           \/ row.email \in Emails \cap moved',
           users[u].email # row.email => users[u].email \in moved' \cup {NoMail},
           ~row.verified,
           users[u].live /\ users[u].email # NoMail => u \in relinked'
    PROVE  UsersMove /\ users' \in [Users -> User]
  <1>1. /\ users' \in [Users -> User] /\ users'[u] = row
        /\ \A v \in Users : v # u => users'[v] = users[v]
    BY DEF IInv, EmailTypeOK
  <1>2. UserMove(u)
    BY <1>1 DEF UserMove
  <1> QED BY <1>1, <1>2 DEF UsersMove

LEMMA SignInAnonymousMoves ==
    ASSUME IInv, NEW u \in Users, SignInAnonymous(u)
    PROVE  EmailTypeOK' /\ Moves
  <1>1. /\ ~users[u].live /\ users[u].email = NoMail
        /\ UNCHANGED <<codes, nextCode, identities, accounts, linked, verifiers, mail, calls, historyVars>>
    BY DEF SignInAnonymous, codesVars, IInv, RowsGood, UserGood
  <1>2. PICK row \in User : /\ users' = [users EXCEPT ![u] = row]
                            /\ row.live /\ row.email = NoMail /\ ~row.verified
    <2> DEFINE row == [live |-> TRUE, email |-> NoMail, verified |-> FALSE, anonymous |-> TRUE]
    <2>1. row \in User /\ row.live /\ row.email = NoMail /\ ~row.verified
      BY DEF User, Addresses
    <2>2. users' = [users EXCEPT ![u] = row]
      BY DEF SignInAnonymous
    <2> HIDE DEF row
    <2> QED BY <2>1, <2>2
  <1>3. UsersMove /\ users' \in [Users -> User]
    BY <1>1, <1>2, UserPut
  <1> QED BY <1>1, <1>3, Quiet DEF IInv, EmailTypeOK, CodesTypeOK, Moves, historyVars

LEMMA LinkAnonymousAccountMoves ==
    ASSUME IInv, NEW c \in Calls, NEW u \in Users, NEW e \in Emails, LinkAnonymousAccount(c, u, e)
    PROVE  EmailTypeOK' /\ Moves
  <1>1. /\ Begin(c, "readTarget", e, u, 0, "none")
        /\ UNCHANGED <<codes, nextCode, rowVars, verifiers, mail, historyVars>>
    BY DEF LinkAnonymousAccount, codesVars
  <1>2. calls' \in [Calls -> Call \cup {NoCall}] /\ CallsMove
    <2>1. /\ "readTarget" \in {"lookUp", "readCode", "readTarget"} /\ 0 \in Nat
          /\ "none" \in {"none"} \cup Methods /\ u \in Users \cup {Nobody}
      OBVIOUS
    <2> QED BY <1>1, <2>1, Begun
  <1> QED BY <1>1, <1>2, Quiet DEF IInv, EmailTypeOK, CodesTypeOK, Moves, rowVars, historyVars

LEMMA ReadTargetMoves ==
    ASSUME IInv, NEW c \in Calls, ReadTarget(c)
    PROVE  EmailTypeOK' /\ Moves
  <1>1. /\ ~Idle(c) /\ calls[c].op = "readTarget"
        /\ UNCHANGED <<codes, nextCode, rowVars, verifiers, mail, historyVars>>
        /\ Goto(c, "link") \/ Return(c)
    BY DEF ReadTarget, At, codesVars
  <1>2. calls' \in [Calls -> Call \cup {NoCall}] /\ CallsMove
    BY <1>1, Returned, Went
  <1> QED BY <1>1, <1>2, Quiet DEF IInv, EmailTypeOK, CodesTypeOK, Moves, rowVars, historyVars

LEMMA LinkAnonymousUserMoves ==
    ASSUME IInv, NEW c \in Calls, LinkAnonymousUser(c)
    PROVE  EmailTypeOK' /\ Moves
  <1>1. PICK u \in Users, e \in Emails : u = calls[c].user /\ e = calls[c].email
    BY DEF LinkAnonymousUser, At, IInv, RowsGood, CallGood
  <1>2. /\ ~Idle(c) /\ calls[c].op = "link" /\ Goto(c, "linkAccount")
        /\ moved' = moved \cup ({e, users[u].email} \ {NoMail})
        /\ relinked' = IF users[u].email = NoMail THEN relinked ELSE relinked \cup {u}
        /\ UNCHANGED <<codes, nextCode, identities, accounts, linked, verifiers, mail,
                       proven, signedUp, used, reused>>
    BY <1>1 DEF LinkAnonymousUser, At, codesVars
  <1>3. PICK row \in User : /\ users' = [users EXCEPT ![u] = row]
                            /\ row.live /\ row.email = e /\ ~row.verified
    <2> DEFINE row == [live |-> TRUE, email |-> e, verified |-> FALSE, anonymous |-> FALSE]
    <2>1. row \in User /\ row.live /\ row.email = e /\ ~row.verified
      BY DEF User, Addresses
    <2>2. users' = [users EXCEPT ![u] = row]
      BY <1>1 DEF LinkAnonymousUser
    <2> HIDE DEF row
    <2> QED BY <2>1, <2>2
  <1>4. /\ moved' \subseteq Emails /\ moved \subseteq moved' /\ e \in moved'
        /\ users[u].email \in moved' \cup {NoMail} /\ users[u].email \in Addresses
    <2>1. moved \subseteq Emails /\ users[u].email \in Addresses
      BY Typed DEF IInv, EmailTypeOK, User
    <2> QED BY <1>2, <2>1, Numbers DEF Addresses
  <1>5. relinked' \subseteq Users /\ relinked \subseteq relinked'
        /\ (users[u].email # NoMail => u \in relinked')
    BY <1>2 DEF IInv, EmailTypeOK
  <1>6. UsersMove /\ users' \in [Users -> User]
    BY <1>3, <1>4, <1>5, UserPut
  <1>7. calls' \in [Calls -> Call \cup {NoCall}] /\ CallsMove
    BY <1>2, Went
  <1>8. Grows
    BY <1>2, <1>4, <1>5 DEF Grows
  <1> QED BY <1>2, <1>4, <1>5, <1>6, <1>7, <1>8, Quiet DEF IInv, EmailTypeOK, CodesTypeOK, Moves

LEMMA LinkAccountMoves ==
    ASSUME IInv, NEW c \in Calls, LinkAccount(c)
    PROVE  EmailTypeOK' /\ Moves
  <1>1. /\ linked' = linked \cup {<<calls[c].user, calls[c].email>>} /\ Return(c)
        /\ UNCHANGED <<codes, nextCode, users, identities, accounts, verifiers, mail, historyVars>>
        /\ calls[c].user \in Users /\ calls[c].email \in Emails
    BY DEF LinkAccount, At, codesVars, IInv, RowsGood, CallGood
  <1>2. linked' \subseteq Users \X Emails
    BY <1>1 DEF IInv, EmailTypeOK
  <1> QED BY <1>1, <1>2, Quiet, Returned DEF IInv, EmailTypeOK, CodesTypeOK, Moves, historyVars

LEMMA EndCallMoves ==
    ASSUME IInv, NEW c \in Calls, EndCall(c)
    PROVE  EmailTypeOK' /\ Moves
  <1>1. Return(c) /\ UNCHANGED <<codes, nextCode, rowVars, verifiers, mail, historyVars>>
    BY DEF EndCall, codesVars
  <1> QED BY <1>1, Quiet, Returned DEF IInv, EmailTypeOK, CodesTypeOK, Moves, rowVars, historyVars

LEMMA ExpireMoves ==
    ASSUME IInv, Expire
    PROVE  EmailTypeOK' /\ Moves
  <1>1. /\ \E k \in CodeIds : ExpireCode(k)
        /\ UNCHANGED <<rowVars, verifiers, mail, calls, historyVars>>
    BY DEF Expire
  <1>2. CodesTypeOK' /\ CodesMove
    BY <1>1, CodeExpired
  <1> QED BY <1>1, <1>2, Quiet DEF IInv, EmailTypeOK, Moves, rowVars, historyVars

LEMMA StutterMoves ==
    ASSUME IInv, UNCHANGED vars
    PROVE  EmailTypeOK' /\ Moves
  BY Quiet DEF IInv, EmailTypeOK, CodesTypeOK, Moves, vars, codesVars, rowVars, historyVars

-----------------------------------------------------------------------------
(* The invariant                                                           *)

LEMMA InvInit == Init => IInv
  <1> SUFFICES ASSUME Init PROVE IInv
    OBVIOUS
  <1>1. EmailTypeOK
    <2>1. CodesTypeOK
      BY Numbers DEF Init, CodesInit, CodesTypeOK, Code, CodeStates
    <2>2. users \in [Users -> User]
      BY DEF Init, User, Addresses
    <2>3. identities \in [IdentityIds -> Identity]
      BY DEF Init, Identity
    <2>4. accounts \in [AccountIds -> Account] /\ verifiers \in [VerifierIds -> Verifier]
      BY DEF Init, Account, Verifier, Addresses
    <2>5. /\ mail \in [CodeIds -> [to : Addresses, otp : BOOLEAN]]
          /\ calls \in [Calls -> Call \cup {NoCall}]
      BY DEF Init, Addresses
    <2> QED BY <2>1, <2>2, <2>3, <2>4, <2>5 DEF Init, EmailTypeOK
  <1>2. RowsGood
    <2>1. \A u \in Users : UserGood(u)
      BY DEF Init, UserGood
    <2>2. \A k \in CodeIds : CodeGood(k)
      <3> TAKE k \in CodeIds
      <3>1. codes[k].state = "none" /\ nextCode = 1
        BY DEF Init, CodesInit
      <3>2. ~(k < nextCode)
        BY <3>1, Numbers DEF CodeIds
      <3> QED BY <3>1, <3>2 DEF CodeGood
    <2>3. \A n \in VerifierIds : VerifierGood(n)
      BY DEF Init, VerifierGood
    <2>4. \A i \in IdentityIds : IdentityGood(i)
      BY Numbers DEF Init, IdentityGood
    <2>5. \A a \in AccountIds : AccountGood(a)
      BY DEF Init, AccountGood
    <2>6. \A c \in Calls : CallGood(c)
      BY DEF Init, CallGood, Idle
    <2> QED BY <2>1, <2>2, <2>3, <2>4, <2>5, <2>6 DEF RowsGood
  <1>3. OneHolder /\ VerifiedMeansProven
    BY DEF Init, OneHolder, UsersAt, VerifiedMeansProven
  <1>4. OnePresenter /\ UsedGood /\ MailWorksOnce
    BY DEF Init, OnePresenter, UsedGood, MailWorksOnce, SignsIn, Idle
  <1> QED BY <1>1, <1>2, <1>3, <1>4 DEF IInv

LEMMA InvNext == IInv /\ [Next]_vars => IInv'
  <1> SUFFICES ASSUME IInv, [Next]_vars PROVE EmailTypeOK' /\ Moves
    BY InvKept
  <1>1. CASE UNCHANGED vars
    BY <1>1, StutterMoves
  <1>2. ASSUME NEW e \in Emails, NEW sendMail \in BOOLEAN, SignUp(e, sendMail)
        PROVE  EmailTypeOK' /\ Moves
    BY <1>2, SignUpMoves
  <1>3. ASSUME NEW e \in Emails, SignUpDuplicate(e)
        PROVE  EmailTypeOK' /\ Moves
    BY <1>3, StutterMoves DEF SignUpDuplicate
  <1>4. ASSUME NEW e \in Emails, NEW otp \in BOOLEAN,
               SendCode("email_verification", e, FALSE) \/ SendCode("password_reset", e, otp)
        PROVE  EmailTypeOK' /\ Moves
    <2>1. {"email_verification", "password_reset"} \subseteq CodeTypes /\ FALSE \in BOOLEAN
      BY Numbers
    <2> QED BY <1>4, <2>1, SendCodeMoves
  <1>5. ASSUME NEW e \in Emails, NEW u \in Users, SendChangeCode(u, e)
        PROVE  EmailTypeOK' /\ Moves
    BY <1>5, SendChangeCodeMoves
  <1>6. ASSUME NEW e \in Emails, NEW m \in Methods, SendSignInMail(m, e)
        PROVE  EmailTypeOK' /\ Moves
    BY <1>6, SendSignInMailMoves
  <1>7. ASSUME NEW k \in CodeIds, VerifyEmail(k) \/ ResetPassword(k) \/ ChangeEmail(k)
        PROVE  EmailTypeOK' /\ Moves
    BY <1>7, VerifyEmailMoves, ResetPasswordMoves, ChangeEmailMoves
  <1>8. ASSUME NEW n \in VerifierIds, ExpireVerifier(n)
        PROVE  EmailTypeOK' /\ Moves
    BY <1>8, ExpireVerifierMoves
  <1>9. ASSUME NEW u \in Users, SignInAnonymous(u)
        PROVE  EmailTypeOK' /\ Moves
    BY <1>9, SignInAnonymousMoves
  <1>10. CASE Expire
    BY <1>10, ExpireMoves
  <1>11. ASSUME NEW c \in Calls, NEW k \in CodeIds, ResetByOtp(c, k)
         PROVE  EmailTypeOK' /\ Moves
    BY <1>11, ResetByOtpMoves
  <1>12. ASSUME NEW c \in Calls,
                ReadCode(c) \/ ReadIdentity(c) \/ FirstPassword(c) \/ ConsumeCode(c)
         PROVE  EmailTypeOK' /\ Moves
    BY <1>12, ReadCodeMoves, ReadIdentityMoves, FirstPasswordMoves, ConsumeCodeMoves
  <1>13. ASSUME NEW c \in Calls, NEW n \in VerifierIds, ConsumeVerifier(c, n)
         PROVE  EmailTypeOK' /\ Moves
    BY <1>13, ConsumeVerifierMoves
  <1>14. ASSUME NEW c \in Calls, LookUp(c) \/ Provision(c)
         PROVE  EmailTypeOK' /\ Moves
    BY <1>14, LookUpMoves, ProvisionMoves
  <1>15. ASSUME NEW c \in Calls, NEW u \in Users, NEW e \in Emails, LinkAnonymousAccount(c, u, e)
         PROVE  EmailTypeOK' /\ Moves
    BY <1>15, LinkAnonymousAccountMoves
  <1>16. ASSUME NEW c \in Calls, ReadTarget(c) \/ LinkAnonymousUser(c) \/ LinkAccount(c)
         PROVE  EmailTypeOK' /\ Moves
    BY <1>16, ReadTargetMoves, LinkAnonymousUserMoves, LinkAccountMoves
  <1>17. ASSUME NEW c \in Calls, EndCall(c)
         PROVE  EmailTypeOK' /\ Moves
    BY <1>17, EndCallMoves
  <1> QED BY <1>1, <1>2, <1>3, <1>4, <1>5, <1>6, <1>7, <1>8, <1>9, <1>10, <1>11, <1>12, <1>13,
             <1>14, <1>15, <1>16, <1>17 DEF Next

(* The invariant of the flows over mail holds in every reachable state.    *)
THEOREM Invariance == Spec => []IInv
  BY InvInit, InvNext, PTL DEF Spec

-----------------------------------------------------------------------------
(* The theorems                                                            *)

(* Every variable stays in its type.                                       *)
THEOREM TypeCorrect == Spec => []EmailTypeOK
  <1>1. IInv => EmailTypeOK
    BY DEF IInv
  <1> QED BY Invariance, <1>1, PTL

(* verifyEmail, resetPassword, changeEmail and sign-in by mail: a verified *)
(* address was proven by a mail that was used for that user, in whatever   *)
(* order the mails are used and the address is changed.                    *)
THEOREM VerifiedByMail == Spec => []VerifiedMeansProven
  <1>1. IInv => VerifiedMeansProven
    BY DEF IInv
  <1> QED BY Invariance, <1>1, PTL

(* signUp, resetPassword and the first password by OTP: the password of a  *)
(* user was chosen at its sign-up or by who has read a mail of that user.  *)
THEOREM PasswordsByProof == Spec => []PasswordByProof
  <1>1. IInv => PasswordByProof
    <2> SUFFICES ASSUME IInv, NEW u \in Users, NEW a \in AccountOf(u)
                 PROVE  accounts[a].by \in proven[u] \/ (accounts[a].by = NoMail /\ u \in signedUp)
      BY DEF PasswordByProof
    <2>1. /\ a \in AccountIds /\ accounts[a].identity \in IdentityIds
          /\ identities[accounts[a].identity].user = u
      BY AccountRow, IdentityRow
    <2>2. accounts[a].identity # 0
      BY <2>1, Numbers DEF IdentityIds
    <2> QED BY <2>1, <2>2 DEF IInv, RowsGood, AccountGood
  <1> QED BY Invariance, <1>1, PTL

(* consumeVerificationCode and consumeVerifier: one mail has one effect,   *)
(* also for calls that hold it at the same time.                           *)
THEOREM MailUsedOnce == Spec => []MailWorksOnce
  <1>1. IInv => MailWorksOnce
    BY DEF IInv
  <1> QED BY Invariance, <1>1, PTL

(* provisionFromIdentity and changeEmail: an address that nobody has left  *)
(* belongs to one user, so that getUserByEmail finds one row.              *)
THEOREM AddressesUnique == Spec => []OneUserPerEmail
  <1>1. IInv => OneUserPerEmail
    <2> SUFFICES ASSUME IInv, NEW e \in Emails \ moved PROVE ~Ambiguous(e)
      BY DEF OneUserPerEmail
    <2>1. CASE UsersAt(e) = {}
      BY <2>1, FS_EmptySet DEF Ambiguous
    <2>2. CASE UsersAt(e) # {}
      <3>1. PICK u \in UsersAt(e) : UsersAt(e) = {u}
        BY <2>2 DEF IInv, OneHolder
      <3>2. Cardinality(UsersAt(e)) = 1
        BY <3>1, FS_Singleton
      <3> QED BY <3>2 DEF Ambiguous
    <2> QED BY <2>1, <2>2
  <1> QED BY Invariance, <1>1, PTL
=============================================================================
