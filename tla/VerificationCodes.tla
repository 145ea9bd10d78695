------------------------- MODULE VerificationCodes -------------------------
(***************************************************************************)
(* The table authVerificationCodes and the mutations of                    *)
(* component/native/codes.ts.  The modules that use the table extend this  *)
(* one and take its operators into their own steps.                        *)
(*                                                                         *)
(* A code is known by the hash of a random token, so a row is as good as   *)
(* its token: row n is the n-th row inserted.  consumedAt is kept as a     *)
(* state and expiry as a flag that Expire raises at any time.              *)
(***************************************************************************)
EXTENDS Naturals, FiniteSets

CONSTANTS
    Users,      \* ids of rows of the table users
    Nobody,     \* the user of a row not inserted yet
    CodeTypes,  \* the types of codes in use
    MaxCodes,   \* bound: rows ever inserted
    CodePage    \* MAX_VERIFICATION_CODES_PER_USER, the page that is read

CodeIds == 1 .. MaxCodes

ASSUME CodesAssumption ==
    /\ Nobody \notin Users
    /\ MaxCodes \in Nat \ {0}
    /\ CodePage \in Nat

VARIABLES
    codes,     \* authVerificationCodes
    nextCode   \* next row

codesVars == <<codes, nextCode>>

CodeStates == {"none", "live", "consumed", "deleted"}

Code == [state : CodeStates, user : Users \cup {Nobody},
         type : CodeTypes \cup {"none"}, expired : BOOLEAN]

CodesTypeOK ==
    /\ codes \in [CodeIds -> Code]
    /\ nextCode \in 1 .. MaxCodes + 1

CodesInit ==
    /\ codes = [k \in CodeIds |->
                  [state |-> "none", user |-> Nobody, type |-> "none", expired |-> FALSE]]
    /\ nextCode = 1

CodeExists(k) == codes[k].state \in {"live", "consumed"}

CodesOf(u, type) ==
    {k \in CodeIds : CodeExists(k) /\ codes[k].user = u /\ codes[k].type = type}

\* getVerificationCodesByUserType: the oldest rows of the by_user_type index.
PageOfCodes(u, type) ==
    LET mine == CodesOf(u, type)
    IN {k \in mine : Cardinality({j \in mine : j < k}) < CodePage}

SetCodes(K, state) ==
    [k \in CodeIds |-> IF k \in K THEN [codes[k] EXCEPT !.state = state] ELSE codes[k]]

\* What consumeVerificationCode asks of the row it finds by hash and type.
Consumable(k, type) ==
    /\ codes[k].state = "live"
    /\ codes[k].type = type
    /\ ~codes[k].expired

\* Mutant: the codes issued before stay good.
CreateCodeBesideOthers(u, type) ==
    /\ nextCode \in CodeIds
    /\ codes' = [codes EXCEPT ![nextCode] =
                   [state |-> "live", user |-> u, type |-> type, expired |-> FALSE]]
    /\ nextCode' = nextCode + 1

\* A new code consumes the codes of its type that the page reaches.
CreateVerificationCode(u, type) ==
    /\ nextCode \in CodeIds
    /\ codes' = [SetCodes(PageOfCodes(u, type), "consumed") EXCEPT ![nextCode] =
                   [state |-> "live", user |-> u, type |-> type, expired |-> FALSE]]
    /\ nextCode' = nextCode + 1

\* Mutant: the code is looked up and left as it is.
ConsumeNothing(k) == UNCHANGED codesVars

ConsumeVerificationCode(k) ==
    /\ codes' = SetCodes({k}, "consumed")
    /\ UNCHANGED nextCode

RevokeVerificationCodesForUser(u, type) ==
    /\ codes' = SetCodes({k \in PageOfCodes(u, type) : codes[k].state = "live"}, "consumed")
    /\ UNCHANGED nextCode

\* maxAgeMs picks which of the consumed rows are old enough to go; an expired
\* row always goes.
CleanupVerificationCodes(u, type) ==
    /\ \E old \in SUBSET {k \in PageOfCodes(u, type) : codes[k].state = "consumed"} :
          codes' = SetCodes(old \cup {k \in PageOfCodes(u, type) : codes[k].expired}, "deleted")
    /\ UNCHANGED nextCode

\* The part of deleteUser that walks this table.
DeleteCodesOf(u) ==
    /\ codes' = SetCodes(UNION {CodesOf(u, type) : type \in CodeTypes}, "deleted")
    /\ UNCHANGED nextCode

ExpireCode(k) ==
    /\ CodeExists(k)
    /\ ~codes[k].expired
    /\ codes' = [codes EXCEPT ![k].expired = TRUE]
    /\ UNCHANGED nextCode

(* At most one code of a type can be consumed for a user: asking for a new *)
(* challenge, link or device retires the one before, as long as the page   *)
(* createVerificationCode reads holds every row of the user.               *)
OneLiveCode ==
    \A j, k \in CodeIds :
        /\ codes[j].state = "live"
        /\ codes[k].state = "live"
        /\ codes[j].user = codes[k].user
        /\ codes[j].type = codes[k].type
        => j = k

=============================================================================
