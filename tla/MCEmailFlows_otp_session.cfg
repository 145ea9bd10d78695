SPECIFICATION Spec
CONSTANTS
    Users = {u1, u2}
    Nobody = nobody
    CodeTypes = {"email_verification", "password_reset", "email_change"}
    MaxCodes = 2
    CodePage = 2
    Emails = {e1, e2}
    NoMail = noMail
    Methods = {"emailOtp", "magicLink"}
    DisableSignUp = FALSE
    Calls = {c1}
    NoCall = noCall
    MaxMails = 2
    MaxVerifiers = 2
    MaxIdentities = 3
    MaxAccounts = 2
INVARIANTS
    AcceptedMailSignsIn
