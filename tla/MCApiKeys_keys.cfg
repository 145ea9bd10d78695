SPECIFICATION Spec
CONSTANTS
    Users = {u1}
    Nobody = Nobody
    Orgs = {o1}
    NoOrg = NoOrg
    Principals = {p1}
    NoPrincipal = NoPrincipal
    s1 = s1
    s2 = s2
    s3 = s3
    NoSecret = NoSecret
    Secrets <- MCSecrets
    PrefixOf <- MCPrefixOf
    MaxKeys = 2
    LimitChoices <- MCLimitChoices
    Window = 2
    RateMax = 1
    Remaining = 1
    RefillInterval = 2
    RefillAmount = 1
    Expiries = {0, 4}
    MaxTime = 4
CHECK_DEADLOCK FALSE
SYMMETRY Symmetric
CONSTRAINT LimitedFirst
INVARIANTS
    OneKeyPerPrefix
    KeysHaveOwners
    RateBound
    QuotaBound
PROPERTIES
    EndedSecretsReturnByHand
