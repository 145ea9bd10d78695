SPECIFICATION Spec
CONSTANTS
    Users = {u1}
    Providers = {"password"}
    Nobody = Nobody
    Calls = {c1, c2}
    MaxSessions = 3
    MaxTokens = 3
    Horizon = 1
    SessionTtls = {1}
    RotatedTtl = 2
    RefreshTtl = 1
    MaxSessionsPerUser = 3
    MaxTokensPerSession = 1
    MaxTokensPerUser = 2
    ResetRevokeBatch = 3
    CleanupBatch = 1
    RevokeOnReset = TRUE
    HostCalls = FALSE
SYMMETRY Symmetric
INVARIANTS
    OneSuccessor
    ResetEndsOlderFamilies
PROPERTIES
    NoResurrection
    ImplementsFamilies
