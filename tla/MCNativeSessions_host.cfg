SPECIFICATION Spec
CONSTANTS
    Users = {u1}
    Providers = {"password"}
    Nobody = Nobody
    Calls = {c1}
    MaxSessions = 3
    MaxTokens = 4
    Horizon = 0
    SessionTtls = {1}
    RotatedTtl = 2
    RefreshTtl = 2
    MaxSessionsPerUser = 3
    MaxTokensPerSession = 1
    MaxTokensPerUser = 2
    ResetRevokeBatch = 3
    CleanupBatch = 1
    RevokeOnReset = TRUE
    HostCalls = TRUE
SYMMETRY Symmetric
INVARIANTS
    OneOpenPerFamily
