SPECIFICATION Spec
CONSTANTS
    Subjects = {s1}
    Clients = {c1, c2}
    Scopes = {a}
    Nobody = Nobody
    Requests = {r1, r2}
    MaxCodes = 1
    MaxTokens = 3
    Horizon = 1
    CodeTtl = 1
    AbsoluteLifetime = 2
    InactivityLifetime = 1
SYMMETRY Symmetric
INVARIANTS
    OneLiveTokenPerFamily
    CodeGrantsOneFamily
    GrantsOnlyNarrow
    ReuseEndsFamily
PROPERTIES
    EndedGrantsStayEnded
