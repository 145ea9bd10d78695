SPECIFICATION KeysSpec
CONSTANTS
    Calls = {c1, c2}
    MaxKeys = 3
    ClockLimit = 5
    TokenTtl = 3
    Retention = 3
    MaxDelay = 1
SYMMETRY Symmetric
INVARIANTS
    TokensVerifyButForDelays
