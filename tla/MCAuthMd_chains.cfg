SPECIFICATION ChainsSpec
CONSTANTS
    UserIds = {claimer, operator}
    Organizations = {o1}
    Operators = {operator}
    NoHolder = NoHolder
    Calls = {c1, c2, c3}
    MaxFailedCodeAttempts = 2
    MaxRegistrations = 1
    MaxAssertions = 2
    MaxCredentials = 4
SYMMETRY Symmetric
INVARIANTS
    ClaimYieldsCredential
PROPERTIES
    ImplementsChains
CHECK_DEADLOCK FALSE
