SPECIFICATION Spec
CONSTANTS
    Users = {u1}
    Nobody = Nobody
    CodeTypes = {"two_factor_pending", "two_factor_trusted_device"}
    MaxCodes = 2
    CodePage = 2
    Calls = {c1, c2}
    MaxDraws = 2
    CodesPerSet = 1
SYMMETRY Symmetric
INVARIANTS
    ChallengeUsedOnce
    OneLiveCode
    EnabledMeansVerifiable
PROPERTIES
    BackupCodeUsedOnce
