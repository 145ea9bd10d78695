SPECIFICATION FairCredentialSpec
CONSTANTS
    Hosts = {h1}
    Agents = {a1}
    Capabilities = {c1}
    Users = {u1}
    NoUser = NoUser
    NoHost = NoHost
    BatchSize = 1
    MaxGeneration = 2
    Owners = {u1}
    DeviceFlows = {TRUE}
    Jwts = {j1}
    Requests = {r1, r2}
INVARIANTS
    CascadeReachesAll
    RevokedHoldsNothing
    CredentialUsedOnce
PROPERTIES
    EndedStaysEnded
    SpentNeverAccepted
    ImplementsDeviceGrant
    CascadeEnds
