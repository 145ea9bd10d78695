SPECIFICATION FairSpec
CONSTANTS
    Orgs = {o1}
    NoOrg = NoOrg
    Endpoints = {e1}
    MaxDeliveries = 1
    Workers = {w1, w2}
    MaxActive = 1
    MaxAttempts = 3
    MaxCrashes = 1
    MaxRetries = 2
INVARIANTS
    OneSender
    NotGivenUpEarly
PROPERTIES
    DeliveredStays
    EveryDeliveryEnds
