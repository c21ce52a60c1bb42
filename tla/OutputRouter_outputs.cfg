SPECIFICATION FairSpec
CONSTANTS
    Http = {h1}
    Mqtt = {m1}
    MaxSends = 2
    BadSends = {2}
    MaxPosts = 3
    MaxClients = 2
    MaxLosses = 1
INVARIANTS
    TypeOK
    PublishesOnLiveClient
    ShutdownWaits
PROPERTIES
    SendsEnd
    KeepsContract
CHECK_DEADLOCK FALSE
