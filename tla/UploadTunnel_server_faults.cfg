SPECIFICATION FairSpec
CONSTANTS
    MaxReadings = 3
    UploadBatchSize = 2
    UploadWindowSize = 2
    MaxAllTimeout = 3
    DedupCacheSize = 2
    Unbuildable = {3}
    Wrapping = {{1, 2}, {1, 2, 3}}
    MaxSessions = 3
    Budget <- NoClientFaults
PROPERTIES
    EveryReadingSent
INVARIANTS
    TypeOK
    AckAccounting
    NoStaleAck
    PushedOnlyStored
    DedupWellFormed
