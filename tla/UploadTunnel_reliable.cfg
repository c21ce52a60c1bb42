SPECIFICATION Spec
CONSTANTS
    MaxReadings = 3
    UploadBatchSize = 2
    UploadWindowSize = 3
    MaxAllTimeout = 3
    DedupCacheSize = 2
    Unbuildable = {3}
    Wrapping = {}
    MaxSessions = 3
    Budget <- ReliableFaults
INVARIANTS
    SendingIsOwned
    SentIsInCharge
PROPERTIES
    SentIsFinal
    ImplementsContract
