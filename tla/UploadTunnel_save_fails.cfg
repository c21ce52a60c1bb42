SPECIFICATION Spec
CONSTANTS
    MaxReadings = 1
    UploadBatchSize = 1
    UploadWindowSize = 3
    MaxAllTimeout = 3
    DedupCacheSize = 200
    Unbuildable = {}
    Wrapping = {}
    MaxSessions = 1
    Budget <- OneSave
INVARIANTS
    SentIsStored
