SPECIFICATION FairSpec
CONSTANTS
    MaxSessions = 2
    MaxRetry = 2
    Window = 1
    MaxAllTimeout = 3
    MaxUploads = 2
    MaxBeats = 2
    MaxEvents = 2
    NotifyCap = 1
INVARIANTS
    TypeOK
    NotifyAccounted
    BeatAnswersItself
PROPERTIES
    ReadersEnd
    BrokenIsLeft
    SessionStops
CHECK_DEADLOCK FALSE
