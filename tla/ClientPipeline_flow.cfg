SPECIFICATION FairSpec
CONSTANTS
    Poll = {p1}
    Handler = {h1}
    MaxReadings = 3
    BufferSize = 1
    BatchSize = 2
    MaxSaveFails = 1
INVARIANTS
    TypeOK
    InOrderOnce
    LostOnlyOnStop
PROPERTIES
    SavedUnlessStopped
    StopsOrKnownHang
CHECK_DEADLOCK FALSE
