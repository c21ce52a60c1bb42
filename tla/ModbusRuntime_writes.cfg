SPECIFICATION FairSpec
CONSTANTS
    Caller = {1, 2}
    Points <- DevicePoints
    Commands <- SomeCommands
    WriteChCap = 1
    BufferSize = 1
    HasPublisher = TRUE
INVARIANTS
    TypeOK
    ReportedAsWritten
    ClosedIsQuiet
PROPERTIES
    WriteIsAnswered
    StopCompletes
CHECK_DEADLOCK FALSE
