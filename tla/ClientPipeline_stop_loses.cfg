SPECIFICATION Spec
CONSTANTS
    Poll = {p1}
    Handler = {}
    MaxReadings = 1
    BufferSize = 1
    BatchSize = 2
    MaxSaveFails = 0
INVARIANTS
    SavedAtTheEnd
CHECK_DEADLOCK FALSE
