CONSTANTS
    MaxRuns = 2
    Overlapping = FALSE
    StartFails = FALSE
    MaxLines = 3
    Kinds = {"line"}
    PipeCap = 2
    MaxSize = 2
    ChunkSize = 16
    MaxTail = 1
    Newline = Newline
SPECIFICATION LogSpec
CHECK_DEADLOCK FALSE
INVARIANTS TypeOK LogTypeOK SingleChild StatusTruthful StreamsInOrder FollowerSees
