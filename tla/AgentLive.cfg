CONSTANTS
    MaxRuns = 1
    Overlapping = FALSE
    StartFails = TRUE
    MaxLines = 3
    Kinds = {"line", "long"}
    PipeCap = 2
    MaxSize = 2
    ChunkSize = 16
    MaxTail = 1
    Newline = Newline
SPECIFICATION FairLogSpec
CHECK_DEADLOCK FALSE
PROPERTIES ExitReportedUnlessBlocked SigtermStops LinesLogged
