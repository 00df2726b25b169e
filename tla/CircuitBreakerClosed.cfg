SPECIFICATION BreakerSpec
CONSTANTS
    ErrorThreshold = 3
    InitialBackoff = 5
    MaxBackoff = 300
    Multiplier = 2
    Concurrency = 2
    BackgroundErrors = FALSE
INVARIANT ClosedMeansRunning
