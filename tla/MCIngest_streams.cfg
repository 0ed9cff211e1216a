SPECIFICATION FairSpec
CONSTANTS
    MaxMessages = 2
    MaxSessions = 3
    MaxCopies = 2
    MaxFaults = 2
    MaxBatch = 2
    Unknown = Unknown
CHECK_DEADLOCK FALSE
INVARIANT AtMostOnce
INVARIANT CheckpointCovers
INVARIANT PositionCovers
INVARIANT MediaForTask
PROPERTY EveryMessageSettles
