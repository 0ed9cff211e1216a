SPECIFICATION FairSpec
CONSTANTS
    Conversation = {c1}
    None = None
    MaxRuns = 2
    MaxRequests = 1
    MaxFaults = 1
    MaxThrows = 1
    ClaudeSpaces = {c1}
CHECK_DEADLOCK FALSE
PROPERTY TurnsEnd
