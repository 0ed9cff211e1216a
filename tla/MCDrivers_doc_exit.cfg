SPECIFICATION FairSpec
CONSTANTS
    Conversation = {c1}
    None = None
    MaxRuns = 2
    MaxRequests = 0
    MaxFaults = 1
    MaxThrows = 0
    ClaudeSpaces = {}
CHECK_DEADLOCK FALSE
PROPERTY TurnsEndAlways
