SPECIFICATION Spec
CONSTANTS
  NumTasks = 2
  NumRequests = 2
  MaxAttempts = 2
  MaxConcurrency = 2
  MaxRestarts = 1
  Speakers = {"alice", "bob"}
  Keys = {"chat"}
  KeyOf <- GroupChat
  ConvOf <- GroupChat
  SpeakerOf <- GroupSpeakers
  Scheduled = {}
  Steerable <- AllTasks
CHECK_DEADLOCK FALSE
INVARIANT WaitingHasPending
INVARIANT OverlapOnlyAfterExpiry
INVARIANT NoUnsafeReplay
PROPERTY TerminalIsFinal
PROPERTY DecidedOnce
