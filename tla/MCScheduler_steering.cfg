SPECIFICATION FairSpec
CONSTANTS
  NumTasks = 3
  NumRequests = 0
  MaxAttempts = 2
  MaxConcurrency = 2
  MaxRestarts = 1
  Speakers = {"alice", "bob"}
  Keys = {"chat"}
  KeyOf <- GroupChat
  ConvOf <- GroupChat
  SpeakerOf <- GroupSpeakers
  Scheduled = {}
  Steerable <- AllTasks
CHECK_DEADLOCK FALSE
INVARIANT OneRootPerKey
INVARIANT OneFinalAnswer
PROPERTY ServesInOrder
PROPERTY EveryTaskSettles
