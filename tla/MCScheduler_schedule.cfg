SPECIFICATION FairSpec
CONSTANTS
  NumTasks = 3
  NumRequests = 1
  MaxAttempts = 1
  MaxConcurrency = 1
  MaxRestarts = 0
  Speakers = {"alice", "bob"}
  Keys = {"chat", "schedule"}
  KeyOf <- ScheduleKeys
  ConvOf <- GroupChat
  SpeakerOf <- OneSpeaker
  Scheduled <- ScheduleRuns
  Steerable <- ChatTasks
CHECK_DEADLOCK FALSE
PROPERTY EveryTaskSettles
