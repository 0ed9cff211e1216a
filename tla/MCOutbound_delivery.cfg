SPECIFICATION FairSpec
CONSTANTS
  NumMessages = 4
  d1 = d1
  d2 = d2
  Drain <- Drains
  MaxAttempts = 3
  BatchSize = 2
  Unconnected = {2}
  Unreadable = {1}
  MaxCrashes = 2
CHECK_DEADLOCK FALSE
INVARIANT DuplicatesExplained
INVARIANT DeadLetterKept
PROPERTY SettledIsFinal
PROPERTY EveryMessageSettles
