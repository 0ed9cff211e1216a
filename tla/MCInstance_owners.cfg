SPECIFICATION FairSpec
CONSTANTS
  Service = {s1, s2}
  Cli = {c1}
  NumFiles = 2
  NoSocket = NoSocket
  Stale = Stale
  Busy = {s1}
  MaxStarts = 2
  MaxCommands = 1
  MaxRequests = 1
  MaxCrashes = 1
CHECK_DEADLOCK FALSE
INVARIANT ExclusiveOwner
INVARIANT OwnerIsFound
INVARIANT RunsOnWholeData
INVARIANT BackupIsWhole
PROPERTY StopEnds
