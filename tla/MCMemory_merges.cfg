SPECIFICATION Spec
CONSTANTS
  Principal = {"ada", "ben"}
  Direct = {"chat"}
  Group = {"group"}
  NoOne = "noone"
  NoWhere = "nowhere"
  Key = {"k"}
  NoKey = "nokey"
  Value = {v, w}
  NoValue = NoValue
  NumTasks = 2
  ConvOf <- Conversations
  AskerOf <- Askers
  Curated = {1}
  Admins = {1}
  MaxRecords = 2
  MaxTime = 2
  MaxCrashes = 1
CHECK_DEADLOCK FALSE
SYMMETRY Contents
INVARIANT OneActive
INVARIANT OncePerTask
INVARIANT IndexFollows
INVARIANT SourceOwns
INVARIANT JobsServed
PROPERTY EndsWhatItSees

