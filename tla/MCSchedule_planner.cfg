SPECIFICATION FairSpec
CONSTANTS
  NumSchedules = 2
  MaxTime = 3
  MaxEdits = 4
  MaxRestarts = 1
  Expressions <- MCExpressions
INVARIANT NextIsNew
INVARIANT OneCatchUp
PROPERTY DueIsHandled
