CONSTANTS
  Setting <- MCSetting
  Task <- MCTask
  MaxAttempts = 2
  MaxCalls = 2
SPECIFICATION FairSpec
INVARIANTS
  TypeOK
  RunsIffWanted
  AttemptsCounted
  TmpdirLifetime
  StatusOfChildren
PROPERTIES
  Settles
CHECK_DEADLOCK FALSE
