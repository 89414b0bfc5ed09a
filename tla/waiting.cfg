CONSTANTS
  Thing <- MCThing
  Config <- MCConfig
SPECIFICATION FairSpec
INVARIANTS
  TypeOK
  Reached
  StatusOfWait
PROPERTIES
  Ends
CHECK_DEADLOCK FALSE
