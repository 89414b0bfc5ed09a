CONSTANTS
  Thing <- MCThing
  Config <- MCConfig
SPECIFICATION Spec
INVARIANT
  StatusOfFiles
CHECK_DEADLOCK FALSE
