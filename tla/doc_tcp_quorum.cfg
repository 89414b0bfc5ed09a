CONSTANTS
  Thing <- MCThing
  Config <- MCConfig
SPECIFICATION Spec
INVARIANT
  FoundTheQuorum
CHECK_DEADLOCK FALSE
