CONSTANTS
  Store <- MCStore
  Parent <- MCParent
  Listening = {"session"}
  Name <- MCName
  Action <- MCAction
  Tree <- MCTree
  MaxCalls = 3
SPECIFICATION Spec
INVARIANTS
  ToldTheName
CHECK_DEADLOCK FALSE
