CONSTANTS
  Family <- MCFamily
  MaxCut = 2
SPECIFICATION Spec
INVARIANTS
  Delivers
  Converges
  StatusTells
  LeavesTheRest
PROPERTIES
  QuietAgain
  Repairable
