CONSTANTS
  Name <- MCName
  Text <- MCText
  Cut <- MCCut
  NULL = NULL
  MaxDbs = 2
  MaxBuilds = 3
  MaxPos = 4
SPECIFICATION Spec
INVARIANT OpenReturns
CHECK_DEADLOCK FALSE
