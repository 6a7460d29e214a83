SPECIFICATION Spec
CONSTANTS
  MaxKeys = 4
  MaxLen = 3
  LongKeys = 9
  Nodes <- MCNodes
  Keys <- MCKeyRanks
INVARIANTS
  TypeOK
  ChildIsRight
  EntryIsLowerBound
  WindowOnKeys
  WalkMeetsStop
PROPERTIES
  Shrinks
  Termination
