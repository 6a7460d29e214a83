CONSTANTS
  MaxWord = 6
  PrefixEnd <- MCPrefixEnd
  Weight <- MCWeight
  KeyLists <- MCKeyLists
  MaxElements = 2
  NodeLimit = 100
  Limits = {0, 2}
  FirstCap = 1
SPECIFICATION FairSpec
INVARIANTS
  TypeOK
  LeavesChained
  TreeSound
  SplitExact
  HeightIsDepth
  LookupAnswers
  PrefixAnswers
  IteratorExact
PROPERTY CallEnds
CHECK_DEADLOCK FALSE
