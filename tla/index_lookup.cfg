CONSTANTS
  MaxWord = 6
  PrefixEnd <- MCPrefixEnd
  Weight <- MCWeight
  KeyLists <- MCKeyLists
  MaxElements = 2
  NodeLimit = 100
  Limits = {0, 1, 2}
  FirstCap = 1
SPECIFICATION Spec
INVARIANT LookupComplete
CHECK_DEADLOCK FALSE
