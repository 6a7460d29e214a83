CONSTANTS
  MaxWord = 6
  PrefixEnd <- MCPrefixEnd
  Weight <- MCWeight
  KeyLists <- MCKeyLists
  MaxElements = 2
  NodeLimit = 3
  Limits = {0, 1, 2}
  FirstCap = 1
SPECIFICATION Spec
INVARIANT BuiltIsReadable
CHECK_DEADLOCK FALSE
