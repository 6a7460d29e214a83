SPECIFICATION FairSpec
CONSTANTS
  MaxItems = 3
  MaxKey = 20
  Spellings <- MCSpellings
  Fold <- MCFold
  Starts <- MCStarts
  MaxTotal = 12
  MaxListed = 2
INVARIANTS
  TypeOK
  TreeSound
  CountsAgree
  NoLeak
  IterFits
  WalkExact
PROPERTIES
  Implements
  CallsEnd
CHECK_DEADLOCK FALSE
