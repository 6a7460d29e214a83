CONSTANTS
  Byte <- MCByte
  Blocks <- MCBlocks
  ChunkMax = 2
  OffsetRange = 2
  MaxU32 = 4
  TableInit = 1
  MaxAdds = 6
  MaxTorn = 2
  MaxRead = 3
SPECIFICATION Spec
INVARIANTS
  TypeOK
  WriterSound
  AddressesResolve
  BlocksDisjoint
  ReaderTable
  CacheCoherent
PROPERTY Implements
CHECK_DEADLOCK FALSE
