CONSTANTS
  Byte <- MCByte
  Blocks <- MCBlocks
  ChunkMax = 2
  OffsetRange = 2
  MaxU32 = 4
  TableInit = 1
  MaxAdds = 6
  MaxTorn = 2
  MaxRead = 3
SPECIFICATION Spec
INVARIANT LargeBlocksDedicated
CHECK_DEADLOCK FALSE
