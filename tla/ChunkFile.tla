------------------------------ MODULE ChunkFile ------------------------------
(***************************************************************************)
(* What the chunk writer and the chunk reader of udx_chunk.c share: value   *)
(* addresses, the items they leave in the file, and the result the last     *)
(* call handed back.                                                        *)
(*                                                                         *)
(* The file is a sequence of items, and a position (ftell/fseek) is the     *)
(* index of an item: how many bytes an item takes is not modelled, that     *)
(* distinct items have distinct, growing positions is.  zlib is external:   *)
(* "bytes" is what the deflated stream of a chunk inflates to.              *)
(***************************************************************************)
EXTENDS Naturals, Sequences

CONSTANTS
  Byte,         \* what a block is made of
  ChunkMax,     \* UDX_CHUNK_MAX_SIZE (65536)
  OffsetRange,  \* number of uint16_t values (65536)
  MaxU32,       \* UINT32_MAX
  TableInit     \* first capacity of the chunk offset table (64)

ASSUME ChunkAssumption ==
  /\ ChunkMax    \in Nat \ {0}
  /\ OffsetRange \in Nat /\ ChunkMax <= OffsetRange
  /\ MaxU32      \in Nat /\ OffsetRange <= MaxU32
  /\ TableInit   \in 1 .. MaxU32

VARIABLES
  file,   \* the items written so far
  table,  \* position of the chunk table, 0 while there is none
  ret     \* what the last call was asked for and returned

-----------------------------------------------------------------------------
(* Addresses: 32-bit chunk index, 16-bit offset, packed into 64 bits.       *)

\* Mutant: the index is shifted by one too few.
AddrMakeShifted(index, offset) == index * (OffsetRange - 1) + (offset % OffsetRange)
AddrMake(index, offset) == index * OffsetRange + (offset % OffsetRange)

AddrGetChunk(addr)  == (addr \div OffsetRange) % (MaxU32 + 1)
AddrGetOffset(addr) == addr % OffsetRange

\* UDX_INVALID_ADDRESS: every one of the 64 bits set
InvalidAddress == (MaxU32 + 1) * (MaxU32 + 1) - 1

Address == 0 .. (MaxU32 + 1) * OffsetRange - 1

-----------------------------------------------------------------------------
(* Items: a chunk (its header holds the uncompressed size), the bytes a     *)
(* failed fwrite leaves behind, the table of chunk positions.               *)

Item == [kind : {"chunk", "torn", "table"}, size : Nat,
         bytes : Seq(Byte), offsets : Seq(Nat)]

ChunkItem(bytes) ==
  [kind |-> "chunk", size |-> Len(bytes), bytes |-> bytes, offsets |-> <<>>]
TableItem(offsets) ==
  [kind |-> "table", size |-> 0, bytes |-> <<>>, offsets |-> offsets]
Torn ==
  [kind |-> "torn", size |-> 0, bytes |-> <<>>, offsets |-> <<>>]

\* A block is never empty, so the empty sequence stands for NULL.
Null == <<>>

Result == [op : {"none", "add", "finish", "open", "get"},
           addr : Nat, size : Nat, data : Seq(Byte)]
==============================================================================
