----------------------------- MODULE ChunkReader -----------------------------
(***************************************************************************)
(* The chunk reader of udx_chunk.c: it keeps the chunk table and the last   *)
(* chunk it inflated.  Every call may meet a failing fseek, fread,          *)
(* allocation or inflation.                                                 *)
(***************************************************************************)
EXTENDS ChunkFile

CONSTANT MaxRead   \* bound: largest data_size asked for

ASSUME ReadAssumption == MaxRead \in Nat

VARIABLE reader    \* struct udx_chunk_reader

\* Mutant: no chunk is marked by an index of -1.
NoReaderMarked ==
  [open |-> FALSE, offsets |-> <<>>, hasCache |-> FALSE,
   cachedIndex |-> 0 - 1, cachedData |-> Null]
NoReader ==
  [open |-> FALSE, offsets |-> <<>>, hasCache |-> FALSE,
   cachedIndex |-> 0, cachedData |-> Null]

ReaderInit == reader = NoReader

-----------------------------------------------------------------------------
(* udx_chunk_reader_create and udx_chunk_reader_destroy                     *)

ReaderCreate ==
  /\ ~reader.open /\ table # 0
  /\ ret' = [op |-> "open", addr |-> table, size |-> 0, data |-> Null]
  /\ \/ UNCHANGED reader                                  \* returns NULL
     \/ reader' = [NoReader EXCEPT !.open = TRUE,
                                   !.offsets = file[table].offsets]
  /\ UNCHANGED <<file, table>>

ReaderDestroy ==
  /\ reader.open
  /\ reader' = NoReader
  /\ UNCHANGED <<file, table, ret>>

-----------------------------------------------------------------------------
(* chunk_reader_load_chunk                                                  *)

Readable(item) == item.kind = "chunk" /\ item.size # 0

\* Mutant: any valid cache serves any chunk.
CacheServesAny(r, c) == r.hasCache
CacheServes(r, c)    == r.hasCache /\ r.cachedIndex = c

\* Mutant: the cache stays valid while a chunk is loaded over it.
KeepCache(r) == r
DropCache(r) == [r EXCEPT !.hasCache = FALSE]

\* What loading chunk c into the cache of r can come to: refused or served
\* from the cache; the seek fails and the cache survives; the cache is given
\* up and its buffer kept; the buffer is given up too; the chunk is loaded.
LoadResults(r, c) ==
  IF c >= Len(r.offsets)
    THEN { [ok |-> FALSE, r |-> r] }
  ELSE IF CacheServes(r, c)
    THEN { [ok |-> TRUE, r |-> r] }
  ELSE LET item == file[r.offsets[c + 1]]
       IN  { [ok |-> FALSE, r |-> r],
             [ok |-> FALSE, r |-> DropCache(r)],
             [ok |-> FALSE, r |-> [DropCache(r) EXCEPT !.cachedData = Null]] }
           \cup (IF Readable(item)
                   THEN { [ok |-> TRUE,
                           r |-> [r EXCEPT !.hasCache = TRUE,
                                           !.cachedIndex = c,
                                           !.cachedData = item.bytes]] }
                   ELSE {})

-----------------------------------------------------------------------------
(* udx_chunk_reader_get_block                                               *)

Slice(bytes, offset, size) == SubSeq(bytes, offset + 1, offset + size)

GetReturns(addr, size, data) ==
  ret' = [op |-> "get", addr |-> addr, size |-> size, data |-> data]

GetBlock(addr, size) ==
  /\ reader.open
  /\ \/ size = 0 /\ GetReturns(addr, size, Null) /\ UNCHANGED reader
     \/ /\ size # 0
        /\ \E l \in LoadResults(reader, AddrGetChunk(addr)) :
             LET offset == AddrGetOffset(addr)
             IN  /\ reader' = l.r
                 /\ \/ GetReturns(addr, size, Null)       \* also: malloc fails
                    \/ /\ l.ok
                       /\ offset + size <= Len(l.r.cachedData)
                       /\ GetReturns(addr, size, Slice(l.r.cachedData, offset, size))
  /\ UNCHANGED <<file, table>>
==============================================================================
