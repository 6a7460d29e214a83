----------------------------- MODULE ChunkStore ------------------------------
(***************************************************************************)
(* Chunk storage: one writer fills a stream and finishes it, then readers   *)
(* are created on the table it wrote.                                       *)
(***************************************************************************)
EXTENDS ChunkWriter, ChunkReader

vars == <<file, table, ret, writer, issued, reader>>

Init ==
  /\ WriterInit
  /\ ReaderInit
  /\ ret = [op |-> "none", addr |-> 0, size |-> 0, data |-> Null]

AddStep    == \E data \in Blocks : AddBlock(data) /\ UNCHANGED reader
FinishStep == Finish /\ UNCHANGED reader
CreateStep == ReaderCreate /\ UNCHANGED <<writer, issued>>
DestroyStep == ReaderDestroy /\ UNCHANGED <<writer, issued>>
GetStep    == \E addr \in Address \cup {InvalidAddress}, size \in 0 .. MaxRead :
                GetBlock(addr, size) /\ UNCHANGED <<writer, issued>>

Next == AddStep \/ FinishStep \/ CreateStep \/ DestroyStep \/ GetStep

Spec == Init /\ [][Next]_vars

-----------------------------------------------------------------------------
Writer == [open : BOOLEAN, buffer : Seq(Byte), capacity : Nat,
           offsets : Seq(Nat), tableCap : Nat, index : Nat]
Reader == [open : BOOLEAN, offsets : Seq(Nat), hasCache : BOOLEAN,
           cachedIndex : Nat, cachedData : Seq(Byte)]

\* Every variable holds a value of its kind.
TypeOK ==
  /\ file   \in Seq(Item)
  /\ table  \in Nat
  /\ ret    \in Result
  /\ writer \in Writer
  /\ issued \in Seq([addr : Nat, data : Seq(Byte) \ {Null}])
  /\ reader \in Reader

\* The bytes of chunk c: in the file once saved, in the buffer until then.
BytesOf(w, f, c) ==
  IF c < Len(w.offsets) THEN f[w.offsets[c + 1]].bytes ELSE w.buffer

Sound(w, f) ==
  /\ w.index = Len(w.offsets)
  /\ Len(w.offsets) <= w.tableCap /\ w.tableCap <= MaxU32
  /\ Len(w.buffer) <= w.capacity /\ w.capacity <= MaxU32
  /\ \A i \in 1 .. Len(w.offsets) :
       /\ w.offsets[i] \in 1 .. Len(f)
       /\ Readable(f[w.offsets[i]])
       /\ f[w.offsets[i]].size = Len(f[w.offsets[i]].bytes)

Resolves(w, f, entry) ==
  LET c    == AddrGetChunk(entry.addr)
      off  == AddrGetOffset(entry.addr)
      size == Len(entry.data)
  IN  /\ entry.addr \in Address
      /\ c <= w.index
      /\ off + size <= Len(BytesOf(w, f, c))
      /\ Slice(BytesOf(w, f, c), off, size) = entry.data

\* The table of positions and the running chunk index agree after any
\* sequence of failed and repeated saves, the index and the capacities stay
\* within 32 bits, the buffer within its capacity, and each position is that
\* of a chunk that can be read back.
WriterSound == Sound(writer, file)

\* The address handed out for a block leads to the block's bytes, whatever
\* was appended, flushed, failed or repeated since.
AddressesResolve ==
  \A i \in 1 .. Len(issued) : Resolves(writer, file, issued[i])

\* Two blocks never share a byte.
BlocksDisjoint ==
  \A i \in 1 .. Len(issued) : \A j \in 1 .. i - 1 :
    LET a == issued[j].addr
        b == issued[i].addr
    IN  \/ AddrGetChunk(a) < AddrGetChunk(b)
        \/ /\ AddrGetChunk(a) = AddrGetChunk(b)
           /\ AddrGetOffset(a) + Len(issued[j].data) <= AddrGetOffset(b)

\* A cache that is marked valid holds the bytes of the chunk it is marked
\* with, after any sequence of failed and successful loads.
CacheCoherent ==
  reader.hasCache =>
    /\ reader.open
    /\ reader.cachedIndex < Len(writer.offsets)
    /\ reader.cachedData = BytesOf(writer, file, reader.cachedIndex)

\* A reader works from the writer's final table.
ReaderTable ==
  /\ table # 0 =>
       /\ ~writer.open
       /\ table \in 1 .. Len(file)
       /\ writer.buffer = <<>>
       /\ file[table] = TableItem(writer.offsets)
  /\ reader.open => table # 0 /\ reader.offsets = writer.offsets

\* The chunk store does what BlockStore promises.
Store == INSTANCE BlockStore WITH
           Addresses <- Address,
           Invalid   <- InvalidAddress,
           stored    <- {issued[i] : i \in 1 .. Len(issued)},
           sealed    <- table # 0
Implements == Store!Spec

-----------------------------------------------------------------------------
(* What udx_chunk.h says of large blocks.                                   *)

\* udx_chunk.h: a block larger than ChunkMax occupies a dedicated chunk.
LargeBlocksDedicated ==
  \A i, j \in 1 .. Len(issued) :
    i # j /\ Len(issued[i].data) > ChunkMax
      => AddrGetChunk(issued[i].addr) # AddrGetChunk(issued[j].addr)
==============================================================================
