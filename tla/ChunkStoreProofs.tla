-------------------------- MODULE ChunkStoreProofs ---------------------------
(***************************************************************************)
(* Proofs about chunk storage, for every choice of the constants.           *)
(***************************************************************************)
EXTENDS ChunkStore, Integers, SequenceTheorems, TLAPS

-----------------------------------------------------------------------------
(* Arithmetic of addresses.                                                 *)

\* Multiples of R are R apart.
LEMMA MultiplesApart ==
  ASSUME NEW R \in Nat, NEW x \in Int, NEW y \in Int, x + 1 <= y
  PROVE  x * R + R <= y * R
<1>1. (y - x - 1) \in Nat  OBVIOUS
<1>2. (y - x - 1) * R >= 0  BY <1>1
<1>3. (y - x - 1) * R = y * R - x * R - R  OBVIOUS
<1> QED BY <1>2, <1>3

\* Quotient and remainder are unique.
LEMMA DivModUnique ==
  ASSUME NEW R \in Nat \ {0}, NEW i \in Nat, NEW o \in 0 .. R - 1
  PROVE  (i * R + o) \div R = i /\ (i * R + o) % R = o
<1> DEFINE a == i * R + o
           q == a \div R
           r == a % R
<1>1. a \in Nat  OBVIOUS
<1>2. a = q * R + r /\ r \in 0 .. R - 1 /\ q \in Nat  BY <1>1
<1> HIDE DEF q, r
<1>3. ~(q + 1 <= i)
  <2> SUFFICES ASSUME q + 1 <= i PROVE FALSE  OBVIOUS
  <2>1. q * R + R <= i * R  BY MultiplesApart, <1>2
  <2> QED BY <2>1, <1>2
<1>4. ~(i + 1 <= q)
  <2> SUFFICES ASSUME i + 1 <= q PROVE FALSE  OBVIOUS
  <2>1. i * R + R <= q * R  BY MultiplesApart, <1>2
  <2> QED BY <2>1, <1>2
<1>5. q = i  BY <1>2, <1>3, <1>4
<1>6. r = o  BY <1>2, <1>5
<1> QED BY <1>5, <1>6 DEF q, r

\* An address made of a 32-bit index and an offset below 2^16 gives both back
\* (udx_addr_make, udx_addr_get_chunk, udx_addr_get_offset), and is not the
\* address that stands for failure.
THEOREM AddressRoundTrip ==
  ASSUME NEW index \in 0 .. MaxU32, NEW offset \in 0 .. OffsetRange - 1
  PROVE  /\ AddrMake(index, offset) \in Address
         /\ AddrGetChunk(AddrMake(index, offset)) = index
         /\ AddrGetOffset(AddrMake(index, offset)) = offset
         /\ AddrMake(index, offset) # InvalidAddress
<1> USE ChunkAssumption
<1> DEFINE R == OffsetRange
           M == MaxU32 + 1
<1>1. R \in Nat \ {0} /\ M \in Nat \ {0} /\ R < M  OBVIOUS
<1>2. 0 * R + offset = offset  OBVIOUS
<1>3. offset % R = offset  BY <1>1, <1>2, DivModUnique
<1>4. AddrMake(index, offset) = index * R + offset  BY <1>3 DEF AddrMake
<1>5. /\ (index * R + offset) \div R = index
      /\ (index * R + offset) % R = offset
  BY <1>1, DivModUnique
<1>6. index % M = index
  <2>1. 0 * M + index = index  OBVIOUS
  <2> QED BY <1>1, <2>1, DivModUnique
<1>7. index * R + R <= M * R  BY <1>1, MultiplesApart
<1>8. R * M + M <= M * M  BY <1>1, MultiplesApart
<1>9. index * R >= 0  BY <1>1
<1>10. index * R + offset \in Address
  <2>1. index * R + offset <= M * R - 1  BY <1>7, <1>1
  <2> QED BY <2>1, <1>9 DEF Address
<1>11. index * R + offset # InvalidAddress
  <2>1. R * M = M * R  OBVIOUS
  <2>2. index * R + offset < M * M - 1  BY <1>1, <1>7, <1>8, <2>1
  <2> QED BY <2>2 DEF InvalidAddress
<1> QED BY <1>4, <1>5, <1>6, <1>10, <1>11 DEF AddrGetChunk, AddrGetOffset

-----------------------------------------------------------------------------
(* The file only grows: what was in it stays where it was.                  *)

Entry == [addr : Nat, data : Seq(Byte) \ {Null}]

LEMMA ItemTypes ==
  /\ Torn \in Item
  /\ \A bytes \in Seq(Byte) : ChunkItem(bytes) \in Item
  /\ \A offs \in Seq(Nat) : TableItem(offs) \in Item
<1>1. <<>> \in Seq(Byte) /\ <<>> \in Seq(Nat)  BY EmptySeq
<1>2. \A bytes \in Seq(Byte) : Len(bytes) \in Nat  BY LenProperties
<1> QED BY <1>1, <1>2 DEF Torn, ChunkItem, TableItem, Item

\* Writing behind the file disturbs neither the table nor a block.
LEMMA FileGrows ==
  ASSUME NEW w \in Writer, NEW f \in Seq(Item), NEW item \in Item, Sound(w, f)
  PROVE  /\ Sound(w, Append(f, item))
         /\ \A e \in Entry : Resolves(w, f, e) => Resolves(w, Append(f, item), e)
<1> DEFINE g == Append(f, item)
<1>1. /\ g \in Seq(Item) /\ Len(g) = Len(f) + 1
      /\ \A i \in 1 .. Len(f) : g[i] = f[i]
  BY AppendProperties
<1>2. Len(f) \in Nat /\ Len(w.offsets) \in Nat  BY LenProperties DEF Writer
<1>3. \A i \in 1 .. Len(w.offsets) :
        w.offsets[i] \in 1 .. Len(f) /\ g[w.offsets[i]] = f[w.offsets[i]]
  BY <1>1 DEF Sound
<1> HIDE DEF g
<1>4. Sound(w, g)
  BY <1>1, <1>2, <1>3 DEF Sound
<1>5. \A c \in Nat : BytesOf(w, g, c) = BytesOf(w, f, c)
  BY <1>2, <1>3 DEF BytesOf
<1>6. \A e \in Entry : AddrGetChunk(e.addr) \in Nat
  BY ChunkAssumption DEF AddrGetChunk, Entry
<1>7. \A e \in Entry : Resolves(w, f, e) => Resolves(w, g, e)
  BY <1>5, <1>6 DEF Resolves
<1> QED BY <1>4, <1>7 DEF g

-----------------------------------------------------------------------------
(* chunk_writer_save_current                                                *)

\* Reserving room in the table of positions keeps the writer sound, and
\* leaves a free slot: the capacity grows before it would pass 32 bits.
LEMMA GrownSound ==
  ASSUME NEW w \in Writer, NEW f, Sound(w, f), ~GrowRefused(w)
  PROVE  /\ Grown(w) \in Writer
         /\ Sound(Grown(w), f)
         /\ Len(w.offsets) < GrownCapacity(w) /\ GrownCapacity(w) <= MaxU32
         /\ \A e : Resolves(w, f, e) => Resolves(Grown(w), f, e)
<1>1. Len(w.offsets) \in Nat  BY LenProperties DEF Writer
<1>2. /\ GrownCapacity(w) \in Nat
      /\ w.tableCap <= GrownCapacity(w)
      /\ Len(w.offsets) < GrownCapacity(w) /\ GrownCapacity(w) <= MaxU32
  BY <1>1, ChunkAssumption
     DEF GrownCapacity, GrowRefused, TableFull, Sound, Writer
<1>3. /\ Grown(w) \in Writer
      /\ Grown(w).offsets = w.offsets /\ Grown(w).buffer = w.buffer
      /\ Grown(w).index = w.index /\ Grown(w).capacity = w.capacity
      /\ Grown(w).tableCap = GrownCapacity(w)
  BY <1>2 DEF Grown, Writer
<1>4. Sound(Grown(w), f)
  BY <1>1, <1>2, <1>3 DEF Sound, Writer
<1>5. \A e : Resolves(w, f, e) => Resolves(Grown(w), f, e)
  BY <1>3 DEF Resolves, BytesOf
<1> QED BY <1>2, <1>3, <1>4, <1>5

\* A chunk that was saved is committed, the index limit is never met, and
\* every block that was in the buffer is found in the file.
LEMMA SavedSound ==
  ASSUME NEW w \in Writer, NEW f \in Seq(Item), Sound(w, f),
         ~GrowRefused(w), w.buffer # <<>>
  PROVE  LET s == Saved(w, f) IN
         /\ s.ok /\ s.w \in Writer /\ s.file \in Seq(Item)
         /\ s.w.buffer = <<>> /\ s.w.open = w.open
         /\ Sound(s.w, s.file)
         /\ \A e \in Entry : Resolves(w, f, e) => Resolves(s.w, s.file, e)
<1> DEFINE s == Saved(w, f)
           n == Len(w.offsets)
<1>1. n \in Nat /\ Len(f) \in Nat /\ Len(w.buffer) \in Nat /\ Len(w.buffer) # 0
  BY LenProperties, EmptySeq DEF Writer
<1>2. n < GrownCapacity(w) /\ GrownCapacity(w) <= MaxU32 /\ GrownCapacity(w) \in Nat
  BY GrownSound, <1>1 DEF Writer, Grown
<1>3. w.index = n /\ n < MaxU32
  BY <1>1, <1>2, ChunkAssumption DEF Sound
<1>4. ChunkItem(w.buffer) \in Item  BY ItemTypes DEF Writer
<1>5. /\ s.file \in Seq(Item) /\ Len(s.file) = Len(f) + 1
      /\ \A i \in 1 .. Len(f) : s.file[i] = f[i]
      /\ s.file[Len(f) + 1] = ChunkItem(w.buffer)
  BY <1>4, AppendProperties DEF Saved
<1>6. /\ Append(w.offsets, Len(f) + 1) \in Seq(Nat)
      /\ Len(Append(w.offsets, Len(f) + 1)) = n + 1
      /\ \A i \in 1 .. n : Append(w.offsets, Len(f) + 1)[i] = w.offsets[i]
      /\ Append(w.offsets, Len(f) + 1)[n + 1] = Len(f) + 1
  BY <1>1, AppendProperties DEF Writer
<1>7. /\ s.ok /\ s.w \in Writer
      /\ s.w.offsets = Append(w.offsets, Len(f) + 1)
      /\ s.w.buffer = <<>> /\ s.w.open = w.open /\ s.w.capacity = w.capacity
      /\ s.w.index = n + 1 /\ s.w.tableCap = GrownCapacity(w)
  <2>1. w = [open |-> w.open, buffer |-> w.buffer, capacity |-> w.capacity,
             offsets |-> w.offsets, tableCap |-> w.tableCap, index |-> w.index]
    BY DEF Writer
  <2>2. s.w = [open |-> w.open, buffer |-> <<>>, capacity |-> w.capacity,
               offsets |-> Append(w.offsets, Len(f) + 1),
               tableCap |-> GrownCapacity(w), index |-> n + 1]
    BY <2>1, <1>3 DEF Saved, Grown
  <2>3. s.ok  BY <1>3 DEF Saved
  <2>4. s.w \in Writer
    <3>1. <<>> \in Seq(Byte)  BY EmptySeq
    <3>2. n + 1 \in Nat  BY <1>1
    <3> QED BY <3>1, <3>2, <2>2, <1>2, <1>6 DEF Writer
  <2> HIDE DEF s
  <2> QED BY <2>2, <2>3, <2>4
<1> HIDE DEF s
<1>8. Sound(s.w, s.file)
  <2>1. \A i \in 1 .. n + 1 :
          /\ s.w.offsets[i] \in 1 .. Len(s.file)
          /\ Readable(s.file[s.w.offsets[i]])
          /\ s.file[s.w.offsets[i]].size = Len(s.file[s.w.offsets[i]].bytes)
    <3> TAKE i \in 1 .. n + 1
    <3>1. CASE i \in 1 .. n
      <4>1. /\ w.offsets[i] \in 1 .. Len(f)
            /\ Readable(f[w.offsets[i]])
            /\ f[w.offsets[i]].size = Len(f[w.offsets[i]].bytes)
        BY <3>1 DEF Sound
      <4>2. s.w.offsets[i] = w.offsets[i]  BY <3>1, <1>6, <1>7
      <4>3. s.file[w.offsets[i]] = f[w.offsets[i]]  BY <4>1, <1>5
      <4> QED BY <4>1, <4>2, <4>3, <1>1, <1>5
    <3>2. CASE i = n + 1
      <4>1. s.w.offsets[i] = Len(f) + 1  BY <3>2, <1>6, <1>7
      <4>2. s.file[s.w.offsets[i]] = ChunkItem(w.buffer)  BY <4>1, <1>5
      <4> QED BY <4>1, <4>2, <1>1, <1>5 DEF Readable, ChunkItem
    <3> QED BY <3>1, <3>2, <1>1
  <2>2. Len(s.w.buffer) = 0  BY <1>7, EmptySeq
  <2>3. Len(s.w.offsets) = n + 1  BY <1>6, <1>7
  <2>4. Len(s.w.offsets) <= s.w.tableCap /\ s.w.tableCap <= MaxU32
    BY <1>1, <1>2, <1>7, <2>3
  <2>5. Len(s.w.buffer) <= s.w.capacity /\ s.w.capacity <= MaxU32
    BY <2>2, <1>7 DEF Sound, Writer
  <2> QED BY <2>1, <2>3, <2>4, <2>5, <1>7 DEF Sound
<1>9. \A e \in Entry : Resolves(w, f, e) => Resolves(s.w, s.file, e)
  <2> TAKE e \in Entry
  <2> HAVE Resolves(w, f, e)
  <2> DEFINE c == AddrGetChunk(e.addr)
  <2>1. c \in Nat /\ c <= n
    BY <1>3, ChunkAssumption DEF Resolves, AddrGetChunk, Entry
  <2> HIDE DEF c
  <2>2. BytesOf(s.w, s.file, c) = BytesOf(w, f, c)
    <3>1. CASE c < n
      <4>1. c + 1 \in 1 .. n  BY <3>1, <2>1, <1>1
      <4>2. w.offsets[c + 1] \in 1 .. Len(f)  BY <4>1 DEF Sound
      <4>3. s.w.offsets[c + 1] = w.offsets[c + 1]  BY <4>1, <1>6, <1>7
      <4>4. s.file[w.offsets[c + 1]] = f[w.offsets[c + 1]]  BY <4>2, <1>5
      <4>5. c < Len(s.w.offsets)  BY <3>1, <1>1, <1>6, <1>7, <2>1
      <4> QED BY <3>1, <4>3, <4>4, <4>5 DEF BytesOf
    <3>2. CASE c = n
      BY <3>2, <1>1, <1>5, <1>6, <1>7 DEF BytesOf, ChunkItem
    <3> QED BY <3>1, <3>2, <2>1, <1>1
  <2>3. c <= s.w.index  BY <2>1, <1>1, <1>7
  <2> QED BY <2>2, <2>3 DEF Resolves, c
<1> QED BY <1>5, <1>7, <1>8, <1>9 DEF s

\* Whatever becomes of saving the buffer, no block is lost.
LEMMA SaveKeeps ==
  ASSUME NEW w \in Writer, NEW f \in Seq(Item), Sound(w, f),
         NEW s \in SaveResults(w, f)
  PROVE  /\ s.w \in Writer /\ s.file \in Seq(Item) /\ s.w.open = w.open
         /\ Sound(s.w, s.file)
         /\ s.ok => s.w.buffer = <<>>
         /\ \A e \in Entry : Resolves(w, f, e) => Resolves(s.w, s.file, e)
<1>1. CASE s.w = w /\ s.file = f /\ (s.ok => w.buffer = <<>>)
  BY <1>1
<1>2. CASE ~GrowRefused(w) /\ s = Unsaved(Grown(w), f)
  <2>1. s.w = Grown(w) /\ s.file = f /\ ~s.ok  BY <1>2 DEF Unsaved
  <2>2. Grown(w).open = w.open  BY DEF Grown, Writer
  <2> QED BY <2>1, <2>2, <1>2, GrownSound
<1>3. CASE ~GrowRefused(w) /\ w.buffer # <<>> /\ s = Saved(w, f)
  BY <1>3, SavedSound
<1>4. CASE ~GrowRefused(w) /\ s = PartlySaved(w, f)
  <2>1. s.w = Grown(w) /\ s.file = Append(f, Torn) /\ ~s.ok
    BY <1>4 DEF PartlySaved
  <2>2. Grown(w).open = w.open  BY DEF Grown, Writer
  <2>3. /\ Grown(w) \in Writer /\ Sound(Grown(w), f)
        /\ \A e : Resolves(w, f, e) => Resolves(Grown(w), f, e)
    BY <1>4, GrownSound
  <2>4. Torn \in Item  BY ItemTypes
  <2>5. Append(f, Torn) \in Seq(Item)  BY <2>4, AppendProperties
  <2> QED BY <2>1, <2>2, <2>3, <2>4, <2>5, FileGrows
<1>5. \/ s.w = w /\ s.file = f /\ (s.ok => w.buffer = <<>>)
      \/ ~GrowRefused(w) /\ w.buffer # <<>>
         /\ s \in {Unsaved(Grown(w), f), Saved(w, f), PartlySaved(w, f)}
  BY DEF SaveResults, Unsaved
<1> QED BY <1>1, <1>2, <1>3, <1>4, <1>5

-----------------------------------------------------------------------------
(* udx_chunk_writer_add_block                                               *)

LEMMA SliceOfConcat ==
  ASSUME NEW b \in Seq(Byte), NEW d \in Seq(Byte), NEW off \in Nat,
         NEW size \in Nat, off + size <= Len(b)
  PROVE  Slice(b \o d, off, size) = Slice(b, off, size)
<1>1. Len(b) \in Nat  BY LenProperties
<1>2. CASE size = 0
  BY <1>2, SubSeqEmpty DEF Slice
<1>3. CASE size # 0
  <2>1. off + 1 \in 1 .. Len(b) /\ off + size \in 1 .. Len(b)  BY <1>1, <1>3
  <2> QED BY <2>1, SubSeqOfConcat1 DEF Slice
<1> QED BY <1>2, <1>3

LEMMA SliceLen ==
  ASSUME NEW b \in Seq(Byte), NEW off \in Nat, NEW size \in Nat,
         off + size <= Len(b)
  PROVE  Slice(b, off, size) \in Seq(Byte) /\ Len(Slice(b, off, size)) = size
<1> DEFINE m == off + 1
           n == off + size
<1>1. m \in Int /\ n \in Int /\ Len(b) \in Nat  BY LenProperties
<1>2. \A i \in m .. n : b[i] \in Byte  BY <1>1, ElementOfSeq
<1>3. (IF m <= n THEN n - m + 1 ELSE 0) = size  OBVIOUS
<1> HIDE DEF m, n
<1>4. /\ SubSeq(b, m, n) \in Seq(Byte)
      /\ Len(SubSeq(b, m, n)) = IF m <= n THEN n - m + 1 ELSE 0
  BY <1>1, <1>2, SubSeqProperties
<1> QED BY <1>3, <1>4 DEF Slice, m, n

LEMMA SliceOfTail ==
  ASSUME NEW b \in Seq(Byte), NEW d \in Seq(Byte), d # <<>>
  PROVE  Slice(b \o d, Len(b), Len(d)) = d
<1>1. Len(b) \in Nat /\ Len(d) \in Nat /\ Len(d) # 0
  BY LenProperties, EmptySeq
<1>2. /\ Len(b) + 1 \in Len(b) + 1 .. Len(b) + Len(d)
      /\ Len(b) + Len(d) \in Len(b) + 1 .. Len(b) + Len(d)
  BY <1>1
<1>3. SubSeq(b \o d, Len(b) + 1, Len(b) + Len(d)) = SubSeq(d, 1, Len(d))
  <2>1. Len(b) + 1 - Len(b) = 1 /\ Len(b) + Len(d) - Len(b) = Len(d)  BY <1>1
  <2> QED BY <1>2, <2>1, SubSeqOfConcat2
<1> QED BY <1>3, SubSeqFull DEF Slice

\* The address lies behind every block of the writer.
Free(w, f, addr) ==
  \A e \in Entry : Resolves(w, f, e) =>
    \/ AddrGetChunk(e.addr) < AddrGetChunk(addr)
    \/ /\ AddrGetChunk(e.addr) = AddrGetChunk(addr)
       /\ AddrGetOffset(e.addr) + Len(e.data) <= AddrGetOffset(addr)

\* A block appended to a buffer that still starts below 64 KB is found at the
\* address handed out, the blocks before it are found where they were, and
\* the new block starts behind all of them.
LEMMA AppendKeeps ==
  ASSUME NEW w \in Writer, NEW f \in Seq(Item), Sound(w, f),
         Len(w.buffer) < ChunkMax,
         NEW data \in Seq(Byte), data # <<>>, Len(w.buffer) + Len(data) <= MaxU32
  PROVE  LET addr == AddrMake(w.index, Len(w.buffer))
             v    == Appended(w, data)
         IN  /\ v \in Writer /\ v.open = w.open
             /\ Sound(v, f)
             /\ addr \in Address /\ addr # InvalidAddress
             /\ Resolves(v, f, [addr |-> addr, data |-> data])
             /\ \A e \in Entry : Resolves(w, f, e) => Resolves(v, f, e)
             /\ Free(w, f, addr)
<1> DEFINE addr == AddrMake(w.index, Len(w.buffer))
           v    == Appended(w, data)
           size == Len(w.buffer) + Len(data)
<1>1. /\ Len(w.buffer) \in Nat /\ Len(data) \in Nat /\ Len(data) # 0
      /\ Len(w.offsets) \in Nat /\ w.buffer \in Seq(Byte)
  BY LenProperties, EmptySeq DEF Writer
<1>2. w.buffer \o data \in Seq(Byte) /\ Len(w.buffer \o data) = size
  BY <1>1, ConcatProperties
<1>3. /\ v \in Writer
      /\ v.open = w.open /\ v.buffer = w.buffer \o data
      /\ v.capacity = IF size > w.capacity THEN size ELSE w.capacity
      /\ v.offsets = w.offsets /\ v.tableCap = w.tableCap /\ v.index = w.index
  <2>1. v = [w EXCEPT !.buffer = w.buffer \o data,
                      !.capacity = IF size > w.capacity THEN size ELSE w.capacity]
    BY DEF Appended
  <2>2. (IF size > w.capacity THEN size ELSE w.capacity) \in Nat
    BY <1>1 DEF Writer
  <2> HIDE DEF v, size
  <2> QED BY <2>1, <2>2, <1>2 DEF Writer
<1>5. Sound(v, f)
  BY <1>1, <1>2, <1>3 DEF Sound, Writer
<1>6. w.index = Len(w.offsets) /\ w.index \in 0 .. MaxU32
  BY <1>1, ChunkAssumption DEF Sound, Writer
<1>7. Len(w.buffer) \in 0 .. OffsetRange - 1
  BY <1>1, ChunkAssumption
<1>8. /\ addr \in Address /\ addr # InvalidAddress
      /\ AddrGetChunk(addr) = w.index /\ AddrGetOffset(addr) = Len(w.buffer)
  BY <1>6, <1>7, AddressRoundTrip
<1> HIDE DEF v, addr
<1>9. BytesOf(v, f, w.index) = w.buffer \o data
  BY <1>1, <1>3, <1>6 DEF BytesOf
<1>10. Resolves(v, f, [addr |-> addr, data |-> data])
  <2>1. w.index <= v.index  BY <1>3, <1>6
  <2>2. Slice(w.buffer \o data, Len(w.buffer), Len(data)) = data
    BY <1>1, SliceOfTail
  <2> DEFINE new == [addr |-> addr, data |-> data]
  <2>3. new.addr = addr /\ new.data = data  OBVIOUS
  <2>4. Len(w.buffer) + Len(data) <= Len(w.buffer \o data)  BY <1>1, <1>2
  <2> HIDE DEF new
  <2>5. Resolves(v, f, new)
    BY <2>1, <2>2, <2>3, <2>4, <1>8, <1>9 DEF Resolves
  <2> QED BY <2>5 DEF new
<1>11. ASSUME NEW e \in Entry, Resolves(w, f, e)
       PROVE  /\ Resolves(v, f, e)
              /\ \/ AddrGetChunk(e.addr) < w.index
                 \/ /\ AddrGetChunk(e.addr) = w.index
                    /\ AddrGetOffset(e.addr) + Len(e.data) <= Len(w.buffer)
  <2> DEFINE c   == AddrGetChunk(e.addr)
             off == AddrGetOffset(e.addr)
  <2>1. c \in Nat /\ off \in Nat /\ Len(e.data) \in Nat
    BY ChunkAssumption, LenProperties DEF AddrGetChunk, AddrGetOffset, Entry
  <2>2. /\ e.addr \in Address /\ c <= w.index
        /\ off + Len(e.data) <= Len(BytesOf(w, f, c))
        /\ Slice(BytesOf(w, f, c), off, Len(e.data)) = e.data
    BY <1>11 DEF Resolves
  <2> HIDE DEF c, off
  <2>3. CASE c < w.index
    <3>1. BytesOf(v, f, c) = BytesOf(w, f, c)
      BY <2>3, <1>3, <1>6 DEF BytesOf
    <3> QED BY <3>1, <2>2, <2>3, <1>3 DEF Resolves, c, off
  <2>4. CASE c = w.index
    <3>1. BytesOf(w, f, c) = w.buffer  BY <2>4, <1>1, <1>6 DEF BytesOf
    <3>2. Slice(w.buffer \o data, off, Len(e.data)) = e.data
      BY <3>1, <2>1, <2>2, <1>1, SliceOfConcat
    <3>3. off + Len(e.data) <= Len(w.buffer \o data)
      BY <3>1, <2>1, <2>2, <1>1, <1>2
    <3>4. c <= v.index  BY <2>4, <1>3, <1>6
    <3>5. Resolves(v, f, e)
      BY <3>2, <3>3, <3>4, <2>2, <2>4, <1>9 DEF Resolves, c, off
    <3> QED BY <3>1, <3>5, <2>2, <2>4 DEF c, off
  <2> QED BY <2>1, <2>2, <2>3, <2>4, <1>6
<1>12. Free(w, f, addr)
  BY <1>8, <1>11 DEF Free
<1>13. v.open = w.open  BY <1>3
<1> QED BY <1>3, <1>5, <1>8, <1>10, <1>11, <1>12, <1>13 DEF v, addr

-----------------------------------------------------------------------------
(* The inductive invariant: the properties of ChunkStore need each other.   *)

IInv ==
  /\ TypeOK
  /\ WriterSound
  /\ AddressesResolve
  /\ BlocksDisjoint
  /\ ReaderTable
  /\ CacheCoherent

LEMMA InvalidAddressIsNat == InvalidAddress \in Nat
<1>1. MaxU32 + 1 \in Nat \ {0}  BY ChunkAssumption
<1>2. (MaxU32 + 1) * (MaxU32 + 1) \in Nat /\ (MaxU32 + 1) * (MaxU32 + 1) # 0
  <2>1. MaxU32 * (MaxU32 + 1) \in Nat  BY ChunkAssumption
  <2>2. (MaxU32 + 1) * (MaxU32 + 1) = MaxU32 * (MaxU32 + 1) + (MaxU32 + 1)
    BY ChunkAssumption
  <2> QED BY <2>1, <2>2, <1>1
<1> QED BY <1>2 DEF InvalidAddress

LEMMA InitEstablishes == Init => IInv
<1> SUFFICES ASSUME Init PROVE IInv  OBVIOUS
<1> USE DEF Init, WriterInit, ReaderInit
<1>1. /\ <<>> \in Seq(Byte) /\ <<>> \in Seq(Nat) /\ <<>> \in Seq(Item)
      /\ <<>> \in Seq(Entry) /\ Len(<<>>) = 0
  BY EmptySeq
<1>2. TypeOK
  BY <1>1, ChunkAssumption
     DEF TypeOK, Writer, WriterOpened, Reader, NoReader, Null, Result, Entry
<1>3. WriterSound
  BY <1>1, ChunkAssumption DEF WriterSound, Sound, WriterOpened
<1>4. AddressesResolve /\ BlocksDisjoint
  BY <1>1 DEF AddressesResolve, BlocksDisjoint
<1>5. ReaderTable /\ CacheCoherent
  BY DEF ReaderTable, CacheCoherent, NoReader
<1> QED BY <1>2, <1>3, <1>4, <1>5 DEF IInv

\* w and f are a writer and its file with nothing lost that was stored.
Kept(w, f) ==
  /\ w \in Writer /\ f \in Seq(Item) /\ w.open = writer.open
  /\ Sound(w, f)
  /\ \A e \in Entry : Resolves(writer, file, e) => Resolves(w, f, e)

\* While the writer is open there is no table, and no reader.
LEMMA NoReaderWhileWriting ==
  ASSUME IInv, writer.open
  PROVE  table = 0 /\ ~reader.open /\ ~reader.hasCache
BY DEF IInv, ReaderTable, CacheCoherent, TypeOK, Reader

LEMMA AddFailsKeeps ==
  ASSUME IInv, writer.open, NEW data \in Seq(Byte),
         NEW w, NEW f, Kept(w, f),
         AddFails(data, w, f), UNCHANGED <<table, reader>>
  PROVE  IInv'
<1>1. /\ writer' = w /\ file' = f /\ issued' = issued
      /\ table' = 0 /\ reader' = reader
      /\ w.open /\ ~reader.open /\ ~reader.hasCache
  BY NoReaderWhileWriting DEF AddFails, Kept
<1>2. ret' \in Result
  BY InvalidAddressIsNat, LenProperties DEF AddFails, AddReturns, Result
<1>3. TypeOK'
  BY <1>1, <1>2 DEF TypeOK, IInv, Kept
<1>4. WriterSound'
  BY <1>1 DEF WriterSound, Kept
<1>5. AddressesResolve'
  <2>1. \A i \in 1 .. Len(issued) : issued[i] \in Entry
    BY ElementOfSeq DEF IInv, TypeOK, Entry
  <2>2. \A i \in 1 .. Len(issued) : Resolves(w, f, issued[i])
    BY <2>1 DEF IInv, AddressesResolve, Kept
  <2> QED BY <2>2, <1>1 DEF AddressesResolve
<1>6. BlocksDisjoint'
  BY <1>1 DEF IInv, BlocksDisjoint
<1>7. ReaderTable' /\ CacheCoherent'
  BY <1>1 DEF ReaderTable, CacheCoherent
<1> QED BY <1>3, <1>4, <1>5, <1>6, <1>7 DEF IInv

LEMMA AddAppendsKeeps ==
  ASSUME IInv, writer.open, NEW data \in Seq(Byte), data # <<>>,
         NEW w, NEW f, Kept(w, f),
         Len(w.buffer) < ChunkMax, Len(w.buffer) + Len(data) <= MaxU32,
         AddAppends(data, w, f), UNCHANGED <<table, reader>>
  PROVE  IInv'
<1> DEFINE addr == AddrMake(w.index, Len(w.buffer))
           v    == Appended(w, data)
           new  == [addr |-> addr, data |-> data]
           n    == Len(issued)
<1>1. /\ writer' = v /\ file' = f /\ issued' = Append(issued, new)
      /\ table' = 0 /\ reader' = reader
      /\ ~reader.open /\ ~reader.hasCache
      /\ ret' = [op |-> "add", addr |-> addr, size |-> Len(data), data |-> data]
  BY NoReaderWhileWriting DEF AddAppends, AddReturns
<1>2. /\ v \in Writer /\ Sound(v, f) /\ addr \in Address
      /\ Resolves(v, f, new)
      /\ \A e \in Entry : Resolves(w, f, e) => Resolves(v, f, e)
      /\ Free(w, f, addr)
  BY AppendKeeps DEF Kept
<1> HIDE DEF v, addr
<1>3. addr \in Nat /\ new \in Entry
  BY <1>2 DEF Address, Entry, Null
<1>4. new.addr = addr /\ new.data = data  OBVIOUS
<1> HIDE DEF new
<1>5. issued \in Seq(Entry) /\ n \in Nat
  BY LenProperties DEF IInv, TypeOK, Entry
<1>6. /\ Append(issued, new) \in Seq(Entry)
      /\ Len(Append(issued, new)) = n + 1
      /\ \A i \in 1 .. n : Append(issued, new)[i] = issued[i]
      /\ Append(issued, new)[n + 1] = new
  BY <1>3, <1>5, AppendProperties
<1>7. \A i \in 1 .. n : issued[i] \in Entry /\ Resolves(w, f, issued[i])
  BY <1>5, ElementOfSeq DEF IInv, AddressesResolve, Kept
<1>8. TypeOK'
  <2>1. ret' \in Result
    BY <1>1, <1>3, LenProperties DEF Result
  <2> QED BY <2>1, <1>1, <1>2, <1>6 DEF TypeOK, IInv, Kept, Entry
<1>9. WriterSound'
  BY <1>1, <1>2 DEF WriterSound
<1>10. AddressesResolve'
  <2>1. \A i \in 1 .. n + 1 : Resolves(v, f, Append(issued, new)[i])
    BY <1>2, <1>5, <1>6, <1>7
  <2> QED BY <2>1, <1>1, <1>6 DEF AddressesResolve
<1>11. BlocksDisjoint'
  <2> SUFFICES ASSUME NEW i \in 1 .. n + 1, NEW j \in 1 .. i - 1
               PROVE  LET a == Append(issued, new)[j].addr
                          b == Append(issued, new)[i].addr
                      IN  \/ AddrGetChunk(a) < AddrGetChunk(b)
                          \/ /\ AddrGetChunk(a) = AddrGetChunk(b)
                             /\ AddrGetOffset(a) + Len(Append(issued, new)[j].data)
                                  <= AddrGetOffset(b)
    BY <1>1, <1>6 DEF BlocksDisjoint
  <2>1. CASE i \in 1 .. n
    <3>1. j \in 1 .. n  BY <2>1, <1>5
    <3>2. /\ Append(issued, new)[i] = issued[i]
          /\ Append(issued, new)[j] = issued[j]
      BY <2>1, <3>1, <1>6
    <3> QED BY <2>1, <3>2 DEF IInv, BlocksDisjoint
  <2>2. CASE i = n + 1
    <3>1. j \in 1 .. n  BY <2>2, <1>5
    <3>2. Append(issued, new)[j] = issued[j] /\ Append(issued, new)[i].addr = addr
      BY <2>2, <3>1, <1>4, <1>6
    <3> QED BY <3>1, <3>2, <1>2, <1>7 DEF Free
  <2> QED BY <2>1, <2>2, <1>5
<1>12. ReaderTable' /\ CacheCoherent'
  BY <1>1 DEF ReaderTable, CacheCoherent
<1> QED BY <1>8, <1>9, <1>10, <1>11, <1>12 DEF IInv

LEMMA SaveResultsKept ==
  ASSUME IInv, NEW s \in SaveResults(writer, file)
  PROVE  Kept(s.w, s.file) /\ (s.ok => s.w.buffer = <<>>)
BY SaveKeeps DEF IInv, TypeOK, WriterSound, Kept

LEMMA AddStepKeeps == IInv /\ AddStep => IInv'
<1> SUFFICES ASSUME IInv, NEW data \in Blocks, AddBlock(data), UNCHANGED reader
             PROVE  IInv'
  BY DEF AddStep
<1>1. data \in Seq(Byte) /\ Len(data) \in Nat
  BY BlocksAssumption, LenProperties
<1>2. writer.open /\ UNCHANGED <<table, reader>>  BY DEF AddBlock
<1>3. Kept(writer, file)  BY DEF IInv, TypeOK, WriterSound, Kept
<1>4. Len(writer.buffer) \in Nat /\ writer.buffer \in Seq(Byte)
  BY LenProperties DEF IInv, TypeOK, Writer
<1>5. CASE AddFails(data, writer, file)
  BY <1>1, <1>2, <1>3, <1>5, AddFailsKeeps
<1>6. ASSUME NEW s \in FlushResults
      PROVE  /\ Kept(s.w, s.file)
             /\ s.ok => /\ Len(s.w.buffer) < ChunkMax
                        /\ Len(s.w.buffer) <= Len(writer.buffer)
  <2>1. CASE FlushDue
    <3>1. Kept(s.w, s.file) /\ (s.ok => s.w.buffer = <<>>)
      BY <2>1, SaveResultsKept DEF FlushResults
    <3>2. Len(<<>>) = 0  BY EmptySeq
    <3> QED BY <3>1, <3>2, <1>4, ChunkAssumption
  <2>2. CASE ~FlushDue
    <3>1. s.w = writer /\ s.file = file  BY <2>2 DEF FlushResults
    <3> QED BY <3>1, <2>2, <1>3, <1>4, ChunkAssumption DEF FlushDue
  <2> QED BY <2>1, <2>2
<1>7. ASSUME NEW s \in FlushResults, AddFails(data, s.w, s.file)
      PROVE  IInv'
  BY <1>1, <1>2, <1>6, <1>7, AddFailsKeeps
<1>8. ASSUME data # <<>>, ~TooLarge(data),
             NEW s \in FlushResults, s.ok, AddAppends(data, s.w, s.file)
      PROVE  IInv'
  <2>1. Kept(s.w, s.file) /\ Len(s.w.buffer) < ChunkMax
    BY <1>6, <1>8
  <2>2. Len(s.w.buffer) \in Nat
    BY <2>1, LenProperties DEF Kept, Writer
  <2>3. Len(s.w.buffer) + Len(data) <= MaxU32
    BY <2>2, <1>1, <1>4, <1>6, <1>8, ChunkAssumption DEF TooLarge
  <2> QED BY <2>1, <2>3, <1>1, <1>2, <1>8, AddAppendsKeeps
<1> QED BY <1>5, <1>7, <1>8 DEF AddBlock

-----------------------------------------------------------------------------
(* udx_chunk_writer_finish                                                  *)

Closed(w) == [w EXCEPT !.open = FALSE]

LEMMA ClosedSound ==
  ASSUME NEW w \in Writer, NEW f, Sound(w, f)
  PROVE  /\ Closed(w) \in Writer /\ ~Closed(w).open
         /\ Closed(w).offsets = w.offsets /\ Closed(w).buffer = w.buffer
         /\ Sound(Closed(w), f)
         /\ \A e : Resolves(w, f, e) => Resolves(Closed(w), f, e)
<1>1. /\ Closed(w) \in Writer /\ ~Closed(w).open
      /\ Closed(w).buffer = w.buffer /\ Closed(w).capacity = w.capacity
      /\ Closed(w).offsets = w.offsets /\ Closed(w).tableCap = w.tableCap
      /\ Closed(w).index = w.index
  BY DEF Closed, Writer
<1>2. Sound(Closed(w), f)  BY <1>1 DEF Sound
<1>3. \A e : Resolves(w, f, e) => Resolves(Closed(w), f, e)
  BY <1>1 DEF Resolves, BytesOf
<1> QED BY <1>1, <1>2, <1>3

LEMMA FinishStepKeeps == IInv /\ FinishStep => IInv'
<1> SUFFICES ASSUME IInv, Finish, UNCHANGED reader PROVE IInv'
  BY DEF FinishStep
<1>1. writer.open /\ issued' = issued /\ reader' = reader
      /\ ~reader.open /\ ~reader.hasCache
  BY NoReaderWhileWriting DEF Finish
<1>2. PICK s \in SaveResults(writer, file) :
        /\ writer' = Closed(s.w)
        /\ \/ FinishReturns(0) /\ file' = s.file
           \/ s.ok /\ FinishReturns(0) /\ file' = Append(s.file, Torn)
           \/ /\ s.ok
              /\ FinishReturns(Len(s.file) + 1)
              /\ file' = Append(s.file, TableItem(s.w.offsets))
  BY DEF Finish, LastSaved, Closed
<1>3. Kept(s.w, s.file) /\ (s.ok => s.w.buffer = <<>>)
  BY SaveResultsKept
<1>4. Torn \in Item /\ TableItem(s.w.offsets) \in Item
  BY <1>3, ItemTypes DEF Kept, Writer
<1>5. /\ Sound(s.w, file') /\ file' \in Seq(Item)
      /\ \A e \in Entry : Resolves(s.w, s.file, e) => Resolves(s.w, file', e)
  BY <1>2, <1>3, <1>4, FileGrows, AppendProperties DEF Kept
<1>6. /\ writer' \in Writer /\ ~writer'.open /\ Sound(writer', file')
      /\ writer'.offsets = s.w.offsets /\ writer'.buffer = s.w.buffer
      /\ \A e \in Entry : Resolves(s.w, file', e) => Resolves(writer', file', e)
  BY <1>2, <1>3, <1>5, ClosedSound DEF Kept
<1>7. \/ table' = 0
      \/ /\ table' \in 1 .. Len(file')
         /\ file'[table'] = TableItem(writer'.offsets)
         /\ writer'.buffer = <<>>
  <2>1. CASE s.ok /\ FinishReturns(Len(s.file) + 1)
             /\ file' = Append(s.file, TableItem(s.w.offsets))
    <3>1. /\ Len(s.file) \in Nat /\ Len(file') = Len(s.file) + 1
          /\ file'[Len(s.file) + 1] = TableItem(s.w.offsets)
      BY <2>1, <1>3, <1>4, AppendProperties, LenProperties DEF Kept
    <3> QED BY <2>1, <3>1, <1>3, <1>6 DEF FinishReturns
  <2> QED BY <2>1, <1>2 DEF FinishReturns
<1>8. table' \in Nat /\ ret' \in Result
  <2>1. Len(s.file) \in Nat  BY <1>3, LenProperties DEF Kept
  <2>2. Null \in Seq(Byte)  BY EmptySeq DEF Null
  <2> QED BY <2>1, <2>2, <1>2 DEF FinishReturns, Result
<1>9. TypeOK'
  BY <1>1, <1>5, <1>6, <1>8 DEF TypeOK, IInv
<1>10. WriterSound'
  BY <1>6 DEF WriterSound
<1>11. AddressesResolve'
  <2>1. \A i \in 1 .. Len(issued) : issued[i] \in Entry
    BY ElementOfSeq DEF IInv, TypeOK, Entry
  <2>2. \A i \in 1 .. Len(issued) : Resolves(writer', file', issued[i])
    BY <2>1, <1>3, <1>5, <1>6 DEF IInv, AddressesResolve, Kept
  <2> QED BY <2>2, <1>1 DEF AddressesResolve
<1>12. BlocksDisjoint'
  BY <1>1 DEF IInv, BlocksDisjoint
<1>13. ReaderTable' /\ CacheCoherent'
  BY <1>1, <1>6, <1>7 DEF ReaderTable, CacheCoherent
<1> QED BY <1>9, <1>10, <1>11, <1>12, <1>13 DEF IInv

-----------------------------------------------------------------------------
(* The reader.                                                              *)

\* The reader's steps leave what was written alone.
LEMMA WrittenKept ==
  ASSUME IInv, UNCHANGED <<file, table, writer, issued>>,
         reader' \in Reader, ret' \in Result
  PROVE  TypeOK' /\ WriterSound' /\ AddressesResolve' /\ BlocksDisjoint'
BY DEF IInv, TypeOK, WriterSound, AddressesResolve, BlocksDisjoint

LEMMA NoReaderType == NoReader \in Reader
BY EmptySeq DEF NoReader, Reader, Null

LEMMA CreateStepKeeps == IInv /\ CreateStep => IInv'
<1> SUFFICES ASSUME IInv, ReaderCreate, UNCHANGED <<writer, issued>>
             PROVE  IInv'
  BY DEF CreateStep
<1>1. /\ table # 0 /\ ~reader.open
      /\ UNCHANGED <<file, table, writer, issued>>
  BY DEF ReaderCreate
<1>2. ret' \in Result
  BY EmptySeq DEF ReaderCreate, Result, Null, IInv, TypeOK
<1>3. file[table].offsets = writer.offsets /\ writer.offsets \in Seq(Nat)
  BY <1>1 DEF IInv, ReaderTable, TableItem, TypeOK, Writer
<1>4. CASE UNCHANGED reader
  <2>1. reader' \in Reader  BY <1>4 DEF IInv, TypeOK
  <2>2. ReaderTable' /\ CacheCoherent'
    BY <1>1, <1>4 DEF IInv, ReaderTable, CacheCoherent, BytesOf
  <2> QED BY <2>1, <2>2, <1>1, <1>2, WrittenKept DEF IInv
<1>5. CASE reader' = [NoReader EXCEPT !.open = TRUE,
                                      !.offsets = file[table].offsets]
  <2>1. /\ reader' \in Reader /\ reader'.open /\ ~reader'.hasCache
        /\ reader'.offsets = writer.offsets
    BY <1>3, <1>5, EmptySeq DEF NoReader, Reader, Null
  <2>2. ReaderTable' /\ CacheCoherent'
    BY <1>1, <2>1 DEF IInv, ReaderTable, CacheCoherent
  <2> QED BY <2>1, <2>2, <1>1, <1>2, WrittenKept DEF IInv
<1> QED BY <1>4, <1>5 DEF ReaderCreate

LEMMA DestroyStepKeeps == IInv /\ DestroyStep => IInv'
<1> SUFFICES ASSUME IInv, ReaderDestroy, UNCHANGED <<writer, issued>>
             PROVE  IInv'
  BY DEF DestroyStep
<1>1. UNCHANGED <<file, table, writer, issued>> /\ reader' = NoReader /\ ret' = ret
  BY DEF ReaderDestroy
<1>2. ret' \in Result  BY <1>1 DEF IInv, TypeOK
<1>3. ReaderTable' /\ CacheCoherent'
  BY <1>1 DEF IInv, ReaderTable, CacheCoherent, NoReader
<1> QED BY <1>1, <1>2, <1>3, WrittenKept, NoReaderType DEF IInv

\* Loading a chunk ends with the cache given up or valid for some chunk, and
\* with success only if it is valid for the chunk that was asked for.
LEMMA LoadKeeps ==
  ASSUME IInv, reader.open, NEW c \in Nat, NEW l \in LoadResults(reader, c)
  PROVE  /\ l.r \in Reader /\ l.r.open /\ l.r.offsets = writer.offsets
         /\ l.r.hasCache => /\ l.r.cachedIndex < Len(writer.offsets)
                            /\ l.r.cachedData = BytesOf(writer, file, l.r.cachedIndex)
         /\ l.ok => l.r.hasCache /\ l.r.cachedIndex = c
<1>1. /\ reader \in Reader /\ reader.offsets = writer.offsets
      /\ reader.hasCache =>
           /\ reader.cachedIndex < Len(writer.offsets)
           /\ reader.cachedData = BytesOf(writer, file, reader.cachedIndex)
  BY DEF IInv, TypeOK, ReaderTable, CacheCoherent
<1>2. CASE l.r = reader /\ (l.ok => CacheServes(reader, c))
  BY <1>1, <1>2 DEF CacheServes
<1>3. CASE ~l.ok /\ l.r = DropCache(reader)
  BY <1>1, <1>3 DEF DropCache, Reader
<1>4. CASE ~l.ok /\ l.r = [DropCache(reader) EXCEPT !.cachedData = Null]
  BY <1>1, <1>4, EmptySeq DEF DropCache, Reader, Null
<1>5. CASE /\ c < Len(writer.offsets)
           /\ l.r = [reader EXCEPT !.hasCache = TRUE, !.cachedIndex = c,
                       !.cachedData = file[writer.offsets[c + 1]].bytes]
  <2>1. Len(writer.offsets) \in Nat
    BY LenProperties DEF IInv, TypeOK, Writer
  <2>2. c + 1 \in 1 .. Len(writer.offsets)  BY <2>1, <1>5
  <2>3. writer.offsets[c + 1] \in 1 .. Len(file)
    BY <2>2 DEF IInv, WriterSound, Sound
  <2>4. file[writer.offsets[c + 1]] \in Item
    BY <2>3, ElementOfSeq DEF IInv, TypeOK
  <2>5. file[writer.offsets[c + 1]].bytes \in Seq(Byte)  BY <2>4 DEF Item
  <2>6. /\ l.r \in Reader /\ l.r.open /\ l.r.offsets = writer.offsets
        /\ l.r.hasCache /\ l.r.cachedIndex = c
        /\ l.r.cachedData = file[writer.offsets[c + 1]].bytes
    BY <2>5, <1>1, <1>5 DEF Reader
  <2>7. BytesOf(writer, file, c) = file[writer.offsets[c + 1]].bytes
    BY <1>5 DEF BytesOf
  <2> QED BY <2>6, <2>7, <1>5
<1>6. \/ l.r = reader /\ (l.ok => CacheServes(reader, c))
      \/ ~l.ok /\ l.r = DropCache(reader)
      \/ ~l.ok /\ l.r = [DropCache(reader) EXCEPT !.cachedData = Null]
      \/ /\ ~(c >= Len(writer.offsets))
         /\ l.r = [reader EXCEPT !.hasCache = TRUE, !.cachedIndex = c,
                     !.cachedData = file[writer.offsets[c + 1]].bytes]
  BY <1>1 DEF LoadResults
<1>7. Len(writer.offsets) \in Nat
  BY LenProperties DEF IInv, TypeOK, Writer
<1> QED BY <1>2, <1>3, <1>4, <1>5, <1>6, <1>7

\* The slice a get returns is that of the chunk the address names.
LEMMA GetStepKeeps == IInv /\ GetStep => IInv'
<1> SUFFICES ASSUME IInv,
                    NEW addr \in Address \cup {InvalidAddress},
                    NEW size \in 0 .. MaxRead,
                    GetBlock(addr, size), UNCHANGED <<writer, issued>>
             PROVE  IInv'
  BY DEF GetStep
<1> DEFINE c   == AddrGetChunk(addr)
           off == AddrGetOffset(addr)
<1>1. reader.open /\ UNCHANGED <<file, table, writer, issued>>  BY DEF GetBlock
<1>2. addr \in Nat /\ size \in Nat
  BY InvalidAddressIsNat, ReadAssumption DEF Address
<1>3. c \in Nat /\ off \in Nat
  BY <1>2, ChunkAssumption DEF AddrGetChunk, AddrGetOffset
<1> HIDE DEF c, off
<1>4. Null \in Seq(Byte)  BY EmptySeq DEF Null
<1>5. CASE GetReturns(addr, size, Null) /\ UNCHANGED reader
  <2>1. ret' \in Result  BY <1>2, <1>4, <1>5 DEF GetReturns, Result
  <2>2. reader' \in Reader  BY <1>5 DEF IInv, TypeOK
  <2>3. ReaderTable' /\ CacheCoherent'
    BY <1>1, <1>5 DEF IInv, ReaderTable, CacheCoherent, BytesOf
  <2> QED BY <2>1, <2>2, <2>3, <1>1, WrittenKept DEF IInv
<1>6. ASSUME NEW l \in LoadResults(reader, c), reader' = l.r,
             \/ GetReturns(addr, size, Null)
             \/ /\ l.ok /\ off + size <= Len(l.r.cachedData)
                /\ GetReturns(addr, size, Slice(l.r.cachedData, off, size))
      PROVE  IInv'
  <2>1. /\ l.r \in Reader /\ l.r.open /\ l.r.offsets = writer.offsets
        /\ l.r.hasCache => /\ l.r.cachedIndex < Len(writer.offsets)
                           /\ l.r.cachedData = BytesOf(writer, file, l.r.cachedIndex)
    BY <1>1, <1>3, LoadKeeps
  <2>2. ret' \in Result
    <3>1. CASE off + size <= Len(l.r.cachedData)
      <4>1. Slice(l.r.cachedData, off, size) \in Seq(Byte)
        BY <2>1, <3>1, <1>2, <1>3, SliceLen DEF Reader
      <4> QED BY <4>1, <1>2, <1>4, <1>6 DEF GetReturns, Result
    <3>2. CASE ~(off + size <= Len(l.r.cachedData))
      BY <3>2, <1>2, <1>4, <1>6 DEF GetReturns, Result
    <3> QED BY <3>1, <3>2
  <2>3. ReaderTable' /\ CacheCoherent'
    BY <1>1, <1>6, <2>1 DEF IInv, ReaderTable, CacheCoherent, BytesOf
  <2> QED BY <2>1, <2>2, <2>3, <1>1, <1>6, WrittenKept DEF IInv
<1> QED BY <1>5, <1>6 DEF GetBlock, c, off

LEMMA NextKeeps == IInv /\ [Next]_vars => IInv'
<1>1. IInv /\ Next => IInv'
  BY AddStepKeeps, FinishStepKeeps, CreateStepKeeps, DestroyStepKeeps,
     GetStepKeeps DEF Next
<1>2. IInv /\ UNCHANGED vars => IInv'
  BY DEF vars, IInv, TypeOK, WriterSound, AddressesResolve, BlocksDisjoint,
         ReaderTable, CacheCoherent
<1> QED BY <1>1, <1>2

LEMMA Invariance == Spec => []IInv
BY InitEstablishes, NextKeeps, PTL DEF Spec

-----------------------------------------------------------------------------
(* The theorems.                                                            *)

\* Every variable of chunk storage keeps its type (udx_chunk.c).
THEOREM TypeCorrect == Spec => []TypeOK
<1>1. IInv => TypeOK  BY DEF IInv
<1> QED BY <1>1, Invariance, PTL

\* No sequence of failed and repeated adds gets the running chunk index, the
\* table of positions and the chunks in the file out of step
\* (chunk_writer_save_current), and the test of the index limit never fails.
THEOREM WriterIsSound == Spec => []WriterSound
<1>1. IInv => WriterSound  BY DEF IInv
<1> QED BY <1>1, Invariance, PTL

\* Every address udx_chunk_writer_add_block handed out leads to the bytes of
\* its block, before and after its chunk is saved.
THEOREM AddressesAlwaysResolve == Spec => []AddressesResolve
<1>1. IInv => AddressesResolve  BY DEF IInv
<1> QED BY <1>1, Invariance, PTL

\* No two blocks overlap.
THEOREM BlocksNeverOverlap == Spec => []BlocksDisjoint
<1>1. IInv => BlocksDisjoint  BY DEF IInv
<1> QED BY <1>1, Invariance, PTL

\* A chunk table in the file is that of a closed writer with an empty buffer,
\* and readers work from it.
THEOREM ReadersUseFinalTable == Spec => []ReaderTable
<1>1. IInv => ReaderTable  BY DEF IInv
<1> QED BY <1>1, Invariance, PTL

\* A valid cache of the reader holds the chunk it says it holds, whatever
\* failed while chunks were loaded (chunk_reader_load_chunk).
THEOREM CacheIsCoherent == Spec => []CacheCoherent
<1>1. IInv => CacheCoherent  BY DEF IInv
<1> QED BY <1>1, Invariance, PTL

-----------------------------------------------------------------------------
(* Refinement.                                                              *)

StoredSet == {issued[i] : i \in 1 .. Len(issued)}

LEMMA StoredTypes ==
  ASSUME IInv
  PROVE  /\ \A e \in StoredSet : e \in Entry /\ Resolves(writer, file, e)
         /\ issued \in Seq(Entry) /\ Len(issued) \in Nat
<1>1. issued \in Seq(Entry)  BY DEF IInv, TypeOK, Entry
<1>2. \A i \in 1 .. Len(issued) : issued[i] \in Entry
  BY <1>1, ElementOfSeq
<1> QED BY <1>1, <1>2, LenProperties DEF StoredSet, IInv, AddressesResolve

LEMMA AddRefines == IInv /\ AddStep => Store!Add
<1> SUFFICES ASSUME IInv, NEW data \in Blocks, AddBlock(data), UNCHANGED reader
             PROVE  Store!Add
  BY DEF AddStep
<1> USE DEF StoredSet
<1>1. data \in Seq(Byte) /\ Len(data) \in Nat
  BY BlocksAssumption, LenProperties
<1>2. table = 0 /\ table' = 0
  BY NoReaderWhileWriting DEF AddBlock
<1>3. ASSUME NEW w, NEW f, AddFails(data, w, f)
      PROVE  Store!Add
  BY <1>2, <1>3 DEF Store!Add, AddFails, AddReturns
<1>4. ASSUME data # <<>>, ~TooLarge(data),
             NEW s \in FlushResults, s.ok, AddAppends(data, s.w, s.file)
      PROVE  Store!Add
  <2> DEFINE addr == AddrMake(s.w.index, Len(s.w.buffer))
             new  == [addr |-> addr, data |-> data]
  <2>1. /\ Kept(s.w, s.file) /\ Len(s.w.buffer) < ChunkMax
        /\ Len(s.w.buffer) <= Len(writer.buffer)
    <3>1. Kept(writer, file)  BY DEF IInv, TypeOK, WriterSound, Kept
    <3>2. Len(writer.buffer) \in Nat
      BY LenProperties DEF IInv, TypeOK, Writer
    <3>3. CASE FlushDue
      <4>1. Kept(s.w, s.file) /\ s.w.buffer = <<>>
        BY <3>3, <1>4, SaveResultsKept DEF FlushResults
      <4>2. Len(<<>>) = 0  BY EmptySeq
      <4> QED BY <4>1, <4>2, <3>2, ChunkAssumption
    <3>4. CASE ~FlushDue
      <4>1. s.w = writer /\ s.file = file  BY <3>4 DEF FlushResults
      <4> QED BY <4>1, <3>1, <3>2, <3>4, ChunkAssumption DEF FlushDue
    <3> QED BY <3>3, <3>4
  <2>2. Len(s.w.buffer) + Len(data) <= MaxU32
    <3>1. Len(s.w.buffer) \in Nat /\ Len(writer.buffer) \in Nat
      BY <2>1, LenProperties DEF Kept, Writer, IInv, TypeOK
    <3> QED BY <3>1, <2>1, <1>1, <1>4, ChunkAssumption DEF TooLarge
  <2>3. addr \in Address /\ addr # InvalidAddress /\ Free(s.w, s.file, addr)
    BY <2>1, <2>2, <1>1, <1>4, AppendKeeps DEF Kept
  <2> HIDE DEF addr
  <2>4. addr \notin {e.addr : e \in StoredSet}
    <3> SUFFICES ASSUME NEW e \in StoredSet, e.addr = addr PROVE FALSE
      OBVIOUS
    <3>1. e \in Entry /\ Resolves(s.w, s.file, e)
      BY StoredTypes, <2>1 DEF Kept
    <3>2. Len(e.data) \in Nat /\ Len(e.data) # 0
      BY <3>1, EmptySeq, LenProperties DEF Entry, Null
    <3>3. AddrGetChunk(addr) \in Nat /\ AddrGetOffset(addr) \in Nat
      BY <2>3, ChunkAssumption DEF AddrGetChunk, AddrGetOffset, Address
    <3> QED BY <3>1, <3>2, <3>3, <2>3 DEF Free
  <2>5. /\ ret' = [op |-> "add", addr |-> addr, size |-> Len(data), data |-> data]
        /\ issued' = Append(issued, new)
    BY <1>4 DEF AddAppends, AddReturns, addr
  <2>6. new \in Entry
    BY <2>3, <1>1, <1>4 DEF Entry, Address, Null
  <2> HIDE DEF new
  <2>7. StoredSet' = StoredSet \cup {new}
    <3>1. issued \in Seq(Entry) /\ Len(issued) \in Nat  BY StoredTypes
    <3>2. /\ Len(issued') = Len(issued) + 1
          /\ \A i \in 1 .. Len(issued) : issued'[i] = issued[i]
          /\ issued'[Len(issued) + 1] = new
      BY <3>1, <2>5, <2>6, AppendProperties
    <3>3. 1 .. Len(issued') = (1 .. Len(issued)) \cup {Len(issued) + 1}
      BY <3>1, <3>2
    <3> QED BY <3>2, <3>3
  <2>8. /\ ret'.op = "add" /\ ret'.addr = addr /\ ret'.data = data
    BY <2>5
  <2>9. StoredSet' = StoredSet \cup {[addr |-> ret'.addr, data |-> ret'.data]}
    BY <2>7, <2>8 DEF new
  <2> QED BY <2>3, <2>4, <2>8, <2>9, <1>2, <1>4 DEF Store!Add
<1> QED BY <1>3, <1>4 DEF AddBlock

LEMMA FinishRefines == IInv /\ FinishStep => Store!Seal
<1> SUFFICES ASSUME IInv, Finish PROVE Store!Seal
  BY DEF FinishStep
<1>1. table = 0 /\ issued' = issued
  BY NoReaderWhileWriting DEF Finish
<1>2. ret'.op = "finish" /\ ret'.addr = table'
  BY DEF Finish, FinishReturns
<1> QED BY <1>1, <1>2 DEF Store!Seal

LEMMA GetRefines == IInv /\ GetStep => Store!Get
<1> SUFFICES ASSUME IInv,
                    NEW addr \in Address \cup {InvalidAddress},
                    NEW size \in 0 .. MaxRead,
                    GetBlock(addr, size), UNCHANGED <<writer, issued>>
             PROVE  Store!Get
  BY DEF GetStep
<1> USE DEF StoredSet
<1> DEFINE c   == AddrGetChunk(addr)
           off == AddrGetOffset(addr)
<1>1. /\ table # 0 /\ table' = table /\ issued' = issued /\ reader.open
  BY DEF GetBlock, IInv, ReaderTable
<1>2. addr \in Nat /\ size \in Nat
  BY InvalidAddressIsNat, ReadAssumption DEF Address
<1>3. c \in Nat /\ off \in Nat
  BY <1>2, ChunkAssumption DEF AddrGetChunk, AddrGetOffset
<1> HIDE DEF c, off
<1>4. CASE GetReturns(addr, size, Null)
  BY <1>1, <1>4 DEF Store!Get, GetReturns, Null
<1>5. ASSUME NEW l \in LoadResults(reader, c), l.ok,
             off + size <= Len(l.r.cachedData),
             GetReturns(addr, size, Slice(l.r.cachedData, off, size)), size # 0
      PROVE  Store!Get
  <2> DEFINE data == Slice(l.r.cachedData, off, size)
  <2>1. /\ l.r.cachedData = BytesOf(writer, file, c) /\ l.r \in Reader
    BY <1>1, <1>3, <1>5, LoadKeeps
  <2>2. Len(data) = size
    BY <2>1, <1>2, <1>3, <1>5, SliceLen DEF Reader
  <2>3. \A e \in StoredSet : e.addr = addr /\ Len(e.data) = size => data = e.data
    <3> SUFFICES ASSUME NEW e \in StoredSet, e.addr = addr, Len(e.data) = size
                 PROVE  data = e.data
      OBVIOUS
    <3>1. Resolves(writer, file, e)  BY StoredTypes
    <3> QED BY <3>1, <2>1 DEF Resolves, c, off
  <2> HIDE DEF data
  <2>4. ret' = [op |-> "get", addr |-> addr, size |-> size, data |-> data]
    BY <1>5 DEF GetReturns, data
  <2> QED BY <1>1, <2>2, <2>3, <2>4 DEF Store!Get
<1> QED BY <1>4, <1>5 DEF GetBlock, c, off

\* Chunk storage implements BlockStore: addresses are unique, and a get of a
\* stored block's address and size returns its bytes or NULL.
THEOREM ImplementsBlockStore == Spec => Implements
<1>1. Init => Store!Init
  <2>1. Len(<<>>) = 0  BY EmptySeq
  <2> QED BY <2>1 DEF Init, WriterInit, Store!Init
<1>2. IInv /\ [Next]_vars
        => [Store!Next]_<<{issued[i] : i \in 1 .. Len(issued)}, table # 0, ret>>
  <2> SUFFICES ASSUME IInv, [Next]_vars
               PROVE  [Store!Next]_<<{issued[i] : i \in 1 .. Len(issued)}, table # 0, ret>>
    OBVIOUS
  <2>1. CASE AddStep  BY <2>1, AddRefines DEF Store!Next
  <2>2. CASE FinishStep  BY <2>2, FinishRefines DEF Store!Next
  <2>3. CASE CreateStep
    <3>1. table # 0 /\ table' = table /\ issued' = issued /\ ret'.op = "open"
      BY <2>3 DEF CreateStep, ReaderCreate
    <3> QED BY <3>1 DEF Store!OpenStore, Store!Next
  <2>4. CASE DestroyStep
    BY <2>4 DEF DestroyStep, ReaderDestroy
  <2>5. CASE GetStep  BY <2>5, GetRefines DEF Store!Next
  <2>6. CASE UNCHANGED vars  BY <2>6 DEF vars
  <2> QED BY <2>1, <2>2, <2>3, <2>4, <2>5, <2>6 DEF Next
<1> QED BY <1>1, <1>2, Invariance, PTL DEF Spec, Implements, Store!Spec
==============================================================================
