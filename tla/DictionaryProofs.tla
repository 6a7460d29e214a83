-------------------------- MODULE DictionaryProofs ---------------------------
(***************************************************************************)
(* Proofs that what readers see of a file is the dictionary that was        *)
(* written, for any names and bounds: the file on the disk is accepted only  *)
(* when its table is complete, wherever a close or a crash cut the writes.   *)
(***************************************************************************)
EXTENDS UdxStoreProofs, WellFoundedInduction

LEMMA Largest ==
  ASSUME NEW n \in Nat, NEW T, T \subseteq 1 .. n, T # {}
  PROVE  \E m \in T : \A k \in T : k <= m
<1> DEFINE D == {n - k : k \in T}
           R == OpToRel(<, Nat)
<1>1. D \subseteq Nat  OBVIOUS
<1>2. D # {}
  <2>1. PICK k \in T : TRUE  OBVIOUS
  <2>2. n - k \in D  BY <2>1
  <2> HIDE DEF D
  <2> QED BY <2>2
<1>3. IsWellFoundedOn(R, Nat)  BY NatLessThanWellFounded, Zenon
<1>4. \A i, j \in Nat : i < j => <<i, j>> \in R
  BY DEF OpToRel
<1> HIDE DEF D, R
<1>5. PICK x \in D : \A y \in D : ~ (<<y, x>> \in R)
  BY <1>1, <1>2, <1>3, WFMin, Zenon
<1>6. PICK m \in T : x = n - m  BY DEF D
<1>7. ASSUME NEW k \in T PROVE k <= m
  <2>1. n - k \in D  BY DEF D
  <2>2. n - k \in Nat /\ x \in Nat  BY <1>1, <2>1
  <2>3. ~(n - k < x)  BY <1>4, <1>5, <2>1, <2>2
  <2>4. k \in Int /\ m \in Int  OBVIOUS
  <2> QED BY <1>6, <2>2, <2>3, <2>4
<1> QED BY <1>7

-----------------------------------------------------------------------------
(* What any writes do to a file.                                            *)

LEMMA LastWrite ==
  ASSUME NEW ws, Len(ws) \in Nat, NEW p, WritesTo(ws, p) # {}
  PROVE  /\ LastTo(ws, p) \in WritesTo(ws, p)
         /\ \A j \in WritesTo(ws, p) : j <= LastTo(ws, p)
<1> DEFINE T == WritesTo(ws, p)
<1>1. T \subseteq 1 .. Len(ws) /\ T # {}  BY DEF WritesTo
<1> HIDE DEF T
<1>2. \E m \in T : \A k \in T : k <= m  BY <1>1, Largest
<1>3. \E m \in WritesTo(ws, p) : \A k \in WritesTo(ws, p) : k <= m
  BY <1>2 DEF T
<1> QED BY <1>3 DEF LastTo

\* The first n writes go behind one another to the position, the others to
\* cells from low on that are there.
Orderly(ws, n, low) ==
  /\ ws \in Seq(OneWrite) /\ n \in 0 .. Len(ws)
  /\ \A i \in 1 .. n : ws[i].at = pos + i - 1
  /\ \A i \in n + 1 .. Len(ws) : ws[i].at \in low .. Len(file)

LEMMA FirstOfOrderly ==
  ASSUME NEW ws, NEW n, NEW low, Orderly(ws, n, low),
         NEW k \in 0 .. Len(ws), NEW first, first = FirstOf(ws, k)
  PROVE  /\ Orderly(first, IF k < n THEN k ELSE n, low)
         /\ Len(first) = k /\ \A i \in 1 .. k : first[i] = ws[i]
<1>1. ws \in Seq(OneWrite) /\ Len(ws) \in Nat /\ n \in 0 .. Len(ws)
  BY LenProperties DEF Orderly
<1>2. \A i \in 1 .. k : ws[i] \in OneWrite
  <2>1. \A i \in 1 .. k : i \in 1 .. Len(ws)  BY <1>1
  <2> QED BY <1>1, <2>1, ElementOfSeq
<1>3. /\ SubSeq(ws, 1, k) \in Seq(OneWrite)
      /\ Len(SubSeq(ws, 1, k)) = IF 1 <= k THEN k - 1 + 1 ELSE 0
      /\ \A i \in 1 .. k - 1 + 1 : SubSeq(ws, 1, k)[i] = ws[1 + i - 1]
  BY <1>1, <1>2, SubSeqProperties
<1>4. first = SubSeq(ws, 1, k)  BY DEF FirstOf
<1>5. first \in Seq(OneWrite) /\ Len(first) = k /\ \A i \in 1 .. k : first[i] = ws[i]
  BY <1>1, <1>3, <1>4
<1> DEFINE l == IF k < n THEN k ELSE n
<1>6. l \in 0 .. k /\ l \in 0 .. n /\ k \in 0 .. Len(ws)
      /\ \A i \in l + 1 .. k : i \in n + 1 .. Len(ws)
  BY <1>1
<1> HIDE DEF l
<1>7. \A i \in 1 .. l : first[i].at = pos + i - 1
  <2> SUFFICES ASSUME NEW i \in 1 .. l PROVE first[i].at = pos + i - 1  OBVIOUS
  <2>1. i \in 1 .. n /\ i \in 1 .. k  BY <1>1, <1>6
  <2>2. ws[i].at = pos + i - 1  BY <2>1 DEF Orderly
  <2> QED BY <2>1, <2>2, <1>5
<1>8. \A i \in l + 1 .. k : first[i].at \in low .. Len(file)
  <2> SUFFICES ASSUME NEW i \in l + 1 .. k PROVE first[i].at \in low .. Len(file)
    OBVIOUS
  <2>1. i \in n + 1 .. Len(ws) /\ i \in 1 .. k  BY <1>1, <1>6
  <2>2. ws[i].at \in low .. Len(file)  BY <2>1 DEF Orderly
  <2> QED BY <2>1, <2>2, <1>5
<1>9. Orderly(first, l, low)
  BY <1>5, <1>6, <1>7, <1>8 DEF Orderly
<1> QED BY <1>5, <1>9 DEF l

\* A file keeps what is not written to and has what was written last.
Overwritten(ws, image) ==
  /\ image \in Seq(Cell) /\ Len(file) <= Len(image) /\ Len(image) \in Nat
  /\ \A i \in 1 .. Len(ws) : ws[i].at \in 1 .. Len(image)
  /\ \A p \in 1 .. Len(file) :
       (\A i \in 1 .. Len(ws) : ws[i].at # p) => image[p] = file[p]
  /\ \A i \in 1 .. Len(ws) :
       (\A j \in i + 1 .. Len(ws) : ws[j].at # ws[i].at)
         => image[ws[i].at] = ws[i].cell

LEMMA AfterOrderly ==
  ASSUME file \in Seq(Cell), pos \in 1 .. Len(file) + 1,
         NEW ws, NEW n, NEW low \in Nat \ {0}, Orderly(ws, n, low),
         NEW image, image = After(ws)
  PROVE  Overwritten(ws, image)
<1> DEFINE m == IF pos + n - 1 > Len(file) THEN pos + n - 1 ELSE Len(file)
           e(p) == IF WritesTo(ws, p) = {} THEN file[p] ELSE ws[LastTo(ws, p)].cell
<1>1. Len(file) \in Nat /\ \A p \in 1 .. Len(file) : file[p] \in Cell
  BY LenProperties, ElementOfSeq
<1>2. /\ Len(ws) \in Nat /\ n \in Nat /\ n <= Len(ws)
      /\ \A i \in 1 .. Len(ws) : ws[i].cell \in Cell
      /\ \A i \in 1 .. n : ws[i].at = pos + i - 1
      /\ \A i \in n + 1 .. Len(ws) : ws[i].at \in low .. Len(file)
  <2>1. ws \in Seq(OneWrite) /\ n \in 0 .. Len(ws)  BY DEF Orderly
  <2>2. Len(ws) \in Nat /\ \A i \in 1 .. Len(ws) : ws[i] \in OneWrite
    BY <2>1, LenProperties, ElementOfSeq
  <2> QED BY <2>1, <2>2 DEF Orderly, OneWrite
<1>3. m \in Nat /\ Len(file) <= m /\ pos + n - 1 <= m  BY <1>1, <1>2
<1>4. \A i \in 1 .. Len(ws) : ws[i].at \in 1 .. m
  <2> SUFFICES ASSUME NEW i \in 1 .. Len(ws) PROVE ws[i].at \in 1 .. m  OBVIOUS
  <2>1. CASE i \in 1 .. n
    <3>1. ws[i].at = pos + i - 1  BY <1>2, <2>1
    <3> QED BY <3>1, <2>1, <1>1, <1>2, <1>3
  <2>2. CASE i \in n + 1 .. Len(ws)
    <3>1. ws[i].at \in low .. Len(file)  BY <1>2, <2>2
    <3> QED BY <3>1, <1>1, <1>3
  <2> QED BY <2>1, <2>2, <1>2
<1>5. Positions(ws) = 1 .. m
  <2>1. ASSUME NEW p \in Positions(ws) PROVE p \in 1 .. m
    BY <1>1, <1>3, <1>4, <2>1 DEF Positions
  <2>2. ASSUME NEW p \in 1 .. m, p \notin 1 .. Len(file) PROVE p \in Positions(ws)
    <3>1. p - pos + 1 \in 1 .. n  BY <1>1, <1>2, <2>2
    <3>2. ws[p - pos + 1].at = pos + (p - pos + 1) - 1  BY <3>1, <1>2
    <3>3. pos + (p - pos + 1) - 1 = p  BY <1>1
    <3>4. p - pos + 1 \in 1 .. Len(ws)  BY <3>1, <1>2
    <3> QED BY <3>2, <3>3, <3>4 DEF Positions
  <2> QED BY <2>1, <2>2 DEF Positions
<1>6. \A p \in 1 .. m : WritesTo(ws, p) = {} => p \in 1 .. Len(file)
  BY <1>5 DEF Positions, WritesTo
<1>7. \A p : WritesTo(ws, p) # {} =>
        /\ LastTo(ws, p) \in 1 .. Len(ws) /\ ws[LastTo(ws, p)].at = p
        /\ \A j \in 1 .. Len(ws) : ws[j].at = p => j <= LastTo(ws, p)
  <2> SUFFICES ASSUME NEW p, WritesTo(ws, p) # {}
               PROVE  /\ LastTo(ws, p) \in 1 .. Len(ws) /\ ws[LastTo(ws, p)].at = p
                      /\ \A j \in 1 .. Len(ws) : ws[j].at = p => j <= LastTo(ws, p)
    OBVIOUS
  <2>1. /\ LastTo(ws, p) \in WritesTo(ws, p)
        /\ \A j \in WritesTo(ws, p) : j <= LastTo(ws, p)
    BY <1>2, LastWrite
  <2> QED BY <2>1 DEF WritesTo
<1>8. image = [p \in 1 .. m |-> e(p)]  BY <1>5 DEF After
<1>9. \A p \in 1 .. m : e(p) \in Cell  BY <1>1, <1>2, <1>6, <1>7
<1>10. \A i \in 1 .. Len(ws) :
         (\A j \in i + 1 .. Len(ws) : ws[j].at # ws[i].at) => e(ws[i].at) = ws[i].cell
  <2> SUFFICES ASSUME NEW i \in 1 .. Len(ws),
                      \A j \in i + 1 .. Len(ws) : ws[j].at # ws[i].at
               PROVE  e(ws[i].at) = ws[i].cell
    OBVIOUS
  <2> DEFINE p == ws[i].at
             l == LastTo(ws, p)
  <2>1. WritesTo(ws, p) # {}  BY DEF WritesTo
  <2>2. l \in 1 .. Len(ws) /\ ws[l].at = p /\ i <= l  BY <1>7, <2>1
  <2>3. l = i  BY <1>2, <2>2
  <2> QED BY <2>1, <2>3
<1>11. \A p \in 1 .. Len(file) :
         (\A i \in 1 .. Len(ws) : ws[i].at # p) => e(p) = file[p]
  BY DEF WritesTo
<1> HIDE DEF e, m
<1>12. image \in [1 .. m -> Cell]  BY <1>8, <1>9
<1>13. image \in Seq(Cell) /\ Len(image) = m  BY <1>3, <1>12, SeqOfFunction
<1>14. \A p \in 1 .. m : image[p] = e(p)  BY <1>8
<1>15. \A p \in 1 .. Len(file) :
         (\A i \in 1 .. Len(ws) : ws[i].at # p) => image[p] = file[p]
  BY <1>1, <1>3, <1>11, <1>14
<1>16. \A i \in 1 .. Len(ws) :
         (\A j \in i + 1 .. Len(ws) : ws[j].at # ws[i].at)
           => image[ws[i].at] = ws[i].cell
  BY <1>4, <1>10, <1>14
<1> QED BY <1>3, <1>4, <1>13, <1>15, <1>16 DEF Overwritten

-----------------------------------------------------------------------------
(* What is on the disk, and when it is accepted.                            *)

\* While the writer lives the main header refers to no table.
Young(image) == image # <<>> => image[1].table = 0

\* The table lists the finalized databases, and they are there.
Complete(image) ==
  /\ image[1].count = Len(final)
  /\ \A i \in Finals :
       /\ image[image[1].table + i - 1] = Entry(final[i].at, final[i].name)
       /\ Intact(image, final[i].at, final[i].id)

Distinct == \A i, j \in Finals : final[i].name = final[j].name => i = j

DiskInv ==
  /\ FileInv
  /\ file \in Seq(Cell) /\ disk \in Seq(Cell) /\ Distinct
  /\ IF writer.open THEN file[1] = Main(0, 0) /\ Young(disk)
                    ELSE Accepted(disk) => Complete(disk)

LEMMA DiskInit == Init => DiskInv
<1> SUFFICES ASSUME Init PROVE DiskInv  OBVIOUS
<1>1. /\ file = <<Main(0, 0)>> /\ disk \in {<<>>, file} /\ final = <<>>
      /\ writer.open
  BY DEF Init, WriterInit
<1>2. Main(0, 0) \in Cell /\ Main(0, 0).table = 0  BY DEF Main, Cell
<1> DEFINE main == Main(0, 0)
<1>3. main \in Cell /\ main.table = 0 /\ file = <<main>>  BY <1>1, <1>2
<1> HIDE DEF main
<1>4. file \in Seq(Cell) /\ file[1] = main /\ disk \in Seq(Cell)
  <2>1. file \in Seq(Cell) /\ file[1] = main  BY <1>3
  <2>2. <<>> \in Seq(Cell)  BY EmptySeq
  <2> QED BY <1>1, <2>1, <2>2
<1>5. Young(disk)  BY <1>1, <1>3, <1>4 DEF Young
<1>6. Distinct  BY <1>1, EmptySeq DEF Distinct, Finals
<1> QED BY <1>1, <1>4, <1>5, <1>6, FileInit DEF DiskInv, main

LEMMA DistinctFinals == TableInv /\ writer.open => Distinct
<1> SUFFICES ASSUME TableInv, writer.open PROVE Distinct  OBVIOUS
<1>1. Len(final) \in Nat  BY LenProperties DEF TableInv, Final
<1>2. PICK n \in Nat : Len(final) <= n /\ Lists(writer, final, n)
  BY <1>1 DEF TableInv, Idle, Busy
<1>3. \A i \in Finals : i \in 1 .. n  BY <1>1, <1>2 DEF Finals
<1> QED BY <1>2, <1>3 DEF Lists, Distinct, Finals

\* Writes of a living writer, as far as they reach the disk, leave the main
\* header as it was created.
LEMMA WritesYoung ==
  ASSUME file \in Seq(Cell), disk \in Seq(Cell), pos \in 2 .. Len(file) + 1,
         file[1] = Main(0, 0), Young(disk),
         NEW ws, NEW n, Orderly(ws, n, 2), Write(ws)
  PROVE  /\ file' \in Seq(Cell) /\ disk' \in Seq(Cell)
         /\ file'[1] = Main(0, 0) /\ Young(disk')
<1>1. Len(file) \in Nat /\ pos \in 1 .. Len(file) + 1 /\ 1 \in 1 .. Len(file)
  BY LenProperties
<1>2. ASSUME NEW vs, NEW k, Orderly(vs, k, 2), NEW image, image = After(vs)
      PROVE  image \in Seq(Cell) /\ image[1] = Main(0, 0)
  <2>1. Overwritten(vs, image)  BY <1>1, <1>2, AfterOrderly
  <2>2. \A i \in 1 .. Len(vs) : vs[i].at # 1
    <3> SUFFICES ASSUME NEW i \in 1 .. Len(vs) PROVE vs[i].at # 1  OBVIOUS
    <3>1. Len(vs) \in Nat /\ k \in 0 .. Len(vs)
      BY <1>2, LenProperties DEF Orderly
    <3>2. i \in 1 .. k \/ i \in k + 1 .. Len(vs)  BY <3>1
    <3>3. CASE i \in 1 .. k
      <4>1. vs[i].at = pos + i - 1  BY <1>2, <3>3 DEF Orderly
      <4> QED BY <1>1, <3>1, <3>3, <4>1
    <3>4. CASE i \in k + 1 .. Len(vs)
      <4>1. vs[i].at \in 2 .. Len(file)  BY <1>2, <3>4 DEF Orderly
      <4> QED BY <4>1
    <3> QED BY <3>2, <3>3, <3>4
  <2>3. image[1] = file[1]  BY <1>1, <2>1, <2>2 DEF Overwritten
  <2> QED BY <2>1, <2>3 DEF Overwritten
<1>3. file' \in Seq(Cell) /\ file'[1] = Main(0, 0)
  BY <1>2 DEF Write
<1>4. CASE disk' = disk  BY <1>3, <1>4
<1>5. ASSUME NEW k \in 0 .. Len(ws), disk' = After(FirstOf(ws, k))
      PROVE  disk' \in Seq(Cell) /\ disk'[1] = Main(0, 0)
  <2>1. Orderly(FirstOf(ws, k), IF k < n THEN k ELSE n, 2)  BY FirstOfOrderly
  <2> QED BY <1>2, <1>5, <2>1
<1>6. Main(0, 0).table = 0  BY DEF Main
<1> QED BY <1>3, <1>4, <1>5, <1>6 DEF Write, Young

LEMMA CellsOrderly ==
  ASSUME NEW at \in Nat, at = pos, NEW cells \in Seq(Cell), NEW ws, ws = Writes(at, cells)
  PROVE  Orderly(ws, Len(cells), 2) /\ Len(ws) = Len(cells)
<1>1. WritesOf(ws, at, cells)  BY WritesProperties, Zenon
<1>2. Len(cells) \in Nat  BY LenProperties
<1> QED BY <1>1, <1>2 DEF WritesOf, Orderly

LEMMA BodyOrderly ==
  ASSUME TableInv, Layout, builder.open, NEW cell \in Cell
  PROVE  /\ Orderly(Body, 2, 2) /\ Len(Body) = 2
         /\ Orderly(Body \o Writes(builder.at, <<cell>>), 2, 2)
<1> DEFINE head == Writes(builder.at, <<cell>>)
           ws == Body \o head
<1>1. /\ pos \in Nat /\ Len(file) \in Nat /\ builder.id \in Nat /\ builder.at \in Nat
      /\ pos \in 2 .. Len(file) + 1 /\ builder.at \in 2 .. pos - 1
  BY LimitProperties DEF Layout
<1>2. /\ Body \in Seq(OneWrite) /\ Len(Body) = 2
      /\ Body[1].at = pos /\ Body[2].at = pos + 1
  BY <1>1, BodyWrites
<1>3. \A i \in 1 .. 2 : i = 1 \/ i = 2  OBVIOUS
<1>4. Orderly(Body, 2, 2)  BY <1>1, <1>2, <1>3 DEF Orderly
<1>5. Finalizing(ws, cell)  BY <1>1, FinalizingWrites
<1>6. ws \in Seq(OneWrite)
  <2> DEFINE cells == <<cell>>
  <2>1. cells \in Seq(Cell)  OBVIOUS
  <2>2. head = Writes(builder.at, cells)  OBVIOUS
  <2> HIDE DEF cells, head
  <2>3. WritesOf(head, builder.at, cells)  BY <1>1, <2>1, <2>2, WritesProperties
  <2>4. head \in Seq(OneWrite)  BY <2>3 DEF WritesOf
  <2> QED BY <1>2, <2>4, ConcatProperties
<1> HIDE DEF ws
<1>7. Len(ws) = 3 /\ ws[1].at = pos /\ ws[2].at = pos + 1 /\ ws[3].at = builder.at
  BY <1>5 DEF Finalizing
<1>8. \A i \in 2 + 1 .. 3 : i = 3  OBVIOUS
<1>9. Orderly(ws, 2, 2)
  BY <1>1, <1>3, <1>6, <1>7, <1>8 DEF Orderly
<1> QED BY <1>2, <1>4, <1>9 DEF ws, head

-----------------------------------------------------------------------------
(* The steps of the writer.                                                 *)

\* What a step of a writer that goes on living does to file and disk.
Writing ==
  /\ writer'.open /\ reader' = reader /\ db' = db
  /\ \/ UNCHANGED <<file, disk>>
     \/ \E ws, n : Orderly(ws, n, 2) /\ Write(ws)

LEMMA CreateWrites ==
  ASSUME DiskInv, NEW name \in Name, NEW metadata \in BOOLEAN,
         BuilderCreate(name, metadata), UNCHANGED readerVars
  PROVE  Writing
<1> DEFINE cells == IF metadata THEN <<Zeros(Id), Data(Id)>> ELSE <<Zeros(Id)>>
           ws == Writes(pos, cells)
<1>1. /\ TableInv /\ writer.open /\ writer \in Writer /\ pos \in Nat
      /\ UNCHANGED <<reader, db>>
  BY DEF DiskInv, FileInv, TableInv, BuilderCreate, readerVars
<1>2. BuilderCreates(name, cells) \/ BuilderNotCreated(cells)
  BY DEF BuilderCreate
<1>3. cells \in Seq(Cell) /\ Len(cells) \in 1 .. 2  BY <1>1, CreateCells
<1> HIDE DEF cells
<1>4. Orderly(ws, Len(cells), 2) /\ Len(ws) = Len(cells)
  BY <1>1, <1>3, CellsOrderly
<1>5. OffsetPushed.open /\ OffsetUndone.open
  BY <1>1 DEF OffsetPushed, OffsetUndone, Writer
<1>6. writer'.open
  <2>1. CASE BuilderCreates(name, cells)
    BY <1>1, <2>1 DEF BuilderCreates, OffsetPushed, Writer
  <2>2. CASE BuilderNotCreated(cells)
    BY <1>1, <1>5, <2>2 DEF BuilderNotCreated
  <2> QED BY <1>2, <2>1, <2>2
<1>7. \E vs, n : Orderly(vs, n, 2) /\ Write(vs)
  <2>1. CASE BuilderCreates(name, cells)
    BY <1>4, <2>1 DEF BuilderCreates
  <2>2. CASE BuilderNotCreated(cells)
    <3>1. PICK k \in 0 .. Len(cells) : Write(FirstOf(ws, k))
      BY <2>2 DEF BuilderNotCreated
    <3> HIDE DEF ws
    <3>2. \E n : Orderly(FirstOf(ws, k), n, 2)  BY <1>4, <3>1, FirstOfOrderly
    <3> QED BY <3>1, <3>2
  <2> QED BY <1>2, <2>1, <2>2
<1> QED BY <1>1, <1>6, <1>7 DEF Writing

LEMMA AddsWrite ==
  ASSUME DiskInv, AddValue \/ AddKeyEntry \/ AddEntry, UNCHANGED readerVars
  PROVE  Writing
<1> DEFINE cells == <<Data(builder.id)>>
           ws == Writes(pos, cells)
<1>1. /\ TableInv /\ builder.open /\ writer' = writer /\ UNCHANGED <<reader, db>>
      /\ UNCHANGED <<file, disk>> \/ Write(ws)
  BY DEF DiskInv, FileInv, AddValue, AddKeyEntry, AddEntry, BlockSaved, readerVars
<1>2. writer.open /\ pos \in Nat /\ builder.id \in Nat
  BY <1>1 DEF TableInv, Builder
<1>3. Data(builder.id) \in Cell  BY <1>2 DEF Data, Cell
<1>4. cells \in Seq(Cell)  BY <1>3
<1> HIDE DEF cells
<1>5. Orderly(ws, Len(cells), 2)  BY <1>2, <1>4, CellsOrderly
<1> QED BY <1>1, <1>2, <1>5 DEF Writing

LEMMA FinalizeWrites ==
  ASSUME DiskInv, BuilderFinalize, UNCHANGED readerVars
  PROVE  Writing
<1>1. /\ TableInv /\ builder.open /\ UNCHANGED <<reader, db>>
      /\ Finalized \/ FinalizeFails
  BY DEF DiskInv, FileInv, BuilderFinalize, readerVars
<1>2. writer.open /\ writer \in Writer /\ Layout
  BY <1>1 DEF TableInv, DiskInv, FileInv
<1>3. builder.id \in Nat /\ pos \in Nat  BY <1>1 DEF TableInv, Builder
<1>4. Torn(builder.id) \in Cell /\ HeaderCell \in Cell
  <2>1. Len(Body) = 2  BY <1>3, BodyWrites
  <2>2. HeaderCell = [kind |-> "header", id |-> builder.id, last |-> pos + 1]
    BY <1>3, <2>1 DEF HeaderCell, Header
  <2> QED BY <1>3, <2>2 DEF Torn, Cell
<1>5. writer'.open
  BY <1>1, <1>2 DEF Finalized, FinalizeFails, RolledBack, Writer
<1>6. UNCHANGED <<file, disk>> \/ \E ws, n : Orderly(ws, n, 2) /\ Write(ws)
  <2>1. ASSUME NEW k \in 0 .. Len(Body), Write(FirstOf(Body, k))
        PROVE  \E ws, n : Orderly(ws, n, 2) /\ Write(ws)
    <3>1. Orderly(Body, 2, 2)  BY <1>1, <1>2, <1>4, BodyOrderly
    <3>2. \E n : Orderly(FirstOf(Body, k), n, 2)  BY <3>1, FirstOfOrderly
    <3> QED BY <2>1, <3>2
  <2>2. ASSUME NEW cell \in Cell, Write(Body \o Writes(builder.at, <<cell>>))
        PROVE  \E ws, n : Orderly(ws, n, 2) /\ Write(ws)
    <3> DEFINE all == Body \o Writes(builder.at, <<cell>>)
    <3>1. Orderly(all, 2, 2)  BY <1>1, <1>2, BodyOrderly
    <3> HIDE DEF all
    <3>2. Write(all)  BY <2>2 DEF all
    <3> QED BY <3>1, <3>2
  <2> QED BY <1>1, <1>4, <2>1, <2>2 DEF Finalized, FinalizeFails
<1> QED BY <1>1, <1>5, <1>6 DEF Writing

LEMMA WritingKeeps ==
  ASSUME DiskInv, writer.open, Writing, FileInv'
  PROVE  DiskInv'
<1>1. /\ file \in Seq(Cell) /\ disk \in Seq(Cell) /\ pos \in 2 .. Len(file) + 1
      /\ file[1] = Main(0, 0) /\ Young(disk)
  BY DEF DiskInv, FileInv, Layout
<1>2. /\ file' \in Seq(Cell) /\ disk' \in Seq(Cell)
      /\ file'[1] = Main(0, 0) /\ Young(disk')
  <2>1. CASE UNCHANGED <<file, disk>>  BY <1>1, <2>1 DEF Young
  <2>2. ASSUME NEW ws, NEW n, Orderly(ws, n, 2), Write(ws)
        PROVE  /\ file' \in Seq(Cell) /\ disk' \in Seq(Cell)
               /\ file'[1] = Main(0, 0) /\ Young(disk')
    BY <1>1, <2>2, WritesYoung
  <2> QED BY <2>1, <2>2 DEF Writing
<1>3. Distinct'
  <2>1. TableInv' /\ writer'.open  BY DEF FileInv, Writing
  <2>2. Len(final)' \in Nat  BY <2>1, LenProperties DEF TableInv, Final
  <2>3. PICK n \in Nat : Len(final') <= n /\ Lists(writer', final', n)
    BY <2>1, <2>2 DEF TableInv, Idle, Busy
  <2>4. \A i \in Finals' : i \in 1 .. n  BY <2>2, <2>3 DEF Finals
  <2> QED BY <2>3, <2>4 DEF Lists, Distinct, Finals
<1> QED BY <1>2, <1>3 DEF DiskInv, Writing

-----------------------------------------------------------------------------
(* The last writes of the writer, cut anywhere.                             *)

\* The writes of a close of a file with the finalized databases.
ClosingWrites(ws, n) ==
  /\ ws \in Seq(OneWrite) /\ Len(ws) = n + 2
  /\ \A i \in 1 .. n : ws[i].at = pos + i - 1
                       /\ ws[i].cell = Entry(final[i].at, final[i].name)
  /\ ws[n + 1].at = 1 /\ ws[n + 1].cell = Main(n, 0)
  /\ ws[n + 2].at = 1 /\ ws[n + 2].cell = Main(n, pos)

Joined(ws, s, t, u) == ws = s \o t \o u

LEMMA TwoAppended ==
  ASSUME NEW S, NEW s \in Seq(S), NEW t \in Seq(S), NEW u \in Seq(S),
         NEW n \in Nat, Len(s) = n, Len(t) = 1, Len(u) = 1,
         NEW ws, Joined(ws, s, t, u)
  PROVE  /\ ws \in Seq(S) /\ Len(ws) = n + 2
         /\ \A i \in 1 .. n : ws[i] = s[i]
         /\ ws[n + 1] = t[1] /\ ws[n + 2] = u[1]
<1> DEFINE v == s \o t
<1>1. /\ v \in Seq(S) /\ Len(v) = n + 1
      /\ \A i \in 1 .. n + 1 : v[i] = IF i <= n THEN s[i] ELSE t[i - n]
  <2>1. /\ v \in Seq(S) /\ Len(v) = Len(s) + Len(t)
        /\ \A i \in 1 .. Len(s) + Len(t) : v[i] = IF i <= Len(s) THEN s[i] ELSE t[i - Len(s)]
    BY ConcatProperties, Zenon
  <2> QED BY <2>1
<1> HIDE DEF v
<1>2. ws = v \o u  BY DEF v, Joined
<1>3. /\ ws \in Seq(S) /\ Len(ws) = n + 2
      /\ \A i \in 1 .. n + 2 : ws[i] = IF i <= n + 1 THEN v[i] ELSE u[i - (n + 1)]
  <2>1. /\ v \o u \in Seq(S) /\ Len(v \o u) = Len(v) + Len(u)
        /\ \A i \in 1 .. Len(v) + Len(u) : (v \o u)[i] = IF i <= Len(v) THEN v[i] ELSE u[i - Len(v)]
    BY <1>1, ConcatProperties, Zenon
  <2> QED BY <1>1, <1>2, <2>1
<1>4. \A i \in 1 .. n : ws[i] = s[i]
  <2> SUFFICES ASSUME NEW i \in 1 .. n PROVE ws[i] = s[i]  OBVIOUS
  <2>1. i \in 1 .. n + 2 /\ i \in 1 .. n + 1 /\ i <= n /\ i <= n + 1  OBVIOUS
  <2> QED BY <2>1, <1>1, <1>3
<1>5. ws[n + 1] = t[1]
  <2>1. /\ n + 1 \in 1 .. n + 2 /\ n + 1 \in 1 .. n + 1 /\ ~(n + 1 <= n)
        /\ n + 1 - n = 1
    OBVIOUS
  <2> QED BY <2>1, <1>1, <1>3
<1>6. ws[n + 2] = u[1]
  <2>1. n + 2 \in 1 .. n + 2 /\ ~(n + 2 <= n + 1) /\ n + 2 - (n + 1) = 1  OBVIOUS
  <2> QED BY <2>1, <1>3
<1> QED BY <1>3, <1>4, <1>5, <1>6

LEMMA MainWrite ==
  ASSUME NEW count \in Nat, NEW table \in Nat, NEW ws,
         ws = Writes(1, <<Main(count, table)>>)
  PROVE  /\ ws \in Seq(OneWrite) /\ Len(ws) = 1
         /\ ws[1].at = 1 /\ ws[1].cell = Main(count, table)
<1> DEFINE main == Main(count, table)
           cells == <<main>>
<1>1. main \in Cell  BY DEF Main, Cell
<1> HIDE DEF main
<1>2. cells \in Seq(Cell) /\ Len(cells) = 1 /\ cells[1] = main  BY <1>1
<1>3. ws = Writes(1, cells)  BY DEF main
<1> HIDE DEF cells
<1>4. WritesOf(ws, 1, cells)  BY <1>2, <1>3, WritesProperties
<1> QED BY <1>2, <1>4 DEF WritesOf, main

LEMMA ClosingIs ==
  ASSUME TableInv, writer.open, ~writer.active
  PROVE  ClosingWrites(Closing, Len(final))
<1> DEFINE n == Len(final)
           table == Writes(pos, Entries)
           count == Writes(1, <<Main(n, 0)>>)
           place == Writes(1, <<Main(n, pos)>>)
<1>1. /\ n \in Nat /\ pos \in Nat /\ final \in Final
      /\ writer.offsets \in Seq(Nat) /\ writer.names \in Seq(Name)
      /\ Lists(writer, final, n)
  BY LenProperties DEF TableInv, Final, Writer, Idle, Busy
<1>2. \A i \in 1 .. n : /\ writer.offsets[i] = final[i].at
                        /\ writer.names[i] = final[i].name
                        /\ final[i] \in [id : Nat, at : Nat, name : Name]
  BY <1>1, ElementOfSeq DEF Lists, Final
<1>3. Len(writer.offsets) = n  BY <1>1 DEF Lists
<1>4. Entries = [i \in 1 .. n |-> Entry(writer.offsets[i], writer.names[i])]
  BY <1>3 DEF Entries
<1>5. \A i \in 1 .. n : /\ Entries[i] = Entry(final[i].at, final[i].name)
                        /\ Entries[i] \in Cell
  BY <1>2, <1>4 DEF Entry, Cell
<1>6. Entries \in [1 .. n -> Cell]  BY <1>4, <1>5
<1>7. Entries \in Seq(Cell) /\ Len(Entries) = n  BY <1>1, <1>6, SeqOfFunction
<1>8. WritesOf(table, pos, Entries)  BY <1>1, <1>7, WritesProperties
<1>9. /\ table \in Seq(OneWrite) /\ Len(table) = n
      /\ \A i \in 1 .. n : table[i].at = pos + i - 1
                           /\ table[i].cell = Entry(final[i].at, final[i].name)
  BY <1>5, <1>7, <1>8 DEF WritesOf
<1>10. /\ count \in Seq(OneWrite) /\ Len(count) = 1
       /\ count[1].at = 1 /\ count[1].cell = Main(n, 0)
  BY <1>1, MainWrite
<1>11. /\ place \in Seq(OneWrite) /\ Len(place) = 1
       /\ place[1].at = 1 /\ place[1].cell = Main(n, pos)
  BY <1>1, MainWrite
<1>12. Closing = table \o count \o place
  BY <1>7 DEF Closing
<1> HIDE DEF table, count, place
<1>13. /\ Closing \in Seq(OneWrite) /\ Len(Closing) = n + 2
       /\ \A i \in 1 .. n : Closing[i] = table[i]
       /\ Closing[n + 1] = count[1] /\ Closing[n + 2] = place[1]
  <2> DEFINE all == Closing
             m == n
  <2>1. Joined(all, table, count, place) /\ m \in Nat  BY <1>1, <1>12 DEF Joined
  <2>2. /\ table \in Seq(OneWrite) /\ count \in Seq(OneWrite) /\ place \in Seq(OneWrite)
        /\ Len(table) = m /\ Len(count) = 1 /\ Len(place) = 1
    BY <1>9, <1>10, <1>11
  <2> HIDE DEF all, m
  <2>3. /\ all \in Seq(OneWrite) /\ Len(all) = m + 2
        /\ \A i \in 1 .. m : all[i] = table[i]
        /\ all[m + 1] = count[1] /\ all[m + 2] = place[1]
    BY <2>1, <2>2, TwoAppended
  <2> QED BY <2>3 DEF all, m
<1> QED BY <1>9, <1>10, <1>11, <1>13 DEF ClosingWrites

\* However many of them were made, the file has no table or all of it.
LEMMA CutClosing ==
  ASSUME TableInv, Layout, ~builder.open, file[1] = Main(0, 0),
         NEW n, n = Len(final), NEW ws, ClosingWrites(ws, n),
         NEW k \in 0 .. n + 2, NEW cut \in Seq(OneWrite), Len(cut) = k,
         \A i \in 1 .. k : cut[i] = ws[i],
         NEW image, image = After(cut)
  PROVE  image \in Seq(Cell) /\ (Accepted(image) => Complete(image))
<1>1. /\ pos \in Nat /\ Len(file) \in Nat /\ pos \in 2 .. Len(file) + 1 /\ n \in Nat
      /\ file \in Seq(Cell) /\ 1 \in 1 .. Len(file)
      /\ \A i \in Finals : Before(file, final[i], pos)
  BY LimitProperties, LenProperties DEF Layout, TableInv, Final, Limit
<1> DEFINE l == IF k < n THEN k ELSE n
<1>2. l \in Nat /\ l <= k /\ l <= n /\ k \in Nat /\ (k > n => l = n) /\ (k <= n => l = k)
  BY <1>1
<1> HIDE DEF l
<1>3. \A i \in 1 .. l : cut[i].at = pos + i - 1
  BY <1>1, <1>2 DEF ClosingWrites
<1>4. \A i \in l + 1 .. k : cut[i].at = 1
  <2> SUFFICES ASSUME NEW i \in l + 1 .. k PROVE cut[i].at = 1  OBVIOUS
  <2>1. i = n + 1 \/ i = n + 2  BY <1>1, <1>2
  <2>2. cut[i] = ws[i]  BY <1>2
  <2> QED BY <2>1, <2>2 DEF ClosingWrites
<1>5. Orderly(cut, l, 1)
  <2>1. \A i \in l + 1 .. k : cut[i].at \in 1 .. Len(file)  BY <1>1, <1>4
  <2> QED BY <1>2, <1>3, <2>1 DEF Orderly
<1>6. Overwritten(cut, image)
  <2>1. pos \in 1 .. Len(file) + 1 /\ 1 \in Nat \ {0}  BY <1>1
  <2> QED BY <1>1, <1>5, <2>1, AfterOrderly
<1>7. CASE k <= n
  <2>1. \A i \in 1 .. Len(cut) : cut[i].at # 1
    BY <1>1, <1>2, <1>3, <1>7
  <2>2. image[1] = file[1]  BY <1>1, <1>6, <2>1 DEF Overwritten
  <2>3. image[1].table = 0  BY <2>2 DEF Main
  <2> QED BY <1>6, <2>3 DEF Overwritten, Accepted
<1>8. CASE k = n + 1
  <2>1. n + 1 \in 1 .. Len(cut) /\ \A j \in n + 1 + 1 .. Len(cut) : FALSE
    BY <1>1, <1>8
  <2>2. image[cut[n + 1].at] = cut[n + 1].cell
    BY <1>6, <2>1 DEF Overwritten
  <2>3. cut[n + 1] = ws[n + 1]  BY <1>8, <2>1
  <2>4. image[1] = Main(n, 0)  BY <2>2, <2>3 DEF ClosingWrites
  <2> QED BY <1>6, <2>4 DEF Overwritten, Accepted, Main
<1>9. CASE k = n + 2
  <2>1. image[1] = Main(n, pos)
    <3>1. n + 2 \in 1 .. Len(cut) /\ \A j \in n + 2 + 1 .. Len(cut) : FALSE
      BY <1>1, <1>9
    <3>2. image[cut[n + 2].at] = cut[n + 2].cell
      BY <1>6, <3>1 DEF Overwritten
    <3>3. cut[n + 2] = ws[n + 2]  BY <1>9, <3>1
    <3> QED BY <3>2, <3>3 DEF ClosingWrites
  <2>2. \A i \in 1 .. n : image[pos + i - 1] = Entry(final[i].at, final[i].name)
    <3> SUFFICES ASSUME NEW i \in 1 .. n
                 PROVE  image[pos + i - 1] = Entry(final[i].at, final[i].name)
      OBVIOUS
    <3>1. i \in 1 .. Len(cut) /\ i \in 1 .. l  BY <1>1, <1>2, <1>9
    <3>2. cut[i].at = pos + i - 1  BY <1>3, <3>1
    <3>3. \A j \in i + 1 .. Len(cut) : cut[j].at # cut[i].at
      <4> SUFFICES ASSUME NEW j \in i + 1 .. Len(cut) PROVE cut[j].at # cut[i].at
        OBVIOUS
      <4>1. CASE j \in 1 .. l
        <5>1. cut[j].at = pos + j - 1  BY <1>3, <4>1
        <5> QED BY <1>1, <3>2, <5>1
      <4>2. CASE j \in l + 1 .. k
        <5>1. cut[j].at = 1  BY <1>4, <4>2
        <5> QED BY <1>1, <3>2, <5>1
      <4>3. j \in 1 .. l \/ j \in l + 1 .. k  BY <1>2, <3>1
      <4> QED BY <4>1, <4>2, <4>3
    <3>4. image[cut[i].at] = cut[i].cell  BY <1>6, <3>1, <3>3 DEF Overwritten
    <3>5. cut[i] = ws[i]  BY <3>1
    <3> QED BY <3>2, <3>4, <3>5 DEF ClosingWrites
  <2>3. Len(image) \in Nat /\ Len(file) <= Len(image)
    BY <1>6 DEF Overwritten
  <2>4. \A p \in 2 .. pos - 1 : image[p] = file[p]
    <3> SUFFICES ASSUME NEW p \in 2 .. pos - 1 PROVE image[p] = file[p]  OBVIOUS
    <3>1. p \in 1 .. Len(file)  BY <1>1
    <3>2. \A i \in 1 .. Len(cut) : cut[i].at # p
      <4> SUFFICES ASSUME NEW i \in 1 .. Len(cut) PROVE cut[i].at # p  OBVIOUS
      <4>1. i \in 1 .. l \/ i \in l + 1 .. k  BY <1>2
      <4> QED BY <1>1, <1>3, <1>4, <4>1
    <3> QED BY <1>6, <3>1, <3>2 DEF Overwritten
  <2>5. ASSUME NEW i \in Finals PROVE Intact(image, final[i].at, final[i].id)
    <3> DEFINE at == final[i].at
               id == final[i].id
               last == file[at].last
    <3>1. /\ at \in 1 .. Len(file) /\ last \in at + 1 .. Len(file) /\ last < pos
          /\ file[at].kind = "header" /\ file[at].id = id
          /\ \A p \in at + 1 .. last : file[p].id = id
      BY <1>1, <2>5 DEF Before, Intact
    <3>2. at # 1  BY <3>1 DEF Main
    <3> HIDE DEF at, id
    <3>3. at \in 2 .. pos - 1  BY <1>1, <3>1, <3>2
    <3>4. image[at] = file[at]  BY <2>4, <3>3
    <3> HIDE DEF last
    <3>5. image[at].last = last  BY <3>4 DEF last
    <3>6. \A p \in at + 1 .. last : image[p].id = id
      <4> SUFFICES ASSUME NEW p \in at + 1 .. last PROVE image[p].id = id  OBVIOUS
      <4>1. p \in 2 .. pos - 1  BY <1>1, <3>1, <3>3
      <4> QED BY <2>4, <3>1, <4>1
    <3>7. at \in 1 .. Len(image) /\ last \in at + 1 .. Len(image)
      BY <1>1, <2>3, <3>1
    <3> QED BY <3>1, <3>4, <3>5, <3>6, <3>7 DEF Intact, at, id
  <2>6. image[1].count = n /\ image[1].table = pos  BY <2>1 DEF Main
  <2>7. Complete(image)
    BY <2>2, <2>5, <2>6 DEF Complete, Finals
  <2> QED BY <1>6, <2>7 DEF Overwritten
<1>10. k <= n \/ k = n + 1 \/ k = n + 2  BY <1>1
<1> QED BY <1>7, <1>8, <1>9, <1>10

LEMMA FirstOfProperties ==
  ASSUME NEW ws \in Seq(OneWrite), NEW k \in 0 .. Len(ws), NEW first, first = FirstOf(ws, k)
  PROVE  first \in Seq(OneWrite) /\ Len(first) = k /\ \A i \in 1 .. k : first[i] = ws[i]
<1>1. Len(ws) \in Nat  BY LenProperties
<1>2. \A i \in 1 .. k : ws[i] \in OneWrite
  <2>1. \A i \in 1 .. k : i \in 1 .. Len(ws)  BY <1>1
  <2> QED BY <2>1, ElementOfSeq
<1>3. /\ SubSeq(ws, 1, k) \in Seq(OneWrite)
      /\ Len(SubSeq(ws, 1, k)) = IF 1 <= k THEN k - 1 + 1 ELSE 0
      /\ \A i \in 1 .. k - 1 + 1 : SubSeq(ws, 1, k)[i] = ws[1 + i - 1]
  BY <1>1, <1>2, SubSeqProperties
<1> QED BY <1>1, <1>3 DEF FirstOf

\* The disk after the writer is gone.
LEMMA DiskGone ==
  ASSUME DiskInv, writer.open, WriterClose \/ Crash
  PROVE  disk' \in Seq(Cell) /\ (Accepted(disk') => Complete(disk'))
<1> DEFINE n == Len(final)
<1>1. /\ TableInv /\ Layout /\ file \in Seq(Cell) /\ disk \in Seq(Cell)
      /\ file[1] = Main(0, 0) /\ Young(disk)
  BY DEF DiskInv, FileInv
<1>2. n \in Nat /\ pos \in 2 .. Len(file) + 1 /\ Len(file) \in Nat
  BY <1>1, LenProperties DEF TableInv, Final, Layout
<1>3. PICK ws : /\ Gone(ws)
                /\ \/ ws = <<>>
                   \/ ~writer.active /\ ws = Closing
                   \/ ~writer.active /\ \E k \in 0 .. Len(Closing) - 1 : ws = FirstOf(Closing, k)
  <2>1. CASE writer.active  BY <2>1 DEF WriterClose, Crash
  <2>2. CASE ~writer.active  BY <2>2 DEF WriterClose, Crash
  <2> QED BY <2>1, <2>2
<1>4. disk' = disk \/ \E k \in 0 .. Len(ws) : disk' = After(FirstOf(ws, k))
  BY <1>3 DEF Gone
<1>5. CASE disk' = disk
  <2>1. ~Accepted(disk)  BY <1>1 DEF Young, Accepted
  <2> QED BY <1>1, <1>5, <2>1
<1>6. ASSUME NEW k \in 0 .. Len(ws), disk' = After(FirstOf(ws, k)), ws = <<>>
      PROVE  disk' \in Seq(Cell) /\ (Accepted(disk') => Complete(disk'))
  <2> DEFINE first == FirstOf(ws, k)
             image == After(first)
  <2>1. ws \in Seq(OneWrite) /\ Len(ws) = 0  BY <1>6, EmptySeq
  <2>2. Orderly(ws, 0, 1)  BY <2>1 DEF Orderly
  <2>3. k = 0  BY <2>1
  <2>4. Orderly(first, 0, 1) /\ Len(first) = 0
    <3>1. /\ Orderly(first, IF k < 0 THEN k ELSE 0, 1) /\ Len(first) = k
      BY <2>2, FirstOfOrderly
    <3> QED BY <2>3, <3>1
  <2> HIDE DEF first
  <2>5. Overwritten(first, image)
    <3>1. pos \in 1 .. Len(file) + 1 /\ 1 \in Nat \ {0}  BY <1>2
    <3> QED BY <1>1, <2>4, <3>1, AfterOrderly
  <2>6. image[1] = file[1]
    <3>1. 1 \in 1 .. Len(file) /\ \A i \in 1 .. Len(first) : first[i].at # 1
      BY <1>2, <2>4
    <3> QED BY <2>5, <3>1 DEF Overwritten
  <2>7. image[1].table = 0  BY <1>1, <2>6 DEF Main
  <2>8. disk' = image  BY <1>6 DEF first
  <2> QED BY <2>5, <2>7, <2>8 DEF Overwritten, Accepted
<1>7. ASSUME ~writer.active, NEW k \in 0 .. n + 2, NEW cut \in Seq(OneWrite), Len(cut) = k,
             \A i \in 1 .. k : cut[i] = Closing[i], disk' = After(cut)
      PROVE  disk' \in Seq(Cell) /\ (Accepted(disk') => Complete(disk'))
  <2>1. ClosingWrites(Closing, n)  BY <1>1, <1>7, ClosingIs
  <2>2. ~builder.open
    BY <1>1, <1>7 DEF TableInv, Idle, Busy
  <2> QED BY <1>1, <1>7, <2>1, <2>2, CutClosing
<1>8. ~writer.active => Closing \in Seq(OneWrite) /\ Len(Closing) = n + 2
  BY <1>1, ClosingIs DEF ClosingWrites
<1>9. ASSUME NEW k \in 0 .. Len(ws), disk' = After(FirstOf(ws, k)),
             ~writer.active, ws = Closing
      PROVE  disk' \in Seq(Cell) /\ (Accepted(disk') => Complete(disk'))
  <2>1. /\ FirstOf(ws, k) \in Seq(OneWrite) /\ Len(FirstOf(ws, k)) = k
        /\ \A i \in 1 .. k : FirstOf(ws, k)[i] = Closing[i] /\ k \in 0 .. n + 2
    BY <1>8, <1>9, FirstOfProperties
  <2>2. k \in 0 .. n + 2  BY <1>8, <1>9
  <2> QED BY <1>7, <1>9, <2>1, <2>2
<1>10. ASSUME NEW k \in 0 .. Len(ws), disk' = After(FirstOf(ws, k)),
              ~writer.active, NEW j \in 0 .. Len(Closing) - 1, ws = FirstOf(Closing, j)
      PROVE  disk' \in Seq(Cell) /\ (Accepted(disk') => Complete(disk'))
  <2> DEFINE cut == FirstOf(ws, k)
  <2>1. /\ ws \in Seq(OneWrite) /\ Len(ws) = j
        /\ \A i \in 1 .. j : ws[i] = Closing[i]
    <3>1. j \in 0 .. Len(Closing)  BY <1>2, <1>8, <1>10
    <3> QED BY <1>8, <1>10, <3>1, FirstOfProperties
  <2>2. cut \in Seq(OneWrite) /\ Len(cut) = k /\ \A i \in 1 .. k : cut[i] = ws[i]
    BY <1>10, <2>1, FirstOfProperties
  <2>3. k \in 0 .. n + 2 /\ \A i \in 1 .. k : i \in 1 .. j
    BY <1>2, <1>8, <1>10, <2>1
  <2>4. \A i \in 1 .. k : cut[i] = Closing[i]  BY <2>1, <2>2, <2>3
  <2>5. disk' = After(cut)  BY <1>10
  <2> HIDE DEF cut
  <2> QED BY <1>7, <1>10, <2>2, <2>3, <2>4, <2>5
<1> QED BY <1>3, <1>4, <1>5, <1>6, <1>9, <1>10

LEMMA GoneDisk ==
  ASSUME DiskInv, WriterClose \/ Crash, FileInv'
  PROVE  DiskInv'
<1>1. writer.open  BY DEF WriterClose, Crash
<1>2. disk' \in Seq(Cell) /\ (Accepted(disk') => Complete(disk'))
  BY <1>1, DiskGone
<1>3. file' = disk' /\ final' = final /\ ~writer'.open
  BY DEF WriterClose, Crash, Gone
<1>4. Distinct'  BY <1>3 DEF DiskInv, Distinct, Finals
<1>5. (Accepted(disk) => Complete(disk))'
  BY <1>2, <1>3 DEF Accepted, Complete, Finals
<1> QED BY <1>2, <1>3, <1>4, <1>5 DEF DiskInv

LEMMA ReadsDisk ==
  ASSUME DiskInv, ReadStep, FileInv'
  PROVE  /\ DiskInv' /\ ~writer.open
         /\ UNCHANGED <<writer, builder, builds, file, disk, pos, final>>
<1>1. ~writer.open /\ UNCHANGED <<writer, builder, builds, file, disk, pos, final>>
  BY DEF ReadStep, ReaderNext, ReaderOpen, ReaderClose, DbOpen, DbOpenFirst,
         ValueEntryFetch, DbClose
<1> QED BY <1>1 DEF DiskInv, Distinct, Finals, Accepted, Complete

LEMMA WriteSteps ==
  ASSUME DiskInv, WriteStep
  PROVE  Writing \/ WriterClose \/ Crash
<1>1. WriterNext /\ UNCHANGED readerVars  BY DEF WriteStep
<1>2. ASSUME NEW name \in Name, NEW metadata \in BOOLEAN, BuilderCreate(name, metadata)
      PROVE  Writing
  BY <1>1, <1>2, CreateWrites
<1>3. CASE AddValue \/ AddKeyEntry \/ AddEntry  BY <1>1, <1>3, AddsWrite
<1>4. CASE BuilderFinalize  BY <1>1, <1>4, FinalizeWrites
<1> QED BY <1>1, <1>2, <1>3, <1>4 DEF WriterNext

LEMMA WriterLives == DiskInv /\ WriteStep => writer.open
BY DEF DiskInv, FileInv, TableInv, WriteStep, WriterNext, BuilderCreate, AddValue,
       AddKeyEntry, AddEntry, BuilderFinalize, WriterClose, Crash

LEMMA DiskStep == DiskInv /\ [Next]_vars => DiskInv'
<1> SUFFICES ASSUME DiskInv, [Next]_vars PROVE DiskInv'  OBVIOUS
<1>1. FileInv'  BY FileStep DEF DiskInv
<1>2. CASE WriteStep
  <2>1. writer.open  BY <1>2, WriterLives
  <2> QED BY <1>1, <1>2, <2>1, WriteSteps, WritingKeeps, GoneDisk
<1>3. CASE ReadStep  BY <1>1, <1>3, ReadsDisk
<1>4. CASE UNCHANGED vars
  <2>1. UNCHANGED <<writer, file, disk, final>>  BY <1>4 DEF vars, writerVars
  <2> QED BY <1>1, <2>1 DEF DiskInv, Distinct, Finals, Accepted, Complete, Young
<1> QED BY <1>2, <1>3, <1>4 DEF Next

-----------------------------------------------------------------------------
(* The readers.                                                             *)

\* The smallest number of a set.
LEMMA Smallest ==
  ASSUME NEW T, T \subseteq Nat, T # {}
  PROVE  \E m \in T : \A k \in T : m <= k
<1> DEFINE R == OpToRel(<, Nat)
<1>1. IsWellFoundedOn(R, Nat)  BY NatLessThanWellFounded, Zenon
<1>2. \A i, j \in Nat : i < j => <<i, j>> \in R  BY DEF OpToRel
<1> HIDE DEF R
<1>3. PICK m \in T : \A k \in T : ~ (<<k, m>> \in R)  BY <1>1, WFMin, Zenon
<1>4. ASSUME NEW k \in T PROVE m <= k
  <2>1. k \in Nat /\ m \in Nat  OBVIOUS
  <2>2. ~(k < m)  BY <1>2, <1>3, <2>1
  <2> QED BY <2>1, <2>2
<1> QED BY <1>4

ListEntry == [at : Nat, name : Text]
OneReader == [open : BOOLEAN, dbs : Seq(ListEntry), whole : Nat]
OneDb == [open : BOOLEAN, name : Text \cup {NULL}, at : Nat, id : Nat, chunks : BOOLEAN]

\* A list is that of the finalized databases up to the entry whole, and has
\* the next at its place.
Listed(list, whole) ==
  /\ list \in [Finals -> ListEntry]
  /\ whole \in 0 .. Len(final)
  /\ \A i \in Finals :
       /\ i <= whole => list[i].name = final[i].name
       /\ i = whole + 1 => list[i].name \in Cut[final[i].name]
       /\ i <= whole + 1 => list[i].at = final[i].at

\* Entry i is the first of a list with its name.
FirstNamed(list, i) == \A j \in 1 .. i - 1 : list[j].name # list[i].name

\* What is open is an entry of the list, and what lies where it says.
Chosen(one, list) ==
  /\ one \in OneDb
  /\ \E i \in Finals :
       /\ list[i].at = one.at /\ one.name \in {list[i].name, NULL}
       /\ FirstNamed(list, i)
  /\ one.id = IdAt(one.at)

\* A reader lists the finalized databases of a complete file, as far as its
\* reads did not fail, and the database that is open is one of the list.
ReadInv ==
  /\ IF reader.open
       THEN /\ ~writer.open /\ Accepted(disk)
            /\ reader \in OneReader /\ Listed(reader.dbs, reader.whole)
       ELSE reader = NoReader
  /\ IF db.open THEN reader.open /\ Chosen(db, reader.dbs) ELSE db = NoDb

Inv == DiskInv /\ ReadInv

LEMMA InvInit == Init => Inv
<1> SUFFICES ASSUME Init PROVE Inv  OBVIOUS
<1>1. reader = NoReader /\ db = NoDb  BY DEF Init, ReaderInit
<1>2. ~NoReader.open /\ ~NoDb.open  BY DEF NoReader, NoDb
<1>3. ~reader.open /\ ~db.open  BY <1>1, <1>2
<1>4. ReadInv  BY <1>1, <1>3 DEF ReadInv
<1> QED BY <1>4, DiskInit DEF Inv

\* What the finalized databases are on a disk that is accepted.
LEMMA FinalProperties ==
  ASSUME DiskInv, ~writer.open, Accepted(disk)
  PROVE  /\ Len(final) \in Nat /\ Len(disk) \in Nat /\ Len(final) > 0
         /\ disk[1].count = Len(final)
         /\ \A i \in Finals : /\ final[i].at \in Nat /\ final[i].name \in Name
                              /\ Intact(disk, final[i].at, final[i].id)
                              /\ CellOf(disk, i) = Entry(final[i].at, final[i].name)
                              /\ IdAt(final[i].at) = final[i].id
<1>1. final \in Final /\ Complete(disk) /\ disk \in Seq(Cell)
  BY DEF DiskInv, FileInv, TableInv
<1>2. /\ Len(final) \in Nat /\ Len(disk) \in Nat
      /\ \A i \in Finals : final[i] \in [id : Nat, at : Nat, name : Name]
  BY <1>1, LenProperties, ElementOfSeq DEF Final, Finals
<1>3. disk[1].count = Len(final) /\ Len(final) > 0
  BY <1>1 DEF Complete, Accepted
<1>4. \A i \in Finals : final[i].at \in Nat /\ final[i].name \in Name
  BY <1>2
<1>5. \A i \in Finals : /\ Intact(disk, final[i].at, final[i].id)
                         /\ CellOf(disk, i) = Entry(final[i].at, final[i].name)
  BY <1>1 DEF Complete, CellOf
<1>6. \A i \in Finals : IdAt(final[i].at) = final[i].id
  BY <1>5 DEF Intact, IdAt
<1> QED BY <1>2, <1>3, <1>4, <1>5, <1>6

LEMMA ListProperties ==
  ASSUME Inv, reader.open
  PROVE  /\ DiskInv /\ ~writer.open /\ Accepted(disk) /\ reader \in OneReader
         /\ Listed(reader.dbs, reader.whole)
         /\ Len(reader.dbs) = Len(final) /\ Len(final) \in Nat /\ Len(final) > 0
         /\ \A i \in Finals : reader.dbs[i] \in ListEntry
<1>1. /\ DiskInv /\ ~writer.open /\ Accepted(disk) /\ reader \in OneReader
      /\ Listed(reader.dbs, reader.whole)
  BY DEF Inv, ReadInv
<1>2. Len(final) \in Nat /\ Len(final) > 0  BY <1>1, FinalProperties
<1>3. reader.dbs \in [1 .. Len(final) -> ListEntry]
  BY <1>1 DEF Listed, Finals
<1>4. Len(reader.dbs) = Len(final)  BY <1>2, <1>3, SeqOfFunction
<1>5. \A i \in Finals : reader.dbs[i] \in ListEntry  BY <1>1 DEF Listed
<1> QED BY <1>1, <1>2, <1>4, <1>5

\* What is read of one entry of a complete table.
LEMMA EntryRead ==
  ASSUME DiskInv, ~writer.open, Accepted(disk), NEW whole \in Nat, NEW i \in Finals,
         NEW entry \in ReadEntry(disk, i, whole)
  PROVE  /\ entry \in ListEntry
         /\ i <= whole => entry.name = final[i].name
         /\ i = whole + 1 => entry.name \in Cut[final[i].name]
         /\ i <= whole + 1 => entry.at = final[i].at
<1>1. /\ final[i].at \in Nat /\ final[i].name \in Name /\ Len(disk) \in Nat
      /\ CellOf(disk, i) = Entry(final[i].at, final[i].name)
      /\ i \in Nat
  BY FinalProperties DEF Finals
<1>2. /\ CellOf(disk, i).kind = "entry" /\ CellOf(disk, i).at = final[i].at
      /\ CellOf(disk, i).name = final[i].name
  BY <1>1 DEF Entry
<1>3. final[i].name \in Text /\ Cut[final[i].name] \subseteq Text
  BY <1>1, NameAssumption
<1>4. CASE i > whole + 1
  <2>1. entry \in Misread(disk)  BY <1>4 DEF ReadEntry
  <2>2. Headers(disk) \subseteq Nat  BY <1>1 DEF Headers
  <2>3. entry \in ListEntry  BY <2>1, <2>2 DEF Misread, ListEntry
  <2> QED BY <1>1, <1>4, <2>3
<1>5. CASE i <= whole + 1
  <2> DEFINE names == IF i <= whole THEN {final[i].name} ELSE Cut[final[i].name]
  <2>1. entry \in {[at |-> final[i].at, name |-> name] : name \in names}
    <3>1. ~(i > whole + 1)  BY <1>1, <1>5
    <3> QED BY <1>2, <3>1 DEF ReadEntry
  <2>2. PICK name \in names : entry = [at |-> final[i].at, name |-> name]
    BY <2>1
  <2>3. entry.at = final[i].at /\ entry.name = name  BY <2>2
  <2>4. name \in Text  BY <1>3
  <2>5. entry \in ListEntry  BY <1>1, <2>2, <2>4 DEF ListEntry
  <2>6. i = whole + 1 => ~(i <= whole)  BY <1>1
  <2> QED BY <2>3, <2>5, <2>6
<1> QED BY <1>1, <1>4, <1>5

\* A table that is complete is read as it was written, up to a failing read.
LEMMA OpenReads ==
  ASSUME DiskInv, ~writer.open, Accepted(disk), NEW whole \in 0 .. disk[1].count,
         NEW list \in TablesRead(disk, disk[1].count, whole)
  PROVE  Listed(list, whole) /\ [open |-> TRUE, dbs |-> list, whole |-> whole] \in OneReader
<1>1. disk[1].count = Len(final) /\ Len(final) \in Nat  BY FinalProperties
<1>2. DOMAIN list = Finals /\ \A i \in Finals : list[i] \in ReadEntry(disk, i, whole)
  BY <1>1 DEF TablesRead, Finals
<1>3. whole \in 0 .. Len(final) /\ whole \in Nat  BY <1>1
<1>4. \A i \in Finals :
        /\ list[i] \in ListEntry
        /\ i <= whole => list[i].name = final[i].name
        /\ i = whole + 1 => list[i].name \in Cut[final[i].name]
        /\ i <= whole + 1 => list[i].at = final[i].at
  BY <1>2, <1>3, EntryRead
<1>5. list \in [Finals -> ListEntry]
  <2>1. list = [i \in Finals |-> list[i]]
    <3>1. list \in [Finals -> UNION {ReadEntry(disk, i, whole) : i \in Finals}]
      BY <1>1 DEF TablesRead, Finals
    <3> QED BY <3>1
  <2> QED BY <1>4, <2>1
<1>6. list \in Seq(ListEntry)
  BY <1>1, <1>5, SeqOfFunction DEF Finals
<1> QED BY <1>3, <1>4, <1>5, <1>6 DEF Listed, OneReader

\* Loading from an entry of the list.
LEMMA LoadOpens ==
  ASSUME DiskInv, NEW at \in Nat, NEW name \in Text, Load(at, name), db' # db
  PROVE  /\ db' \in OneDb /\ db'.open /\ db'.at = at
         /\ db'.name \in {name, NULL} /\ db'.id = IdAt(at)
<1>1. at \in Headers(disk)  BY DEF Load
<1>2. at \in 1 .. Len(disk) /\ disk \in Seq(Cell)  BY <1>1 DEF Headers, DiskInv
<1>3. disk[at].id = IdAt(at) /\ disk[at].id \in Nat
  <2>1. disk[at] \in Cell  BY <1>2, ElementOfSeq
  <2>2. disk[at].id \in Nat  BY <2>1 DEF Cell
  <2> QED BY <1>2, <2>2 DEF IdAt
<1>4. PICK copy \in {name, NULL}, chunks \in BOOLEAN :
        db' = [open |-> TRUE, name |-> copy, at |-> at, id |-> disk[at].id,
               chunks |-> chunks]
  BY DEF Load
<1> QED BY <1>3, <1>4 DEF OneDb

\* The search for a name ends at the first entry that has it.
LEMMA FirstFound ==
  ASSUME Inv, reader.open, NEW name, \E i \in 1 .. Len(reader.dbs) : reader.dbs[i].name = name
  PROVE  /\ IndexOf(name) \in Finals /\ reader.dbs[IndexOf(name)].name = name
         /\ FirstNamed(reader.dbs, IndexOf(name))
<1> DEFINE T == {i \in 1 .. Len(reader.dbs) : reader.dbs[i].name = name}
<1>1. Len(reader.dbs) = Len(final) /\ Len(final) \in Nat  BY ListProperties
<1>2. T \subseteq Nat /\ T # {}  BY <1>1
<1>3. PICK m \in T : \A k \in T : m <= k  BY <1>2, Smallest
<1>4. \A j \in 1 .. m - 1 : reader.dbs[j].name # name
  <2>1. \A j \in 1 .. m - 1 : j \in 1 .. Len(reader.dbs) /\ ~(m <= j)
    BY <1>1
  <2> QED BY <1>3, <2>1
<1>5. /\ IndexOf(name) \in 1 .. Len(reader.dbs) /\ reader.dbs[IndexOf(name)].name = name
      /\ \A j \in 1 .. IndexOf(name) - 1 : reader.dbs[j].name # name
  BY <1>3, <1>4 DEF IndexOf
<1> QED BY <1>1, <1>5 DEF Finals, FirstNamed

\* A database is opened by its name, or the first of all.
LEMMA OpenedIsListed ==
  ASSUME Inv, DbOpenFirst \/ \E name \in Text : DbOpen(name), db' # db
  PROVE  \E i \in Finals : /\ Load(reader.dbs[i].at, reader.dbs[i].name)
                           /\ FirstNamed(reader.dbs, i)
<1>1. reader.open  BY DEF DbOpenFirst, DbOpen
<1>2. CASE DbOpenFirst
  <2>1. 1 \in Finals  BY <1>1, ListProperties DEF Finals
  <2>2. FirstNamed(reader.dbs, 1)  BY DEF FirstNamed
  <2> QED BY <1>2, <2>1, <2>2 DEF DbOpenFirst
<1>3. ASSUME NEW name \in Text, DbOpen(name)
      PROVE  \E i \in Finals : /\ Load(reader.dbs[i].at, reader.dbs[i].name)
                               /\ FirstNamed(reader.dbs, i)
  <2>1. \E i \in 1 .. Len(reader.dbs) : reader.dbs[i].name = name
    BY <1>3 DEF DbOpen
  <2>2. Load(reader.dbs[IndexOf(name)].at, name)
    BY <1>3, <2>1 DEF DbOpen, OffsetOf
  <2>3. /\ IndexOf(name) \in Finals /\ reader.dbs[IndexOf(name)].name = name
        /\ FirstNamed(reader.dbs, IndexOf(name))
    BY <1>1, <2>1, FirstFound
  <2> QED BY <2>2, <2>3
<1> QED BY <1>2, <1>3

LEMMA OpenedIsChosen ==
  ASSUME Inv, DbOpenFirst \/ \E name \in Text : DbOpen(name), db' # db
  PROVE  db'.open /\ Chosen(db', reader.dbs)
<1>1. reader.open  BY DEF DbOpenFirst, DbOpen
<1>2. PICK i \in Finals : /\ Load(reader.dbs[i].at, reader.dbs[i].name)
                          /\ FirstNamed(reader.dbs, i)
  BY OpenedIsListed
<1>3. reader.dbs[i].at \in Nat /\ reader.dbs[i].name \in Text /\ DiskInv
  BY <1>1, ListProperties DEF ListEntry
<1>4. /\ db' \in OneDb /\ db'.open /\ db'.at = reader.dbs[i].at
      /\ db'.name \in {reader.dbs[i].name, NULL} /\ db'.id = IdAt(reader.dbs[i].at)
  BY <1>2, <1>3, LoadOpens
<1> QED BY <1>2, <1>4 DEF Chosen

LEMMA WriterAlone ==
  ASSUME Inv, WriteStep
  PROVE  /\ writer.open /\ ~reader.open /\ ~db.open
         /\ reader = NoReader /\ db = NoDb /\ UNCHANGED <<reader, db>>
<1>1. writer.open /\ UNCHANGED <<reader, db>>
  BY WriterLives DEF Inv, WriteStep, readerVars
<1> QED BY <1>1 DEF Inv, ReadInv

LEMMA ReadStepKeeps ==
  ASSUME Inv, ReadStep
  PROVE  ReadInv'
<1>1. /\ DiskInv /\ ~writer.open /\ FileInv'
      /\ UNCHANGED <<writer, builder, builds, file, disk, pos, final>>
  BY FileStep, ReadsDisk DEF Inv, DiskInv, Next
<1>2. ReaderNext  BY DEF ReadStep
<1>3. ASSUME reader.open, reader' = reader,
             IF db'.open THEN Chosen(db', reader.dbs) ELSE db' = NoDb
      PROVE  ReadInv'
  <2>1. Accepted(disk') /\ ~writer'.open /\ reader' \in OneReader /\ reader'.open
    BY <1>1, <1>3, ListProperties
  <2>2. Listed(reader.dbs, reader.whole)'
    BY <1>1, <1>3, ListProperties DEF Listed, Finals
  <2>3. db'.open => Chosen(db, reader.dbs)'
    BY <1>1, <1>3 DEF Chosen, Finals, FirstNamed, IdAt
  <2> QED BY <1>3, <2>1, <2>2, <2>3 DEF ReadInv
<1>4. ASSUME reader' = reader, db' = db PROVE ReadInv'
  <2>1. CASE reader.open
    <3>1. IF db.open THEN Chosen(db, reader.dbs) ELSE db = NoDb
      BY DEF Inv, ReadInv
    <3>2. IF db'.open THEN Chosen(db', reader.dbs) ELSE db' = NoDb
      BY <1>4, <3>1
    <3> QED BY <1>3, <1>4, <2>1, <3>2
  <2>2. CASE ~reader.open  BY <1>4, <2>2 DEF Inv, ReadInv
  <2> QED BY <2>1, <2>2
<1>5. CASE ReaderOpen
  <2>1. db' = db /\ ~reader.open /\ db = NoDb /\ ~db.open
    BY <1>5 DEF ReaderOpen, Inv, ReadInv
  <2>2. CASE reader' = reader  BY <1>4, <2>1, <2>2
  <2>3. CASE reader' # reader
    <3>1. PICK whole \in 0 .. disk[1].count :
             \E list \in TablesRead(disk, disk[1].count, whole) :
               reader' = [open |-> TRUE, dbs |-> list, whole |-> whole]
      BY <1>5, <2>3 DEF ReaderOpen
    <3>2. PICK list \in TablesRead(disk, disk[1].count, whole) :
            reader' = [open |-> TRUE, dbs |-> list, whole |-> whole]
      BY <3>1
    <3>3. Accepted(disk)  BY <1>5, <2>3 DEF ReaderOpen
    <3>4. Listed(list, whole) /\ reader' \in OneReader
      BY <1>1, <3>2, <3>3, OpenReads
    <3>5. reader'.open /\ reader'.dbs = list /\ reader'.whole = whole  BY <3>2
    <3>6. Listed(reader.dbs, reader.whole)'
      BY <1>1, <3>4, <3>5 DEF Listed, Finals
    <3>7. Accepted(disk') /\ ~writer'.open /\ ~db'.open /\ db' = NoDb
      BY <1>1, <2>1, <3>3
    <3> QED BY <3>4, <3>5, <3>6, <3>7 DEF ReadInv
  <2> QED BY <2>2, <2>3
<1>6. CASE ReaderClose
  <2>1. reader' = NoReader /\ db' = db /\ ~db.open
    BY <1>6 DEF ReaderClose
  <2>2. ~reader'.open /\ ~db'.open /\ db' = NoDb
    BY <2>1 DEF NoReader, Inv, ReadInv
  <2> QED BY <2>1, <2>2 DEF ReadInv
<1>7. CASE DbOpenFirst \/ \E name \in Text : DbOpen(name)
  <2>1. reader' = reader /\ reader.open
    BY <1>7 DEF DbOpenFirst, DbOpen
  <2>2. CASE db' = db  BY <1>4, <2>1, <2>2
  <2>3. CASE db' # db
    <3>1. db'.open /\ Chosen(db', reader.dbs)  BY <1>7, <2>3, OpenedIsChosen
    <3> QED BY <1>3, <2>1, <3>1
  <2> QED BY <2>2, <2>3
<1>8. CASE ValueEntryFetch  BY <1>4, <1>8 DEF ValueEntryFetch
<1>9. CASE DbClose
  <2>1. reader' = reader /\ db' = NoDb /\ ~db'.open /\ reader.open
    BY <1>9 DEF DbClose, NoDb, Inv, ReadInv
  <2>2. IF db'.open THEN Chosen(db', reader.dbs) ELSE db' = NoDb  BY <2>1
  <2> QED BY <1>3, <2>1, <2>2
<1> QED BY <1>2, <1>5, <1>6, <1>7, <1>8, <1>9 DEF ReaderNext

LEMMA InvStep == Inv /\ [Next]_vars => Inv'
<1> SUFFICES ASSUME Inv, [Next]_vars PROVE Inv'  OBVIOUS
<1>1. DiskInv'  BY DiskStep DEF Inv
<1>2. CASE WriteStep
  <2>1. reader' = NoReader /\ db' = NoDb  BY <1>2, WriterAlone
  <2>2. ~reader'.open /\ ~db'.open  BY <2>1 DEF NoReader, NoDb
  <2> QED BY <1>1, <2>1, <2>2 DEF Inv, ReadInv
<1>3. CASE ReadStep  BY <1>1, <1>3, ReadStepKeeps DEF Inv
<1>4. CASE UNCHANGED vars
  <2>1. UNCHANGED <<writer, disk, final, reader, db>>
    BY <1>4 DEF vars, writerVars, readerVars
  <2> QED BY <1>1, <2>1 DEF Inv, ReadInv, Accepted, Listed, Chosen, FirstNamed, IdAt, Finals
<1> QED BY <1>2, <1>3, <1>4 DEF Next

-----------------------------------------------------------------------------
(* The theorems.                                                            *)

LEMMA InvIsComplete == Inv => AcceptedIsComplete
<1> SUFFICES ASSUME Inv, reader.open PROVE AcceptedIsComplete
  BY DEF AcceptedIsComplete
<1>1. \A i \in Finals : Intact(disk, final[i].at, final[i].id)
  BY ListProperties, FinalProperties
<1> QED BY <1>1, ListProperties DEF AcceptedIsComplete, Listed

LEMMA InvIsNamed == Inv => OpensTheNamed
<1> SUFFICES ASSUME Inv, db.open PROVE OpensTheNamed
  BY DEF OpensTheNamed
<1>1. reader.open /\ Chosen(db, reader.dbs)  BY DEF Inv, ReadInv
<1>2. PICK i \in Finals :
        /\ reader.dbs[i].at = db.at /\ db.name \in {reader.dbs[i].name, NULL}
        /\ FirstNamed(reader.dbs, i)
  BY <1>1 DEF Chosen
<1>3. /\ Listed(reader.dbs, reader.whole) /\ reader.whole \in Nat /\ i \in Nat
      /\ IdAt(final[i].at) = final[i].id
  BY <1>1, ListProperties, FinalProperties DEF Finals, OneReader
<1>4. i <= reader.whole => reader.dbs[i].at = final[i].at
  BY <1>3 DEF Listed
<1>5. i <= reader.whole => reader.dbs[i].name = final[i].name /\ db.id = final[i].id
  BY <1>1, <1>2, <1>3, <1>4 DEF Listed, Chosen
<1> QED BY <1>2, <1>5 DEF OpensTheNamed, FirstNamed

\* A reader accepts the file of a writer that closed, failed to close or died
\* between any two writes only if the file holds every finalized database
\* unharmed, and it lists as many: udx_writer_close writes the table, the count
\* and the position of the table in that order, udx_reader_open looks at them.
\* Names and offsets are those of the databases up to a read that failed inside
\* a name, which udx_reader_open takes for the end of the name.
THEOREM AcceptedFilesAreComplete == Spec => []AcceptedIsComplete
BY InvInit, InvStep, InvIsComplete, PTL DEF Spec

\* What udx_db_open opens by a name, or without one, is the first database
\* listed under it, and if no read failed before it was listed, the one that
\* was finalized under the name; its own copy of the name may be missing.
THEOREM OpenedAsNamed == Spec => []OpensTheNamed
BY InvInit, InvStep, InvIsNamed, PTL DEF Spec

LEMMA InvIsTyped == Inv => TypeOK
<1> SUFFICES ASSUME Inv PROVE TypeOK  OBVIOUS
<1>1. /\ file \in Seq(Cell) /\ disk \in Seq(Cell) /\ pos \in Nat /\ builds \in Nat
      /\ final \in Final /\ writer \in Writer /\ builder \in Builder
  BY DEF Inv, DiskInv, FileInv, TableInv
<1>2. reader \in OneReader
  <2>1. CASE reader.open  BY <2>1, ListProperties
  <2>2. CASE ~reader.open
    <3>1. reader = NoReader  BY <2>2 DEF Inv, ReadInv
    <3>2. <<>> \in Seq(ListEntry)  BY EmptySeq
    <3> QED BY <3>1, <3>2 DEF NoReader, OneReader
  <2> QED BY <2>1, <2>2
<1>3. db \in OneDb
  <2>1. NoDb \in OneDb  BY DEF NoDb, OneDb
  <2>2. CASE db.open  BY <2>2 DEF Inv, ReadInv, Chosen
  <2>3. CASE ~db.open  BY <2>1, <2>3 DEF Inv, ReadInv
  <2> QED BY <2>2, <2>3
<1> QED BY <1>1, <1>2, <1>3
    DEF TypeOK, Final, Writer, Builder, OneDb, OneReader, ListEntry

\* Type correctness of a file, its writer and its readers.
THEOREM TypesAreCorrect == Spec => []TypeOK
BY InvInit, InvStep, InvIsTyped, PTL DEF Spec

-----------------------------------------------------------------------------
(* The dictionary.                                                          *)

LEMMA FinalDbsProperties ==
  ASSUME final \in Final
  PROVE  /\ Len(FinalDbs) = Len(final) /\ Len(final) \in Nat /\ DOMAIN FinalDbs = Finals
         /\ \A i \in Finals : /\ FinalDbs[i] = [name |-> final[i].name, id |-> final[i].id]
                              /\ FinalDbs[i].name = final[i].name
                              /\ FinalDbs[i].id = final[i].id
<1>1. Len(final) \in Nat  BY LenProperties DEF Final
<1>2. \A i \in Finals : final[i] \in [id : Nat, at : Nat, name : Name]
  BY <1>1, ElementOfSeq DEF Final, Finals
<1>3. FinalDbs \in [1 .. Len(final) -> [name : Name, id : Nat]]
  BY <1>2 DEF FinalDbs, Finals
<1>4. Len(FinalDbs) = Len(final)  BY <1>1, <1>3, SeqOfFunction
<1>5. ASSUME NEW i \in Finals, NEW one, one = FinalDbs[i]
      PROVE  /\ one = [name |-> final[i].name, id |-> final[i].id]
             /\ one.name = final[i].name /\ one.id = final[i].id
  <2>1. one = [name |-> final[i].name, id |-> final[i].id]
    BY <1>5 DEF FinalDbs
  <2> QED BY <2>1
<1> QED BY <1>1, <1>4, <1>5 DEF FinalDbs

LEMMA ShownProperties ==
  ASSUME Inv, reader.open
  PROVE  /\ DOMAIN ShownDbs = Finals
         /\ \A i \in Finals :
              /\ ShownDbs[i] = [name |-> reader.dbs[i].name, id |-> IdAt(reader.dbs[i].at)]
              /\ ShownDbs[i].name = reader.dbs[i].name
              /\ ShownDbs[i].id = IdAt(reader.dbs[i].at)
<1>1. ShownDbs = [i \in Finals |->
                    [name |-> reader.dbs[i].name, id |-> IdAt(reader.dbs[i].at)]]
  BY ListProperties DEF ShownDbs, Finals
<1>2. ASSUME NEW i \in Finals, NEW one, one = ShownDbs[i]
      PROVE  /\ one = [name |-> reader.dbs[i].name, id |-> IdAt(reader.dbs[i].at)]
             /\ one.name = reader.dbs[i].name /\ one.id = IdAt(reader.dbs[i].at)
  <2>1. one = [name |-> reader.dbs[i].name, id |-> IdAt(reader.dbs[i].at)]
    BY <1>1, <1>2
  <2> QED BY <2>1
<1> QED BY <1>1, <1>2

\* What OpenReader promises of the list an open reader shows.
AsPromised ==
  /\ FinalDbs # <<>> /\ reader.whole \in 0 .. Len(FinalDbs)
  /\ DOMAIN ShownDbs = DOMAIN FinalDbs
  /\ \A i \in DOMAIN FinalDbs :
       /\ i <= reader.whole => ShownDbs[i] = FinalDbs[i]
       /\ i = reader.whole + 1 => /\ ShownDbs[i].name \in Cut[FinalDbs[i].name]
                                  /\ ShownDbs[i].id = FinalDbs[i].id

LEMMA ShownAsPromised == Inv /\ reader.open => AsPromised
<1> SUFFICES ASSUME Inv, reader.open PROVE AsPromised  OBVIOUS
<1>1. /\ DiskInv /\ ~writer.open /\ Accepted(disk) /\ Listed(reader.dbs, reader.whole)
      /\ final \in Final /\ Len(final) > 0
  BY ListProperties DEF DiskInv, FileInv, TableInv
<1>2. /\ Len(FinalDbs) = Len(final) /\ DOMAIN FinalDbs = Finals /\ Len(final) \in Nat
      /\ \A i \in Finals : /\ FinalDbs[i] = [name |-> final[i].name, id |-> final[i].id]
                           /\ FinalDbs[i].name = final[i].name
                           /\ FinalDbs[i].id = final[i].id
  BY <1>1, FinalDbsProperties
<1>3. FinalDbs # <<>>
  <2>1. Len(<<>>) = 0  BY EmptySeq
  <2> QED BY <1>1, <1>2, <2>1
<1>4. reader.whole \in 0 .. Len(FinalDbs)  BY <1>1, <1>2 DEF Listed
<1>5. \A i \in Finals : IdAt(final[i].at) = final[i].id  BY <1>1, FinalProperties
<1>6. ASSUME NEW i \in Finals
      PROVE  /\ i <= reader.whole => ShownDbs[i] = FinalDbs[i]
             /\ i = reader.whole + 1 => /\ ShownDbs[i].name \in Cut[FinalDbs[i].name]
                                        /\ ShownDbs[i].id = FinalDbs[i].id
  <2>1. /\ i <= reader.whole => reader.dbs[i].name = final[i].name
        /\ i = reader.whole + 1 => reader.dbs[i].name \in Cut[final[i].name]
        /\ i <= reader.whole + 1 => reader.dbs[i].at = final[i].at
        /\ i \in Nat /\ reader.whole \in Nat
    BY <1>1, <1>2 DEF Listed, Finals
  <2>2. i <= reader.whole \/ i = reader.whole + 1 => IdAt(reader.dbs[i].at) = final[i].id
    BY <1>5, <2>1
  <2>3. /\ ShownDbs[i] = [name |-> reader.dbs[i].name, id |-> IdAt(reader.dbs[i].at)]
        /\ ShownDbs[i].name = reader.dbs[i].name
        /\ ShownDbs[i].id = IdAt(reader.dbs[i].at)
    BY ShownProperties
  <2> QED BY <1>2, <2>1, <2>2, <2>3
<1>7. DOMAIN ShownDbs = Finals  BY ShownProperties
<1> QED BY <1>2, <1>3, <1>4, <1>6, <1>7 DEF AsPromised

LEMMA PromisedInit == Init => Promised!Init
<1> SUFFICES ASSUME Init PROVE Promised!Init  OBVIOUS
<1>1. final = <<>> /\ writer.open = TRUE /\ reader = NoReader /\ db = NoDb
  BY DEF Init, WriterInit, ReaderInit
<1>2. FinalDbs = <<>>
  <2>1. Finals = {}  BY <1>1, EmptySeq DEF Finals
  <2> QED BY <2>1 DEF FinalDbs
<1>3. ShownDbs = <<>> /\ reader.whole = 0  BY <1>1 DEF ShownDbs, NoReader
<1>4. OpenedDb = {}  BY <1>1 DEF OpenedDb, NoDb
<1> QED BY <1>1, <1>2, <1>3, <1>4 DEF Promised!Init

\* Finalizing appends a database of a new name.
LEMMA FinalizedPromised ==
  ASSUME Inv, TableInv', writer.open, writer'.open, BuilderFinalize, Finalized,
         UNCHANGED <<ShownDbs, OpenedDb>>, reader' = reader, writer'.open = writer.open
  PROVE  Promised!Finalize
<1> DEFINE n == Len(final)
           new == [id |-> builder.id, at |-> builder.at,
                   name |-> writer.names[Len(writer.names)]]
           entry == [name |-> new.name, id |-> new.id]
<1>1. /\ n \in Nat /\ final \in Final /\ builder.open
      /\ builder.id \in Nat /\ builder.at \in Nat
      /\ writer.names \in Seq(Name)
  BY LenProperties DEF Inv, DiskInv, FileInv, TableInv, Final, Builder, Writer,
     BuilderFinalize
<1>2. Lists(writer, final, n + 1)
  BY <1>1 DEF Inv, DiskInv, FileInv, TableInv, Idle, Busy
<1>3. Len(writer.names) = n + 1  BY <1>2 DEF Lists
<1>4. new \in [id : Nat, at : Nat, name : Name]
  <2>1. writer.names[n + 1] \in Name  BY <1>1, <1>3, ElementOfSeq
  <2> QED BY <1>1, <1>3, <2>1
<1>5. final' = Append(final, new)  BY DEF Finalized
<1>6. new.name = writer.names[n + 1]  BY <1>3
<1> HIDE DEF new
<1>7. /\ Len(final') = n + 1 /\ final'[n + 1] = new
      /\ \A i \in 1 .. n : final'[i] = final[i]
  BY <1>1, <1>4, <1>5, AppendProperties DEF Final
<1>8. \A i \in 1 .. n : final[i].name # new.name
  <2>1. \A i \in 1 .. n : writer.names[i] = final[i].name  BY <1>2 DEF Lists
  <2>2. \A i \in 1 .. n : i \in 1 .. n + 1 /\ n + 1 \in 1 .. n + 1 /\ i # n + 1
    BY <1>1
  <2>3. \A i \in 1 .. n : writer.names[i] # writer.names[n + 1]
    BY <1>2, <2>2 DEF Lists
  <2> QED BY <1>6, <2>1, <2>3
<1>9. FinalDbs = [i \in 1 .. n |-> [name |-> final[i].name, id |-> final[i].id]]
  BY DEF FinalDbs, Finals
<1>10. FinalDbs' = [i \in 1 .. n + 1 |-> [name |-> final'[i].name, id |-> final'[i].id]]
  BY <1>7 DEF FinalDbs, Finals
<1> HIDE DEF n, entry
<1> DEFINE S == [name : Name, id : Nat]
<1>11. \A i \in 1 .. n : [name |-> final[i].name, id |-> final[i].id] \in S
  <2> SUFFICES ASSUME NEW i \in 1 .. n
               PROVE  [name |-> final[i].name, id |-> final[i].id] \in S
    OBVIOUS
  <2>1. final[i] \in [id : Nat, at : Nat, name : Name]
    BY <1>1, ElementOfSeq DEF Final, n
  <2> QED BY <2>1
<1>12. FinalDbs \in Seq(S) /\ Len(FinalDbs) = n
  <2>1. FinalDbs \in [1 .. n -> S]  BY <1>9, <1>11
  <2> QED BY <1>1, <2>1, SeqOfFunction
<1>13. entry \in S  BY <1>4 DEF entry
<1>14. /\ Append(FinalDbs, entry) \in Seq(S) /\ Len(Append(FinalDbs, entry)) = n + 1
       /\ \A i \in 1 .. n : Append(FinalDbs, entry)[i] = FinalDbs[i]
       /\ Append(FinalDbs, entry)[n + 1] = entry
  BY <1>12, <1>13, AppendProperties
<1>15. /\ \A i \in 1 .. n : FinalDbs'[i] = FinalDbs[i]
       /\ FinalDbs'[n + 1] = entry
  <2>1. \A i \in 1 .. n : i \in 1 .. n + 1  BY <1>1
  <2>2. n + 1 \in 1 .. n + 1  BY <1>1
  <2> QED BY <1>7, <1>9, <1>10, <2>1, <2>2 DEF entry
<1>16. FinalDbs' \in Seq(S) /\ Len(FinalDbs') = n + 1
  <2>1. \A i \in 1 .. n + 1 : FinalDbs'[i] \in S
    <3>1. \A i \in 1 .. n + 1 : i \in 1 .. n \/ i = n + 1  BY <1>1
    <3>2. \A i \in 1 .. n : FinalDbs[i] \in S  BY <1>9, <1>11
    <3> QED BY <1>13, <1>15, <3>1, <3>2
  <2>2. FinalDbs' \in [1 .. n + 1 -> S]  BY <1>10, <2>1
  <2>3. n + 1 \in Nat  BY <1>1
  <2> QED BY <2>2, <2>3, SeqOfFunction
<1>17. FinalDbs' = Append(FinalDbs, entry)
  <2>1. \A i \in 1 .. n + 1 : i \in 1 .. n \/ i = n + 1  BY <1>1
  <2>2. \A i \in 1 .. n + 1 : FinalDbs'[i] = Append(FinalDbs, entry)[i]
    BY <1>14, <1>15, <2>1
  <2> QED BY <1>14, <1>16, <2>2, SeqEqual
<1>18. FinalDbs'[Len(FinalDbs')] = entry  BY <1>15, <1>16
<1>19. FinalDbs' # <<>>
  <2>1. Len(<<>>) = 0  BY EmptySeq
  <2> QED BY <1>1, <1>16, <2>1
<1>20. \A i \in DOMAIN FinalDbs : FinalDbs[i].name # entry.name
  BY <1>8, <1>9 DEF entry, n
<1> HIDE DEF S
<1> QED BY <1>17, <1>18, <1>19, <1>20 DEF Promised!Finalize

PromisedVars == <<FinalDbs, writer.open, ShownDbs, reader.whole, OpenedDb>>

LEMMA WritePromised ==
  ASSUME Inv, Inv', WriteStep
  PROVE  Promised!Next \/ UNCHANGED PromisedVars
<1>1. /\ writer.open /\ ~reader.open /\ ~db.open /\ reader' = reader /\ db' = db
      /\ WriterNext
  BY WriterAlone DEF WriteStep
<1>2. ShownDbs = <<>> /\ ShownDbs' = <<>>  BY <1>1 DEF ShownDbs
<1>3. OpenedDb = {} /\ OpenedDb' = {}  BY <1>1 DEF OpenedDb
<1>4. TableInv' /\ writer \in Writer /\ writer' \in Writer
  BY DEF Inv, DiskInv, FileInv, TableInv
<1>5. CASE WriterClose \/ Crash
  <2>1. final' = final /\ writer'.open = FALSE
    BY <1>5 DEF WriterClose, Crash, Gone
  <2>2. FinalDbs' = FinalDbs  BY <2>1 DEF FinalDbs, Finals
  <2>3. writer.open = TRUE  BY <1>1, <1>4 DEF Writer
  <2>4. Promised!WritingEnds
    BY <1>1, <1>2, <1>3, <2>1, <2>2, <2>3 DEF Promised!WritingEnds
  <2> QED BY <2>4 DEF Promised!Next
<1>6. CASE ~(WriterClose \/ Crash)
  <2>1. writer'.open = writer.open
    <3>1. Writing  BY <1>6, WriteSteps DEF Inv
    <3> QED BY <1>1, <1>4, <3>1 DEF Writing, Writer
  <2>2. CASE final' = final
    <3>1. FinalDbs' = FinalDbs  BY <2>2 DEF FinalDbs, Finals
    <3> QED BY <1>1, <1>2, <1>3, <2>1, <3>1 DEF PromisedVars
  <2>3. CASE final' # final
    <3>1. BuilderFinalize /\ Finalized
      BY <1>1, <1>6, <2>3 DEF WriterNext, BuilderCreate, AddValue, AddKeyEntry,
         AddEntry, BuilderFinalize, FinalizeFails
    <3>2. Promised!Finalize
      BY <1>1, <1>2, <1>3, <1>4, <2>1, <3>1, FinalizedPromised
    <3> QED BY <3>2 DEF Promised!Next
  <2> QED BY <2>2, <2>3
<1> QED BY <1>5, <1>6

LEMMA ReadPromised ==
  ASSUME Inv, Inv', ReadStep
  PROVE  Promised!Next \/ UNCHANGED PromisedVars
<1>1. UNCHANGED <<writer, file, disk, final>> /\ ReaderNext
  BY ReadsDisk, FileStep DEF Inv, DiskInv, Next, ReadStep
<1>2. FinalDbs' = FinalDbs /\ writer'.open = writer.open
  BY <1>1 DEF FinalDbs, Finals
<1>3. ASSUME reader' = reader PROVE ShownDbs' = ShownDbs
  BY <1>1, <1>3 DEF ShownDbs, IdAt
<1>4. ASSUME db' = db PROVE OpenedDb' = OpenedDb
  BY <1>4 DEF OpenedDb
<1>5. CASE reader' = reader /\ db' = db
  BY <1>2, <1>3, <1>4, <1>5 DEF PromisedVars
<1>6. CASE ReaderOpen /\ reader' # reader
  <2>1. ~reader.open /\ reader'.open /\ db' = db
    BY <1>6 DEF ReaderOpen
  <2>2. AsPromised'
    <3>1. (Inv /\ reader.open => AsPromised)'  BY ShownAsPromised, PTL
    <3> QED BY <2>1, <3>1
  <2>3. ShownDbs = <<>>  BY <2>1 DEF ShownDbs
  <2>4. ~writer.open  BY DEF ReadStep
  <2>5. Promised!OpenReader
    BY <1>2, <1>4, <2>1, <2>2, <2>3, <2>4 DEF Promised!OpenReader, AsPromised
  <2> QED BY <2>5 DEF Promised!Next
<1>7. CASE ReaderClose
  <2>1. db' = db /\ ~db.open /\ reader' = NoReader  BY <1>7 DEF ReaderClose
  <2>2. ShownDbs' = <<>> /\ reader'.whole = 0  BY <2>1 DEF ShownDbs, NoReader
  <2>3. OpenedDb = {}  BY <2>1 DEF OpenedDb
  <2>4. Promised!CloseReader
    BY <1>2, <1>4, <2>1, <2>2, <2>3 DEF Promised!CloseReader
  <2> QED BY <2>4 DEF Promised!Next
<1>8. CASE (DbOpenFirst \/ \E name \in Text : DbOpen(name)) /\ db' # db
  <2>1. reader' = reader /\ ~db.open /\ reader.open
    BY <1>8 DEF DbOpenFirst, DbOpen
  <2>2. db'.open /\ Chosen(db', reader.dbs)  BY <1>8, OpenedIsChosen
  <2>3. PICK i \in Finals :
          /\ reader.dbs[i].at = db'.at /\ db'.name \in {reader.dbs[i].name, NULL}
          /\ FirstNamed(reader.dbs, i)
    BY <2>2 DEF Chosen
  <2>4. db'.id = IdAt(reader.dbs[i].at)  BY <2>2, <2>3 DEF Chosen
  <2>5. /\ DOMAIN ShownDbs = Finals
        /\ \A j \in Finals : ShownDbs[j].name = reader.dbs[j].name
        /\ ShownDbs[i].id = IdAt(reader.dbs[i].at)
    BY <2>1, ShownProperties
  <2>6. \A j \in 1 .. i - 1 : ShownDbs[j].name # ShownDbs[i].name
    <3>1. \A j \in 1 .. i - 1 : j \in Finals
      <4>1. Len(final) \in Nat  BY <2>1, ListProperties
      <4> QED BY <4>1 DEF Finals
    <3> QED BY <2>3, <2>5, <3>1 DEF FirstNamed
  <2>7. OpenedDb = {}  BY <2>1 DEF OpenedDb
  <2>8. OpenedDb' = {[name |-> db'.name, id |-> ShownDbs[i].id]}
    BY <2>2, <2>4, <2>5 DEF OpenedDb
  <2>9. db'.name \in {ShownDbs[i].name, NULL}  BY <2>3, <2>5
  <2>10. Promised!OpenDb
    BY <1>2, <1>3, <2>1, <2>5, <2>6, <2>7, <2>8, <2>9 DEF Promised!OpenDb
  <2> QED BY <2>10 DEF Promised!Next
<1>9. CASE DbClose
  <2>1. reader' = reader /\ db' = NoDb  BY <1>9 DEF DbClose
  <2>2. OpenedDb' = {}  BY <2>1 DEF OpenedDb, NoDb
  <2>3. Promised!CloseDb  BY <1>2, <1>3, <2>1, <2>2 DEF Promised!CloseDb
  <2> QED BY <2>3 DEF Promised!Next
<1>10. \/ reader' = reader /\ db' = db
       \/ ReaderOpen /\ reader' # reader
       \/ ReaderClose
       \/ (DbOpenFirst \/ \E name \in Text : DbOpen(name)) /\ db' # db
       \/ DbClose
  BY <1>1 DEF ReaderNext, ReaderOpen, DbOpenFirst, DbOpen, ValueEntryFetch
<1> QED BY <1>5, <1>6, <1>7, <1>8, <1>9, <1>10

LEMMA PromisedStep ==
  Inv /\ Inv' /\ [Next]_vars => [Promised!Next]_PromisedVars
<1> SUFFICES ASSUME Inv, Inv', [Next]_vars
             PROVE  Promised!Next \/ UNCHANGED PromisedVars
  OBVIOUS
<1>1. CASE WriteStep  BY <1>1, WritePromised
<1>2. CASE ReadStep  BY <1>2, ReadPromised
<1>3. CASE UNCHANGED vars
  <2>1. UNCHANGED <<writer, disk, final, reader, db>>
    BY <1>3 DEF vars, writerVars, readerVars
  <2> QED BY <2>1 DEF PromisedVars, FinalDbs, Finals, ShownDbs, IdAt, OpenedDb
<1> QED BY <1>1, <1>2, <1>3 DEF Next

\* A file, its writer and its readers implement the dictionary: databases of
\* different names are appended one by one, and after the writer closed or died
\* a reader shows all of them or nothing, and opens them by their names.
THEOREM ImplementsDictionary == Spec => Implements
BY InvInit, InvStep, PromisedInit, PromisedStep, PTL
   DEF Spec, Implements, Promised!Spec, PromisedVars
==============================================================================
