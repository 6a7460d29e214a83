--------------------------- MODULE UdxStoreProofs ----------------------------
(***************************************************************************)
(* Proofs about a file and its databases, for any names and bounds.         *)
(***************************************************************************)
EXTENDS UdxStore, SequenceTheorems, TLAPS

LEMMA DropLastProperties ==
  ASSUME NEW S, NEW n \in Nat, NEW s \in Seq(S), Len(s) = n + 1
  PROVE  /\ DropLast(s) \in Seq(S) /\ Len(DropLast(s)) = n
         /\ \A i \in 1 .. n : DropLast(s)[i] = s[i]
<1>1. DropLast(s) = SubSeq(s, 1, n)
  <2>1. Len(s) - 1 = n  OBVIOUS
  <2> QED BY <2>1 DEF DropLast
<1>2. \A i \in 1 .. n : s[i] \in S  BY ElementOfSeq
<1>3. /\ SubSeq(s, 1, n) \in Seq(S)
      /\ Len(SubSeq(s, 1, n)) = IF 1 <= n THEN n - 1 + 1 ELSE 0
      /\ \A i \in 1 .. n - 1 + 1 : SubSeq(s, 1, n)[i] = s[1 + i - 1]
  BY <1>2, SubSeqProperties
<1>4. Len(SubSeq(s, 1, n)) = n  BY <1>3
<1>5. \A i \in 1 .. n : SubSeq(s, 1, n)[i] = s[i]
  <2> TAKE i \in 1 .. n
  <2>1. i \in 1 .. n - 1 + 1 /\ 1 + i - 1 = i  OBVIOUS
  <2> QED BY <1>3, <2>1
<1> QED BY <1>1, <1>3, <1>4, <1>5

Writer  == [open : BOOLEAN, offsets : Seq(Nat), names : Seq(Name), active : BOOLEAN]
Builder == [open : BOOLEAN, id : Nat, at : Nat, empty : BOOLEAN]
Final   == Seq([id : Nat, at : Nat, name : Name])

-----------------------------------------------------------------------------
(* TableOfFinals of a writer, a builder and finalized databases.            *)

Lists(w, fs, n) ==
  /\ Len(w.offsets) = n /\ Len(w.names) = n
  /\ \A i \in 1 .. Len(fs) : w.offsets[i] = fs[i].at /\ w.names[i] = fs[i].name
  /\ \A i, j \in 1 .. n : w.names[i] = w.names[j] => i = j

Idle(w, b, fs) == ~w.active /\ ~b.open /\ Lists(w, fs, Len(fs))

Busy(w, b, fs) ==
  /\ w.active /\ b.open
  /\ Lists(w, fs, Len(fs) + 1)
  /\ w.offsets[Len(fs) + 1] = b.at

\* TableOfFinals with what it needs of types and, once the writer is gone,
\* that no builder outlives it.
TableInv ==
  /\ writer \in Writer /\ builder \in Builder /\ final \in Final
  /\ pos \in Nat /\ builds \in Nat
  /\ IF writer.open THEN Idle(writer, builder, final) \/ Busy(writer, builder, final)
                    ELSE ~builder.open

LEMMA TableInvImplies == TableInv => TableOfFinals
<1> SUFFICES ASSUME TableInv, writer.open PROVE TableOfFinals
  BY DEF TableOfFinals
<1>1. writer \in Writer /\ builder \in Builder /\ Len(final) \in Nat
  BY LenProperties DEF TableInv, Final
<1>2. CASE Idle(writer, builder, final)
  <2>1. Len(final) + (IF writer.active THEN 1 ELSE 0) = Len(final)
    BY <1>1, <1>2 DEF Idle
  <2>2. writer.active = builder.open
    BY <1>1, <1>2 DEF Idle, Writer, Builder
  <2> QED BY <1>2, <2>1, <2>2 DEF TableOfFinals, Finals, Idle, Lists
<1>3. CASE Busy(writer, builder, final)
  <2>1. Len(final) + (IF writer.active THEN 1 ELSE 0) = Len(final) + 1
    BY <1>1, <1>3 DEF Busy
  <2>2. writer.active = builder.open
    BY <1>1, <1>3 DEF Busy, Writer, Builder
  <2> QED BY <1>3, <2>1, <2>2 DEF TableOfFinals, Finals, Busy, Lists
<1> QED BY <1>2, <1>3 DEF TableInv

LEMMA TableInit == Init => TableInv
<1> SUFFICES ASSUME Init PROVE TableInv  OBVIOUS
<1> USE DEF Init, WriterInit
<1>1. writer = [open |-> TRUE, offsets |-> <<>>, names |-> <<>>, active |-> FALSE]
  OBVIOUS
<1>2. writer \in Writer /\ builder \in Builder /\ final \in Final
  BY <1>1, EmptySeq DEF Writer, Builder, NoBuilder, Final
<1>3. Idle(writer, builder, final)
  BY <1>1, EmptySeq DEF Idle, Lists, NoBuilder
<1> QED BY <1>1, <1>2, <1>3 DEF TableInv

\* A step that leaves the lists and what the builder stands for alone.
LEMMA ListsKept ==
  ASSUME TableInv, UNCHANGED <<writer, final, builds>>, pos' \in Nat,
         builder' = builder \/ builder' = [builder EXCEPT !.empty = FALSE]
  PROVE  TableInv'
<1>1. builder' \in Builder /\ builder'.open = builder.open /\ builder'.at = builder.at
  BY DEF TableInv, Builder
<1> QED BY <1>1 DEF TableInv, Idle, Busy

-----------------------------------------------------------------------------
(* The steps.                                                               *)

LEMMA CreateKeeps ==
  ASSUME TableInv, NEW name \in Name, NEW metadata \in BOOLEAN,
         BuilderCreate(name, metadata)
  PROVE  TableInv'
<1> DEFINE cells == IF metadata THEN <<Zeros(Id), Data(Id)>> ELSE <<Zeros(Id)>>
           n == Len(final)
           offsets == Append(writer.offsets, pos)
           names == Append(writer.names, name)
<1>1. /\ writer.open /\ ~writer.active /\ final' = final /\ builds' = builds + 1
      /\ \A i \in 1 .. Len(writer.names) : writer.names[i] # name
      /\ BuilderCreates(name, cells) \/ BuilderNotCreated(cells)
  BY DEF BuilderCreate, Refused
<1>2. Len(cells) \in Nat  BY DEF cells
<1>3. /\ writer \in Writer /\ pos \in Nat /\ builds \in Nat /\ n \in Nat
      /\ final \in Final /\ builder \in Builder
      /\ writer.offsets \in Seq(Nat) /\ writer.names \in Seq(Name)
  BY LenProperties DEF TableInv, Final, Writer
<1>4. Idle(writer, builder, final)
  BY <1>1 DEF TableInv, Busy
<1>5. Len(writer.offsets) = n /\ Len(writer.names) = n
  BY <1>4 DEF Idle, Lists
<1>6. /\ offsets \in Seq(Nat) /\ Len(offsets) = n + 1 /\ offsets[n + 1] = pos
      /\ \A i \in 1 .. n : offsets[i] = writer.offsets[i]
  BY <1>3, <1>5, AppendProperties
<1>7. /\ names \in Seq(Name) /\ Len(names) = n + 1 /\ names[n + 1] = name
      /\ \A i \in 1 .. n : names[i] = writer.names[i]
  BY <1>3, <1>5, AppendProperties
<1>8. OffsetPushed = [writer EXCEPT !.offsets = offsets]
  BY DEF OffsetPushed
<1> HIDE DEF cells, offsets, names
<1>9. CASE BuilderCreates(name, cells)
  <2>1. writer' = [OffsetPushed EXCEPT !.names = names, !.active = TRUE]
    BY <1>3, <1>8, <1>9 DEF BuilderCreates, Writer, names, OffsetPushed
  <2>2. writer' = [open |-> TRUE, offsets |-> offsets, names |-> names, active |-> TRUE]
    BY <1>1, <1>3, <1>8, <2>1 DEF Writer
  <2>3. builder' = [open |-> TRUE, id |-> Id, at |-> pos, empty |-> TRUE]
    BY <1>9 DEF BuilderCreates
  <2>4. pos' \in Nat
    BY <1>2, <1>3, <1>9 DEF BuilderCreates
  <2>5. writer' \in Writer /\ builder' \in Builder
    BY <1>3, <1>6, <1>7, <2>2, <2>3 DEF Writer, Builder, Id
  <2>6. \A i, j \in 1 .. n + 1 : names[i] = names[j] => i = j
    <3>1. \A i, j \in 1 .. n : writer.names[i] = writer.names[j] => i = j
      BY <1>4 DEF Idle, Lists
    <3>2. \A i \in 1 .. n : writer.names[i] # name  BY <1>1, <1>5
    <3>3. \A i \in 1 .. n + 1 : i \in 1 .. n \/ i = n + 1  BY <1>3
    <3> QED BY <1>7, <3>1, <3>2, <3>3
  <2>7. \A i \in 1 .. n : offsets[i] = final[i].at /\ names[i] = final[i].name
    BY <1>4, <1>6, <1>7 DEF Idle, Lists
  <2>8. Busy(writer', builder', final')
    BY <1>1, <1>6, <1>7, <2>2, <2>3, <2>6, <2>7 DEF Busy, Lists
  <2> QED BY <1>1, <1>3, <2>2, <2>4, <2>5, <2>8 DEF TableInv
<1>10. CASE BuilderNotCreated(cells)
  <2>1. DropLast(offsets) = writer.offsets
    <3>1. /\ DropLast(offsets) \in Seq(Nat) /\ Len(DropLast(offsets)) = n
          /\ \A i \in 1 .. n : DropLast(offsets)[i] = offsets[i]
      BY <1>3, <1>6, DropLastProperties
    <3> QED BY <3>1, <1>3, <1>5, <1>6, SeqEqual
  <2>2. OffsetUndone = writer
    <3>1. OffsetPushed.offsets = offsets  BY <1>3, <1>8 DEF Writer
    <3>2. OffsetUndone = [OffsetPushed EXCEPT !.offsets = writer.offsets]
      BY <2>1, <3>1 DEF OffsetUndone
    <3> QED BY <3>2, <1>3, <1>8 DEF Writer
  <2>3. writer' = writer /\ builder' = builder
    BY <1>10, <2>2 DEF BuilderNotCreated
  <2>4. pos' \in Nat
    <3>1. PICK k \in 0 .. Len(cells) : pos' \in {pos, pos + k}
      BY <1>10 DEF BuilderNotCreated
    <3> QED BY <3>1, <1>2, <1>3
  <2> QED BY <1>1, <1>3, <1>4, <2>3, <2>4 DEF TableInv
<1> QED BY <1>1, <1>9, <1>10

LEMMA FinalizeKeeps ==
  ASSUME TableInv, BuilderFinalize
  PROVE  TableInv'
<1> DEFINE n == Len(final)
<1>1. /\ builder.open /\ builder' = NoBuilder /\ builds' = builds
      /\ Finalized \/ FinalizeFails
  BY DEF BuilderFinalize
<1>2. /\ writer \in Writer /\ builder \in Builder /\ final \in Final
      /\ pos \in Nat /\ builds \in Nat /\ n \in Nat
      /\ writer.offsets \in Seq(Nat) /\ writer.names \in Seq(Name)
  BY LenProperties DEF TableInv, Final, Writer
<1>3. writer.open /\ Busy(writer, builder, final)
  BY <1>1 DEF TableInv, Idle
<1>4. builder' \in Builder /\ ~builder'.open
  BY <1>1 DEF NoBuilder, Builder
<1>5. Len(writer.offsets) = n + 1 /\ Len(writer.names) = n + 1
  BY <1>3 DEF Busy, Lists
<1>6. Len(Body) = 2  BY DEF Body, Writes
<1>7. CASE Finalized
  <2> DEFINE last == [id |-> builder.id, at |-> builder.at,
                      name |-> writer.names[Len(writer.names)]]
             fs == Append(final, last)
  <2>1. /\ final' = fs /\ pos' = pos + Len(Body)
        /\ writer' = [writer EXCEPT !.active = FALSE]
    BY <1>7 DEF Finalized, BehindBody
  <2>2. /\ last \in [id : Nat, at : Nat, name : Name]
        /\ last.at = writer.offsets[n + 1] /\ last.name = writer.names[n + 1]
    <3>1. writer.names[n + 1] \in Name  BY <1>2, <1>5, ElementOfSeq
    <3>2. writer.offsets[n + 1] = builder.at  BY <1>3 DEF Busy
    <3> QED BY <1>2, <1>5, <3>1, <3>2 DEF Builder
  <2>3. /\ fs \in Final /\ Len(fs) = n + 1 /\ fs[n + 1] = last
        /\ \A i \in 1 .. n : fs[i] = final[i]
    BY <1>2, <2>2, AppendProperties DEF Final
  <2> HIDE DEF last, fs
  <2>4. /\ writer' \in Writer /\ writer'.open /\ ~writer'.active
        /\ writer'.offsets = writer.offsets /\ writer'.names = writer.names
    BY <1>2, <1>3, <2>1 DEF Writer
  <2>5. \A i \in 1 .. n + 1 :
          writer.offsets[i] = fs[i].at /\ writer.names[i] = fs[i].name
    <3>1. \A i \in 1 .. n : writer.offsets[i] = final[i].at /\ writer.names[i] = final[i].name
      BY <1>3 DEF Busy, Lists
    <3>2. \A i \in 1 .. n + 1 : i \in 1 .. n \/ i = n + 1  BY <1>2
    <3> QED BY <3>1, <3>2, <2>2, <2>3
  <2>6. \A i, j \in 1 .. n + 1 : writer.names[i] = writer.names[j] => i = j
    BY <1>3 DEF Busy, Lists
  <2>7. Idle(writer', builder', final')
    BY <1>4, <1>5, <2>1, <2>3, <2>4, <2>5, <2>6 DEF Idle, Lists
  <2>8. pos' \in Nat  BY <1>2, <1>6, <2>1
  <2> QED BY <1>1, <1>2, <1>4, <2>1, <2>3, <2>4, <2>7, <2>8 DEF TableInv
<1>8. CASE FinalizeFails
  <2> DEFINE offsets == DropLast(writer.offsets)
             names == DropLast(writer.names)
  <2>1. writer' = RolledBack /\ final' = final  BY <1>8 DEF FinalizeFails
  <2>2. pos' \in Nat
    BY <1>2, <1>6, <1>8 DEF FinalizeFails, Builder
  <2> HIDE DEF offsets, names
  <2>3. /\ offsets \in Seq(Nat) /\ Len(offsets) = n
        /\ \A i \in 1 .. n : offsets[i] = writer.offsets[i]
    <3> DEFINE s == writer.offsets
    <3>1. offsets = DropLast(s)  BY DEF offsets
    <3>2. s \in Seq(Nat) /\ Len(s) = n + 1 /\ n \in Nat  BY <1>2, <1>5
    <3> HIDE DEF s
    <3>3. /\ DropLast(s) \in Seq(Nat) /\ Len(DropLast(s)) = n
          /\ \A i \in 1 .. n : DropLast(s)[i] = s[i]
      BY <3>2, DropLastProperties
    <3> QED BY <3>1, <3>3 DEF s
  <2>4. /\ names \in Seq(Name) /\ Len(names) = n
        /\ \A i \in 1 .. n : names[i] = writer.names[i]
    <3> DEFINE s == writer.names
    <3>1. names = DropLast(s)  BY DEF names
    <3>2. s \in Seq(Name) /\ Len(s) = n + 1 /\ n \in Nat  BY <1>2, <1>5
    <3> HIDE DEF s
    <3>3. /\ DropLast(s) \in Seq(Name) /\ Len(DropLast(s)) = n
          /\ \A i \in 1 .. n : DropLast(s)[i] = s[i]
      BY <3>2, DropLastProperties
    <3> QED BY <3>1, <3>3 DEF s
  <2>5. writer' = [open |-> TRUE, offsets |-> offsets, names |-> names, active |-> FALSE]
    BY <1>2, <1>3, <2>1 DEF RolledBack, Writer, offsets, names
  <2>6. writer' \in Writer
    BY <2>3, <2>4, <2>5 DEF Writer
  <2>7. \A i \in 1 .. n : offsets[i] = final[i].at /\ names[i] = final[i].name
    BY <1>3, <2>3, <2>4 DEF Busy, Lists
  <2>8. \A i, j \in 1 .. n : names[i] = names[j] => i = j
    <3>1. \A i, j \in 1 .. n + 1 : writer.names[i] = writer.names[j] => i = j
      BY <1>3 DEF Busy, Lists
    <3>2. \A i \in 1 .. n : i \in 1 .. n + 1  BY <1>2
    <3> QED BY <2>4, <3>1, <3>2
  <2>9. Idle(writer', builder', final')
    BY <1>4, <2>1, <2>3, <2>4, <2>5, <2>7, <2>8 DEF Idle, Lists
  <2> QED BY <1>1, <1>2, <1>4, <2>1, <2>2, <2>5, <2>6, <2>9 DEF TableInv
<1> QED BY <1>1, <1>7, <1>8

LEMMA GoneKeeps ==
  ASSUME TableInv, NEW ws, Gone(ws)
  PROVE  TableInv'
<1>1. /\ writer' = [open |-> FALSE, offsets |-> <<>>, names |-> <<>>, active |-> FALSE]
      /\ builder' = NoBuilder /\ pos' = 0 /\ final' = final /\ builds' = builds
  BY DEF Gone
<1>2. writer' \in Writer /\ builder' \in Builder
  BY <1>1, EmptySeq DEF Writer, Builder, NoBuilder
<1> QED BY <1>1, <1>2 DEF TableInv, NoBuilder

LEMMA AddsKeep ==
  ASSUME TableInv, AddValue \/ AddKeyEntry \/ AddEntry
  PROVE  TableInv'
<1>1. pos \in Nat  BY DEF TableInv
<1>2. UNCHANGED <<writer, final, builds>> /\ pos' \in Nat
  BY <1>1 DEF AddValue, AddKeyEntry, AddEntry, BlockSaved
<1>3. builder' = builder \/ builder' = [builder EXCEPT !.empty = FALSE]
  BY DEF AddValue, AddKeyEntry, AddEntry, KeyAdded
<1> QED BY <1>2, <1>3, ListsKept

LEMMA ReadsKeep ==
  ASSUME TableInv, ReadStep
  PROVE  TableInv'
<1>1. UNCHANGED <<writer, builder, builds, pos, final>>
  BY DEF ReadStep, ReaderNext, ReaderOpen, ReaderClose, DbOpen, DbOpenFirst,
         ValueEntryFetch, DbClose
<1> QED BY <1>1, ListsKept DEF TableInv

LEMMA TableStep == TableInv /\ [Next]_vars => TableInv'
<1> SUFFICES ASSUME TableInv, [Next]_vars PROVE TableInv'  OBVIOUS
<1>1. ASSUME NEW name \in Name, NEW metadata \in BOOLEAN, BuilderCreate(name, metadata)
      PROVE  TableInv'
  BY <1>1, CreateKeeps
<1>2. CASE AddValue \/ AddKeyEntry \/ AddEntry  BY <1>2, AddsKeep
<1>3. CASE BuilderFinalize  BY <1>3, FinalizeKeeps
<1>4. CASE WriterClose  BY <1>4, GoneKeeps DEF WriterClose
<1>5. CASE Crash  BY <1>5, GoneKeeps DEF Crash
<1>6. CASE ReadStep  BY <1>6, ReadsKeep
<1>7. CASE UNCHANGED vars
  <2>1. UNCHANGED <<writer, final, builds, pos, builder>>
    BY <1>7 DEF vars, writerVars
  <2> QED BY <2>1, ListsKept DEF TableInv
<1> QED BY <1>1, <1>2, <1>3, <1>4, <1>5, <1>6, <1>7 DEF Next, WriteStep, WriterNext

\* At every moment the writer's two parallel lists hold exactly the databases
\* finalized so far and the active one, whatever failed and was taken back:
\* udx_db_builder_create_with_metadata and udx_db_builder_finalize.
THEOREM TableOfFinalsHolds == Spec => []TableOfFinals
BY TableInit, TableStep, TableInvImplies, PTL DEF Spec

-----------------------------------------------------------------------------
(* What writes do to a file.                                                *)

\* Writes of any length behind one another at pos, or none.
Consecutive(ws, k) ==
  /\ Len(ws) = k
  /\ \A i \in 1 .. k : ws[i].at = pos + i - 1 /\ ws[i].cell \in Cell

\* The cells p < limit of a file are still there in another.
Same(f, g, limit) == Len(f) <= Len(g) /\ \A p \in 1 .. limit - 1 : g[p] = f[p]

LEMMA OnlyWrite ==
  ASSUME NEW ws, NEW k \in Nat, Len(ws) = k, NEW i \in 1 .. k,
         \A j \in 1 .. k : ws[j].at = ws[i].at => j = i
  PROVE  WritesTo(ws, ws[i].at) = {i} /\ LastTo(ws, ws[i].at) = i
<1>1. WritesTo(ws, ws[i].at) = {i}  BY DEF WritesTo
<1> QED BY <1>1 DEF LastTo

LEMMA SeqOfFunction ==
  ASSUME NEW S, NEW m \in Nat, NEW f \in [1 .. m -> S]
  PROVE  f \in Seq(S) /\ Len(f) = m
<1>1. f \in Seq(S)  BY SeqDef
<1> QED BY <1>1, LenProperties

LEMMA AfterConsecutive ==
  ASSUME file \in Seq(Cell), NEW ws, NEW k \in Nat, Consecutive(ws, k),
         pos \in 1 .. Len(file) + 1
  PROVE  /\ After(ws) \in Seq(Cell)
         /\ Len(After(ws)) \in Nat /\ pos + k <= Len(After(ws)) + 1
         /\ Same(file, After(ws), pos)
         /\ \A i \in 1 .. k : After(ws)[pos + i - 1] = ws[i].cell
<1> DEFINE m == IF pos + k - 1 > Len(file) THEN pos + k - 1 ELSE Len(file)
<1>1. Len(file) \in Nat /\ \A p \in 1 .. Len(file) : file[p] \in Cell
  BY LenProperties, ElementOfSeq
<1>2. m \in Nat /\ Len(file) <= m /\ pos + k - 1 <= m  BY <1>1
<1>3. Positions(ws) = 1 .. m
  <2>1. ASSUME NEW p \in Positions(ws) PROVE p \in 1 .. m
    BY <1>1, <1>2 DEF Positions, Consecutive
  <2>2. ASSUME NEW p \in 1 .. m, p \notin 1 .. Len(file) PROVE p \in Positions(ws)
    <3>1. p - pos + 1 \in 1 .. k  BY <1>1, <1>2, <2>2
    <3>2. ws[p - pos + 1].at = pos + (p - pos + 1) - 1  BY <3>1 DEF Consecutive
    <3>3. pos + (p - pos + 1) - 1 = p  BY <1>1
    <3> QED BY <3>1, <3>2, <3>3 DEF Positions, Consecutive
  <2> QED BY <2>1, <2>2 DEF Positions
<1>4. \A i \in 1 .. k : WritesTo(ws, pos + i - 1) = {i} /\ LastTo(ws, pos + i - 1) = i
  <2> TAKE i \in 1 .. k
  <2>1. \A j \in 1 .. k : ws[j].at = ws[i].at => j = i
    BY <1>1 DEF Consecutive
  <2>2. Len(ws) = k /\ ws[i].at = pos + i - 1  BY DEF Consecutive
  <2> QED BY <2>1, <2>2, OnlyWrite
<1>5. \A p \in 1 .. m : p \notin pos .. pos + k - 1 => WritesTo(ws, p) = {}
  BY <1>1 DEF WritesTo, Consecutive
<1> DEFINE e(p) == IF WritesTo(ws, p) = {} THEN file[p] ELSE ws[LastTo(ws, p)].cell
<1>6. After(ws) = [p \in 1 .. m |-> e(p)]
  BY <1>3 DEF After
<1>7. \A i \in 1 .. k : e(pos + i - 1) = ws[i].cell
  BY <1>4
<1>8. \A p \in 1 .. m : p \notin pos .. pos + k - 1 => p \in 1 .. Len(file) /\ e(p) = file[p]
  BY <1>1, <1>5
<1>9. \A p \in 1 .. m : e(p) \in Cell
  <2> TAKE p \in 1 .. m
  <2>1. CASE p \in pos .. pos + k - 1
    <3>1. p - pos + 1 \in 1 .. k /\ pos + (p - pos + 1) - 1 = p  BY <1>1, <2>1
    <3>2. e(p) = ws[p - pos + 1].cell  BY <1>7, <3>1
    <3> QED BY <3>1, <3>2 DEF Consecutive
  <2>2. CASE p \notin pos .. pos + k - 1  BY <1>1, <1>8, <2>2
  <2> QED BY <2>1, <2>2
<1> HIDE DEF e, m
<1>10. After(ws) \in [1 .. m -> Cell]  BY <1>6, <1>9
<1>11. After(ws) \in Seq(Cell) /\ Len(After(ws)) = m  BY <1>2, <1>10, SeqOfFunction
<1>12. \A i \in 1 .. k : After(ws)[pos + i - 1] = ws[i].cell
  <2> TAKE i \in 1 .. k
  <2>1. pos + i - 1 \in 1 .. m  BY <1>1, <1>2
  <2> QED BY <2>1, <1>6, <1>7
<1>13. \A p \in 1 .. pos - 1 : After(ws)[p] = file[p]
  <2> TAKE p \in 1 .. pos - 1
  <2>1. p \in 1 .. m /\ p \notin pos .. pos + k - 1  BY <1>1, <1>2
  <2> QED BY <2>1, <1>6, <1>8
<1> QED BY <1>1, <1>2, <1>11, <1>12, <1>13 DEF Same

\* The chunk table and the index at pos, and a header back at the builder's
\* position.
Finalizing(ws, cell) ==
  /\ Len(ws) = 3
  /\ ws[1].at = pos /\ ws[1].cell = Data(builder.id)
  /\ ws[2].at = pos + 1 /\ ws[2].cell = Data(builder.id)
  /\ ws[3].at = builder.at /\ ws[3].cell = cell

OneWrite == [at : Int, cell : Cell]

WritesOf(ws, at, cells) ==
  /\ ws \in Seq(OneWrite) /\ Len(ws) = Len(cells)
  /\ \A i \in 1 .. Len(cells) : ws[i].at = at + i - 1 /\ ws[i].cell = cells[i]

LEMMA WritesProperties ==
  ASSUME NEW at \in Nat, NEW cells \in Seq(Cell), NEW ws, ws = Writes(at, cells)
  PROVE  WritesOf(ws, at, cells)
<1> DEFINE n == Len(cells)
<1>1. ws = [i \in 1 .. n |-> [at |-> at + i - 1, cell |-> cells[i]]]
  BY DEF Writes
<1>2. n \in Nat /\ \A i \in 1 .. n : cells[i] \in Cell
  BY LenProperties, ElementOfSeq
<1> HIDE DEF n
<1>3. \A i \in 1 .. n : [at |-> at + i - 1, cell |-> cells[i]] \in OneWrite
  BY <1>2 DEF OneWrite
<1>4. ws \in [1 .. n -> OneWrite]
  BY <1>1, <1>3
<1>5. ws \in Seq(OneWrite) /\ Len(ws) = n
  BY <1>2, <1>4, SeqOfFunction
<1>6. \A i \in 1 .. n : ws[i].at = at + i - 1 /\ ws[i].cell = cells[i]
  BY <1>1
<1> QED BY <1>5, <1>6 DEF n, WritesOf

LEMMA BodyWrites ==
  ASSUME pos \in Nat, builder.id \in Nat
  PROVE  /\ Body \in Seq(OneWrite) /\ Len(Body) = 2
         /\ Body[1].at = pos /\ Body[1].cell = Data(builder.id)
         /\ Body[2].at = pos + 1 /\ Body[2].cell = Data(builder.id)
<1> DEFINE cells == <<Data(builder.id), Data(builder.id)>>
<1>1. Data(builder.id) \in Cell  BY DEF Data, Cell
<1>2. /\ cells \in Seq(Cell) /\ Len(cells) = 2
      /\ cells[1] = Data(builder.id) /\ cells[2] = Data(builder.id)
  BY <1>1
<1>3. Body = Writes(pos, cells)  BY DEF Body
<1> HIDE DEF cells
<1>4. WritesOf(Body, pos, cells)
  BY <1>2, <1>3, WritesProperties, Zenon
<1>5. 1 \in 1 .. Len(cells) /\ 2 \in 1 .. Len(cells)  BY <1>2
<1> QED BY <1>2, <1>4, <1>5 DEF WritesOf

LEMMA TwoAndOne ==
  ASSUME NEW S, NEW s \in Seq(S), NEW t \in Seq(S), Len(s) = 2, Len(t) = 1
  PROVE  /\ Len(s \o t) = 3
         /\ (s \o t)[1] = s[1] /\ (s \o t)[2] = s[2] /\ (s \o t)[3] = t[1]
<1> DEFINE u == s \o t
<1>1. /\ Len(u) = Len(s) + Len(t)
      /\ \A i \in 1 .. Len(s) + Len(t) : u[i] = IF i <= Len(s) THEN s[i] ELSE t[i - Len(s)]
  BY ConcatProperties, Zenon
<1> HIDE DEF u
<1>2. Len(u) = 3 /\ u[1] = s[1] /\ u[2] = s[2] /\ u[3] = t[1]
  BY <1>1
<1> QED BY <1>2 DEF u

LEMMA FinalizingWrites ==
  ASSUME pos \in Nat, builder.id \in Nat, builder.at \in Nat, NEW cell \in Cell
  PROVE  Finalizing(Body \o Writes(builder.at, <<cell>>), cell)
<1> DEFINE header == <<cell>>
           head == Writes(builder.at, header)
           ws == Body \o head
<1>1. header \in Seq(Cell) /\ Len(header) = 1 /\ header[1] = cell
  OBVIOUS
<1> HIDE DEF header
<1>2. WritesOf(head, builder.at, header)
  BY <1>1, WritesProperties
<1>3. head[1].at = builder.at /\ head[1].cell = cell
  BY <1>1, <1>2 DEF WritesOf
<1>4. Body \in Seq(OneWrite) /\ Len(Body) = 2  BY BodyWrites
<1> HIDE DEF head
<1>5. head \in Seq(OneWrite) /\ Len(head) = 1  BY <1>1, <1>2 DEF WritesOf
<1>6. Len(ws) = 3 /\ ws[1] = Body[1] /\ ws[2] = Body[2] /\ ws[3] = head[1]
  BY <1>4, <1>5, TwoAndOne
<1> HIDE DEF ws
<1>7. Finalizing(ws, cell)
  BY <1>3, <1>6, BodyWrites DEF Finalizing
<1> QED BY <1>7 DEF ws, head, header

LEMMA AfterFinalizing ==
  ASSUME file \in Seq(Cell), pos \in 1 .. Len(file) + 1, builder.id \in Nat,
         builder.at \in 1 .. pos - 1, NEW cell \in Cell,
         NEW ws, Finalizing(ws, cell), NEW image, image = After(ws)
  PROVE  /\ image \in Seq(Cell)
         /\ Len(image) \in Nat /\ pos + 2 <= Len(image) + 1
         /\ Same(file, image, builder.at)
         /\ image[builder.at] = cell
         /\ \A p \in builder.at + 1 .. pos - 1 : image[p] = file[p]
         /\ image[pos] = Data(builder.id) /\ image[pos + 1] = Data(builder.id)
<1> DEFINE m == IF pos + 1 > Len(file) THEN pos + 1 ELSE Len(file)
           e(p) == IF WritesTo(ws, p) = {} THEN file[p] ELSE ws[LastTo(ws, p)].cell
<1>1. Len(file) \in Nat /\ \A p \in 1 .. Len(file) : file[p] \in Cell
  BY LenProperties, ElementOfSeq
<1>2. /\ Len(ws) = 3
      /\ ws[1].at = pos /\ ws[2].at = pos + 1 /\ ws[3].at = builder.at
      /\ ws[1].cell = Data(builder.id) /\ ws[2].cell = Data(builder.id)
      /\ ws[3].cell = cell
  BY DEF Finalizing
<1>3. m \in Nat /\ Len(file) <= m /\ pos + 1 <= m  BY <1>1
<1>4. Positions(ws) = 1 .. m
  <2>1. {ws[i].at : i \in 1 .. Len(ws)} = {pos, pos + 1, builder.at}
    BY <1>2
  <2>2. 1 .. Len(file) \cup {pos, pos + 1, builder.at} = 1 .. m
    BY <1>1
  <2> HIDE DEF m
  <2> QED BY <2>1, <2>2 DEF Positions
<1>5. \A i \in 1 .. 3 : WritesTo(ws, ws[i].at) = {i} /\ LastTo(ws, ws[i].at) = i
  <2> SUFFICES ASSUME NEW i \in 1 .. 3
               PROVE  WritesTo(ws, ws[i].at) = {i} /\ LastTo(ws, ws[i].at) = i
    OBVIOUS
  <2>1. \A j \in 1 .. 3 : ws[j].at = ws[i].at => j = i
    <3> SUFFICES ASSUME NEW j \in 1 .. 3, ws[j].at = ws[i].at PROVE j = i
      OBVIOUS
    <3>1. i \in {1, 2, 3} /\ j \in {1, 2, 3}  OBVIOUS
    <3> QED BY <1>1, <1>2, <3>1
  <2>2. 3 \in Nat  OBVIOUS
  <2> QED BY <2>1, <2>2, <1>2, OnlyWrite
<1>6. /\ e(pos) = Data(builder.id) /\ e(pos + 1) = Data(builder.id)
      /\ e(builder.at) = cell
  <2>1. /\ WritesTo(ws, pos) = {1} /\ LastTo(ws, pos) = 1
        /\ WritesTo(ws, pos + 1) = {2} /\ LastTo(ws, pos + 1) = 2
        /\ WritesTo(ws, builder.at) = {3} /\ LastTo(ws, builder.at) = 3
    BY <1>2, <1>5
  <2> QED BY <2>1, <1>2
<1>7. \A p \in 1 .. m : p \notin {pos, pos + 1, builder.at}
                          => p \in 1 .. Len(file) /\ e(p) = file[p]
  <2> SUFFICES ASSUME NEW p \in 1 .. m, p \notin {pos, pos + 1, builder.at}
               PROVE  p \in 1 .. Len(file) /\ e(p) = file[p]
    OBVIOUS
  <2>1. p \in 1 .. Len(file)  BY <1>1
  <2>2. WritesTo(ws, p) = {}
    <3>1. \A i \in 1 .. 3 : i = 1 \/ i = 2 \/ i = 3  OBVIOUS
    <3> QED BY <3>1, <1>2 DEF WritesTo
  <2> QED BY <2>1, <2>2
<1>8. Data(builder.id) \in Cell  BY DEF Data, Cell
<1>9. image = [p \in 1 .. m |-> e(p)]
  BY <1>4 DEF After
<1> HIDE DEF e, m
<1>10. \A p \in 1 .. m : e(p) \in Cell
  BY <1>1, <1>6, <1>7, <1>8
<1>11. image \in [1 .. m -> Cell]  BY <1>9, <1>10
<1>12. image \in Seq(Cell) /\ Len(image) = m  BY <1>3, <1>11, SeqOfFunction
<1>13. \A p \in 1 .. m : image[p] = e(p)  BY <1>9
<1>14. /\ image[pos] = Data(builder.id) /\ image[pos + 1] = Data(builder.id)
       /\ image[builder.at] = cell
  <2>1. pos \in 1 .. m /\ pos + 1 \in 1 .. m /\ builder.at \in 1 .. m
    BY <1>1, <1>3
  <2> QED BY <2>1, <1>6, <1>13
<1>15. \A p \in 1 .. pos - 1 : p # builder.at => image[p] = file[p]
  <2> SUFFICES ASSUME NEW p \in 1 .. pos - 1, p # builder.at PROVE image[p] = file[p]
    OBVIOUS
  <2>1. p \in 1 .. m /\ p \notin {pos, pos + 1, builder.at}  BY <1>1, <1>3
  <2> QED BY <2>1, <1>7, <1>13
<1>16. \A p \in builder.at + 1 .. pos - 1 : image[p] = file[p]
  <2> SUFFICES ASSUME NEW p \in builder.at + 1 .. pos - 1 PROVE image[p] = file[p]
    OBVIOUS
  <2>1. p \in 1 .. pos - 1 /\ p # builder.at  BY <1>1
  <2> QED BY <2>1, <1>15
<1>17. Same(file, image, builder.at)
  <2>1. \A p \in 1 .. builder.at - 1 : p \in 1 .. pos - 1 /\ p # builder.at  BY <1>1
  <2> QED BY <2>1, <1>3, <1>12, <1>15 DEF Same
<1> QED BY <1>1, <1>3, <1>12, <1>14, <1>16, <1>17

-----------------------------------------------------------------------------
(* Finalized databases in the file.                                         *)

\* A finalized database lies before limit.
Before(image, f, limit) == Intact(image, f.at, f.id) /\ image[f.at].last < limit

\* While the writer is open: positions leave no gap, the active builder's
\* cells are its own, and the finalized databases lie before the active
\* builder, or else before the position.
Layout ==
  /\ file \in Seq(Cell)
  /\ pos \in 2 .. Len(file) + 1
  /\ builder.open =>
       /\ builder.at \in 2 .. pos - 1
       /\ \A p \in builder.at + 1 .. pos - 1 : file[p].id = builder.id
  /\ \A i \in Finals : Before(file, final[i], IF builder.open THEN builder.at ELSE pos)

FileInv == TableInv /\ (writer.open => Layout)

LEMMA BeforeKept ==
  ASSUME NEW image, NEW other, NEW f, NEW limit \in Nat, NEW later \in Nat,
         Len(image) \in Nat, Len(other) \in Nat, limit <= later,
         Same(image, other, limit), Before(image, f, limit)
  PROVE  Before(other, f, later)
<1> DEFINE at == f.at
           last == image[at].last
<1>1. /\ at \in 1 .. Len(image) /\ last \in at + 1 .. Len(image) /\ last < limit
      /\ image[at].kind = "header" /\ image[at].id = f.id
      /\ \A p \in at + 1 .. last : image[p].id = f.id
  BY DEF Before, Intact
<1>2. Len(image) <= Len(other) /\ \A p \in 1 .. limit - 1 : other[p] = image[p]
  BY DEF Same
<1> HIDE DEF at
<1>3. other[at] = image[at]
  <2>1. at \in 1 .. limit - 1  BY <1>1
  <2> QED BY <2>1, <1>2
<1> HIDE DEF last
<1>4. \A p \in at + 1 .. last : other[p].id = f.id
  <2> SUFFICES ASSUME NEW p \in at + 1 .. last PROVE other[p].id = f.id  OBVIOUS
  <2>1. p \in 1 .. limit - 1  BY <1>1
  <2> QED BY <2>1, <1>1, <1>2
<1>5. at \in 1 .. Len(other) /\ last \in at + 1 .. Len(other) /\ last < later
  BY <1>1, <1>2
<1>6. other[at].last = last  BY <1>3 DEF last
<1> QED BY <1>1, <1>3, <1>4, <1>5, <1>6 DEF Before, Intact, at

LEMMA FileInit == Init => FileInv
<1> SUFFICES ASSUME Init PROVE FileInv  OBVIOUS
<1>1. file = <<Main(0, 0)>> /\ pos = 2 /\ builder = NoBuilder /\ final = <<>>
  BY DEF Init, WriterInit
<1>2. Main(0, 0) \in Cell  BY DEF Main, Cell
<1>3. file \in Seq(Cell) /\ Len(file) = 1  BY <1>1, <1>2
<1>4. Len(final) = 0  BY <1>1, EmptySeq
<1>5. Layout  BY <1>1, <1>3, <1>4 DEF Layout, NoBuilder, Finals
<1> QED BY <1>5, TableInit DEF FileInv

-----------------------------------------------------------------------------
(* The steps.                                                               *)

\* Where the cells begin that no finalized database refers to.
Limit == IF builder.open THEN builder.at ELSE pos

LEMMA LimitProperties ==
  ASSUME TableInv, Layout
  PROVE  /\ Limit \in 2 .. pos /\ pos \in Nat /\ Len(file) \in Nat
         /\ builder.id \in Nat /\ builder.at \in Nat
         /\ \A i \in Finals : Before(file, final[i], Limit)
<1>1. /\ Len(file) \in Nat /\ pos \in Nat /\ pos \in 2 .. Len(file) + 1
      /\ builder.id \in Nat /\ builder.at \in Nat
      /\ builder.open => builder.at \in 2 .. pos - 1
  BY LenProperties DEF TableInv, Layout, Builder
<1>2. Limit \in 2 .. pos  BY <1>1 DEF Limit
<1> QED BY <1>1, <1>2 DEF Layout, Limit

LEMMA FinalsKept ==
  ASSUME TableInv, Layout, NEW image \in Seq(Cell), Same(file, image, Limit),
         NEW later \in Nat, Limit <= later
  PROVE  \A i \in Finals : Before(image, final[i], later)
<1> SUFFICES ASSUME NEW i \in Finals PROVE Before(image, final[i], later)
  OBVIOUS
<1>1. Limit \in Nat /\ Len(file) \in Nat /\ Before(file, final[i], Limit)
  BY LimitProperties
<1>2. Len(image) \in Nat  BY LenProperties
<1> DEFINE f == final[i]
           limit == Limit
           old == file
<1>3. limit \in Nat /\ Len(old) \in Nat /\ Before(old, f, limit) /\ limit <= later
      /\ Same(old, image, limit)
  BY <1>1
<1> HIDE DEF f, limit, old
<1>4. Before(image, f, later)  BY <1>2, <1>3, BeforeKept
<1> QED BY <1>4 DEF f

\* A step after which there is no builder: the finalized databases remain, and
\* the position is not before what they refer to.
LEMMA NoBuilderAfter ==
  ASSUME TableInv, Layout, file' \in Seq(Cell), Same(file, file', Limit),
         pos' \in Limit .. Len(file') + 1, ~builder'.open, final' = final
  PROVE  Layout'
<1>1. Limit \in 2 .. pos /\ pos \in Nat  BY LimitProperties
<1>2. Len(file') \in Nat  BY LenProperties
<1>3. pos' \in Nat /\ Limit <= pos' /\ pos' \in 2 .. Len(file') + 1
  BY <1>1, <1>2
<1>4. \A i \in Finals : Before(file', final[i], pos')
  BY <1>3, FinalsKept
<1> QED BY <1>3, <1>4 DEF Layout, Finals

LEMMA CellsConsecutive ==
  ASSUME pos \in Nat, NEW cells \in Seq(Cell), NEW ws, ws = Writes(pos, cells)
  PROVE  /\ Consecutive(ws, Len(cells)) /\ ws \in Seq(OneWrite)
         /\ \A i \in 1 .. Len(cells) : ws[i].cell = cells[i]
<1>1. WritesOf(ws, pos, cells)  BY WritesProperties, Zenon
<1>2. \A i \in 1 .. Len(cells) : cells[i] \in Cell  BY ElementOfSeq
<1> QED BY <1>1, <1>2 DEF WritesOf, Consecutive

LEMMA FirstConsecutive ==
  ASSUME NEW ws \in Seq(OneWrite), NEW n \in Nat, Consecutive(ws, n),
         NEW k \in 0 .. n, NEW first, first = FirstOf(ws, k)
  PROVE  Consecutive(first, k)
<1>1. Len(ws) = n /\ \A i \in 1 .. n : ws[i].at = pos + i - 1 /\ ws[i].cell \in Cell
  BY DEF Consecutive
<1>2. \A i \in 1 .. k : ws[i] \in OneWrite
  BY <1>1, ElementOfSeq
<1>3. /\ Len(SubSeq(ws, 1, k)) = IF 1 <= k THEN k - 1 + 1 ELSE 0
      /\ \A i \in 1 .. k - 1 + 1 : SubSeq(ws, 1, k)[i] = ws[1 + i - 1]
  BY <1>2, SubSeqProperties
<1>4. first = SubSeq(ws, 1, k)  BY DEF FirstOf
<1>5. Len(first) = k /\ \A i \in 1 .. k : first[i] = ws[i]
  BY <1>3, <1>4
<1> QED BY <1>1, <1>5 DEF Consecutive

LEMMA BodyConsecutive ==
  ASSUME pos \in Nat, builder.id \in Nat
  PROVE  Body \in Seq(OneWrite) /\ Consecutive(Body, 2)
<1>1. Data(builder.id) \in Cell  BY DEF Data, Cell
<1>2. \A i \in 1 .. 2 : i = 1 \/ i = 2  OBVIOUS
<1> QED BY <1>1, <1>2, BodyWrites DEF Consecutive

LEMMA LessIsSame ==
  ASSUME NEW f, NEW g, NEW a \in Nat, NEW b \in Nat, a <= b, Same(f, g, b)
  PROVE  Same(f, g, a)
BY DEF Same

\* Some of the writes of a call that fails, with no builder behind them.
LEMMA PartLeft ==
  ASSUME TableInv, Layout, NEW ws, NEW k \in Nat, Consecutive(ws, k),
         file' = After(ws), pos' \in Limit .. pos + k,
         ~builder'.open, final' = final
  PROVE  Layout'
<1>1. Limit \in 2 .. pos /\ pos \in Nat /\ Len(file) \in Nat  BY LimitProperties
<1>2. file \in Seq(Cell) /\ pos \in 1 .. Len(file) + 1  BY <1>1 DEF Layout
<1>3. /\ After(ws) \in Seq(Cell) /\ Len(After(ws)) \in Nat
      /\ pos + k <= Len(After(ws)) + 1 /\ Same(file, After(ws), pos)
  BY <1>2, AfterConsecutive
<1>4. Same(file, file', Limit)
  BY <1>1, <1>3, LessIsSame
<1>5. pos' \in Limit .. Len(file') + 1  BY <1>1, <1>3
<1> QED BY <1>3, <1>4, <1>5, NoBuilderAfter

LEMMA CreateCells ==
  ASSUME TableInv, NEW metadata \in BOOLEAN, NEW cells,
         cells = IF metadata THEN <<Zeros(Id), Data(Id)>> ELSE <<Zeros(Id)>>
  PROVE  /\ cells \in Seq(Cell) /\ Len(cells) \in 1 .. 2
         /\ \A i \in 1 .. Len(cells) : cells[i].id = Id
<1>1. Id \in Nat  BY DEF TableInv, Id
<1>2. /\ Zeros(Id) \in Cell /\ Data(Id) \in Cell
      /\ Zeros(Id).id = Id /\ Data(Id).id = Id
  BY <1>1 DEF Zeros, Data, Cell
<1> DEFINE zeros == Zeros(Id)
           data == Data(Id)
<1>3. zeros \in Cell /\ data \in Cell /\ zeros.id = Id /\ data.id = Id
  BY <1>2
<1>4. cells = IF metadata THEN <<zeros, data>> ELSE <<zeros>>
  OBVIOUS
<1> HIDE DEF zeros, data
<1>5. CASE metadata
  <2>1. /\ cells \in Seq(Cell) /\ Len(cells) = 2 /\ cells[1] = zeros /\ cells[2] = data
    BY <1>3, <1>4, <1>5
  <2>2. \A i \in 1 .. 2 : i = 1 \/ i = 2  OBVIOUS
  <2> QED BY <1>3, <2>1, <2>2
<1>6. CASE ~metadata
  <2>1. /\ cells \in Seq(Cell) /\ Len(cells) = 1 /\ cells[1] = zeros
    BY <1>3, <1>4, <1>6
  <2> QED BY <1>3, <2>1
<1> QED BY <1>5, <1>6

LEMMA CreateLayout ==
  ASSUME TableInv, Layout, ~builder.open, NEW name \in Name, NEW metadata \in BOOLEAN,
         BuilderCreate(name, metadata)
  PROVE  Layout'
<1> DEFINE cells == IF metadata THEN <<Zeros(Id), Data(Id)>> ELSE <<Zeros(Id)>>
           ws == Writes(pos, cells)
           n == Len(cells)
<1>1. final' = final /\ (BuilderCreates(name, cells) \/ BuilderNotCreated(cells))
  BY DEF BuilderCreate
<1>2. /\ cells \in Seq(Cell) /\ n \in 1 .. 2
      /\ \A i \in 1 .. n : cells[i].id = Id
  BY CreateCells
<1> HIDE DEF cells
<1>3. pos \in Nat /\ Len(file) \in Nat /\ Limit = pos /\ pos \in 2 .. Len(file) + 1
  BY LimitProperties DEF Limit, Layout
<1>4. /\ Consecutive(ws, n) /\ ws \in Seq(OneWrite)
      /\ \A i \in 1 .. n : ws[i].cell = cells[i]
  BY <1>2, <1>3, CellsConsecutive
<1>5. CASE BuilderCreates(name, cells)
  <2>1. /\ file' = After(ws) /\ pos' = pos + n
        /\ builder' = [open |-> TRUE, id |-> Id, at |-> pos, empty |-> TRUE]
    BY <1>5 DEF BuilderCreates, Write
  <2> HIDE DEF ws, n
  <2>2. /\ file' \in Seq(Cell) /\ Len(file') \in Nat
        /\ pos + n <= Len(file') + 1 /\ Same(file, file', pos)
        /\ \A i \in 1 .. n : file'[pos + i - 1] = ws[i].cell
    <3>1. file \in Seq(Cell) /\ pos \in 1 .. Len(file) + 1 /\ n \in Nat
      BY <1>2, <1>3 DEF Layout
    <3>2. /\ After(ws) \in Seq(Cell) /\ Len(After(ws)) \in Nat
          /\ pos + n <= Len(After(ws)) + 1 /\ Same(file, After(ws), pos)
          /\ \A i \in 1 .. n : After(ws)[pos + i - 1] = ws[i].cell
      BY <1>4, <3>1, AfterConsecutive
    <3> QED BY <2>1, <3>2
  <2>3. \A p \in pos + 1 .. pos + n - 1 : file'[p].id = Id
    <3> SUFFICES ASSUME NEW p \in pos + 1 .. pos + n - 1 PROVE file'[p].id = Id
      OBVIOUS
    <3>1. p - pos + 1 \in 1 .. n /\ pos + (p - pos + 1) - 1 = p  BY <1>2, <1>3
    <3> QED BY <3>1, <1>2, <1>4, <2>2
  <2>4. pos' \in 2 .. Len(file') + 1 /\ pos \in 2 .. pos' - 1
    BY <1>2, <1>3, <2>1, <2>2
  <2>5. \A i \in Finals : Before(file', final[i], pos)
    BY <1>3, <2>2, FinalsKept
  <2>6. builder'.open /\ builder'.at = pos /\ builder'.id = Id  BY <2>1
  <2>7. \A p \in builder'.at + 1 .. pos' - 1 : file'[p].id = builder'.id
    <3>1. builder'.at + 1 = pos + 1 /\ pos' - 1 = pos + n - 1
      BY <1>2, <1>3, <2>1, <2>6
    <3> QED BY <2>3, <2>6, <3>1
  <2>8. \A i \in 1 .. Len(final') :
          Before(file', final'[i], IF builder'.open THEN builder'.at ELSE pos')
    BY <1>1, <2>5, <2>6 DEF Finals
  <2>9. builder'.open => builder'.at \in 2 .. pos' - 1
    BY <2>4, <2>6
  <2> QED BY <2>2, <2>4, <2>7, <2>8, <2>9 DEF Layout, Finals
<1>6. CASE BuilderNotCreated(cells)
  <2>1. PICK k \in 0 .. n : Write(FirstOf(ws, k)) /\ pos' \in {pos, pos + k}
    BY <1>6 DEF BuilderNotCreated
  <2>2. Consecutive(FirstOf(ws, k), k)
    BY <1>2, <1>4, FirstConsecutive
  <2>3. file' = After(FirstOf(ws, k)) /\ builder' = builder /\ k \in Nat
    BY <1>2, <1>6, <2>1 DEF Write, BuilderNotCreated
  <2>4. pos' \in Limit .. pos + k  BY <1>3, <2>1, <2>3
  <2> QED BY <1>1, <2>2, <2>3, <2>4, PartLeft
<1> QED BY <1>1, <1>5, <1>6

\* A step that keeps file and position, and where the builder's cells are.
LEMMA NothingWritten ==
  ASSUME Layout, UNCHANGED <<file, pos, final>>,
         builder'.open = builder.open, builder'.at = builder.at, builder'.id = builder.id
  PROVE  Layout'
BY DEF Layout, Finals

LEMMA AddsLayout ==
  ASSUME TableInv, Layout, AddValue \/ AddKeyEntry \/ AddEntry
  PROVE  Layout'
<1>1. /\ builder.open /\ final' = final
      /\ builder'.open = builder.open /\ builder'.at = builder.at
      /\ builder'.id = builder.id
  BY DEF AddValue, AddKeyEntry, AddEntry, KeyAdded, TableInv, Builder
<1>2. CASE UNCHANGED <<file, pos>>  BY <1>1, <1>2, NothingWritten
<1>3. CASE /\ pos' = pos + 1
           /\ Write(Writes(pos, <<Data(builder.id)>>))
  <2> DEFINE data == Data(builder.id)
             cells == <<data>>
             ws == Writes(pos, cells)
  <2>1. /\ Limit = builder.at /\ Limit \in Nat /\ pos \in Nat /\ Len(file) \in Nat
        /\ builder.id \in Nat /\ pos \in 2 .. Len(file) + 1
        /\ builder.at \in 2 .. pos - 1
    BY <1>1, LimitProperties DEF Limit, Layout
  <2>2. data \in Cell /\ data.id = builder.id  BY <2>1 DEF Data, Cell
  <2>3. file' = After(ws)  BY <1>3 DEF Write
  <2> HIDE DEF data
  <2>4. cells \in Seq(Cell) /\ Len(cells) = 1 /\ cells[1] = data  BY <2>2
  <2> HIDE DEF cells
  <2>5. Consecutive(ws, 1) /\ ws[1].cell = data
    <3>1. /\ Consecutive(ws, Len(cells))
          /\ \A i \in 1 .. Len(cells) : ws[i].cell = cells[i]
      BY <2>1, <2>4, CellsConsecutive
    <3> QED BY <3>1, <2>4
  <2> HIDE DEF ws
  <2>6. /\ file' \in Seq(Cell) /\ Len(file') \in Nat
        /\ pos + 1 <= Len(file') + 1 /\ Same(file, file', pos)
        /\ file'[pos] = data
    <3>1. file \in Seq(Cell) /\ pos \in 1 .. Len(file) + 1
      BY <2>1 DEF Layout
    <3>2. /\ After(ws) \in Seq(Cell) /\ Len(After(ws)) \in Nat
          /\ pos + 1 <= Len(After(ws)) + 1 /\ Same(file, After(ws), pos)
          /\ \A i \in 1 .. 1 : After(ws)[pos + i - 1] = ws[i].cell
      BY <2>5, <3>1, AfterConsecutive
    <3>3. After(ws)[pos] = ws[1].cell
      <4>1. pos + 1 - 1 = pos /\ 1 \in 1 .. 1  BY <2>1
      <4> QED BY <4>1, <3>2
    <3> QED BY <2>3, <2>5, <3>2, <3>3
  <2>7. \A p \in builder.at + 1 .. pos : file'[p].id = builder.id
    <3> SUFFICES ASSUME NEW p \in builder.at + 1 .. pos PROVE file'[p].id = builder.id
      OBVIOUS
    <3>1. CASE p = pos  BY <3>1, <2>2, <2>6
    <3>2. CASE p # pos
      <4>1. p \in 1 .. pos - 1 /\ p \in builder.at + 1 .. pos - 1  BY <2>1, <3>2
      <4>2. file[p].id = builder.id  BY <1>1, <4>1 DEF Layout
      <4> QED BY <4>1, <4>2, <2>6 DEF Same
    <3> QED BY <3>1, <3>2
  <2>8. \A i \in Finals : Before(file', final[i], builder.at)
    <3>1. Same(file, file', Limit)  BY <2>1, <2>6, LessIsSame
    <3> QED BY <3>1, <2>1, <2>6, FinalsKept
  <2>9. pos' \in 2 .. Len(file') + 1 /\ builder.at \in 2 .. pos' - 1 /\ pos' - 1 = pos
    BY <1>3, <2>1, <2>6
  <2> QED BY <1>1, <2>6, <2>7, <2>8, <2>9 DEF Layout, Finals
<1> QED BY <1>2, <1>3 DEF AddValue, AddKeyEntry, AddEntry, BlockSaved

LEMMA FinalizedLayout ==
  ASSUME TableInv, Layout, builder.open, Finalized, builder' = NoBuilder
  PROVE  Layout'
<1> DEFINE ws == Body \o Writes(builder.at, <<HeaderCell>>)
           new == [id |-> builder.id, at |-> builder.at,
                   name |-> writer.names[Len(writer.names)]]
           n == Len(final)
<1>1. /\ Limit = builder.at /\ builder.at \in Nat /\ pos \in Nat /\ Len(file) \in Nat
      /\ builder.id \in Nat /\ pos \in 1 .. Len(file) + 1
      /\ builder.at \in 2 .. pos - 1 /\ builder.at \in 1 .. pos - 1
      /\ \A p \in builder.at + 1 .. pos - 1 : file[p].id = builder.id
  BY LimitProperties DEF Limit, Layout
<1>2. Len(Body) = 2  BY <1>1, BodyWrites
<1>3. /\ HeaderCell \in Cell /\ HeaderCell.kind = "header"
      /\ HeaderCell.id = builder.id /\ HeaderCell.last = pos + 1
  <2>1. HeaderCell = [kind |-> "header", id |-> builder.id, last |-> pos + 1]
    BY <1>1, <1>2 DEF HeaderCell, Header
  <2> QED BY <1>1, <2>1 DEF Cell
<1>4. file' = After(ws) /\ pos' = pos + 2 /\ final' = Append(final, new)
  BY <1>2 DEF Finalized, Write, BehindBody
<1>5. Finalizing(ws, HeaderCell)
  BY <1>1, <1>3, FinalizingWrites
<1> HIDE DEF ws
<1>6. /\ file' \in Seq(Cell)
      /\ Len(file') \in Nat /\ pos + 2 <= Len(file') + 1
      /\ Same(file, file', builder.at)
      /\ file'[builder.at] = HeaderCell
      /\ \A p \in builder.at + 1 .. pos - 1 : file'[p] = file[p]
      /\ file'[pos] = Data(builder.id) /\ file'[pos + 1] = Data(builder.id)
  <2> DEFINE cell == HeaderCell
             image == file'
  <2>1. /\ cell \in Cell /\ Finalizing(ws, cell) /\ image = After(ws)
        /\ file \in Seq(Cell)
    BY <1>3, <1>4, <1>5 DEF Layout
  <2> HIDE DEF cell, image
  <2>2. /\ image \in Seq(Cell)
        /\ Len(image) \in Nat /\ pos + 2 <= Len(image) + 1
        /\ Same(file, image, builder.at)
        /\ image[builder.at] = cell
        /\ \A p \in builder.at + 1 .. pos - 1 : image[p] = file[p]
        /\ image[pos] = Data(builder.id) /\ image[pos + 1] = Data(builder.id)
    BY <1>1, <2>1, AfterFinalizing
  <2> QED BY <2>2 DEF cell, image
<1>7. pos' \in 2 .. Len(file') + 1  BY <1>1, <1>4, <1>6
<1>8. \A i \in 1 .. n : Before(file', final[i], pos')
  <2>1. pos' \in Nat /\ Limit <= pos' /\ Same(file, file', Limit)
    BY <1>1, <1>4, <1>6
  <2> QED BY <2>1, <1>6, FinalsKept DEF Finals
<1>9. Before(file', new, pos')
  <2>1. new.at = builder.at /\ new.id = builder.id  OBVIOUS
  <2>2. \A p \in builder.at + 1 .. pos + 1 : file'[p].id = builder.id
    <3> SUFFICES ASSUME NEW p \in builder.at + 1 .. pos + 1 PROVE file'[p].id = builder.id
      OBVIOUS
    <3>1. Data(builder.id).id = builder.id  BY DEF Data
    <3>2. p \in builder.at + 1 .. pos - 1 \/ p = pos \/ p = pos + 1  BY <1>1
    <3> QED BY <3>1, <3>2, <1>1, <1>6
  <2>3. builder.at \in 1 .. Len(file') /\ pos + 1 \in builder.at + 1 .. Len(file')
    BY <1>1, <1>6
  <2>4. pos + 1 < pos'  BY <1>1, <1>4
  <2> HIDE DEF new
  <2> QED BY <1>3, <1>6, <2>1, <2>2, <2>3, <2>4 DEF Before, Intact
<1>10. n \in Nat /\ final \in Seq([id : Nat, at : Nat, name : Name])
  BY LenProperties DEF TableInv, Final
<1>11. new \in [id : Nat, at : Nat, name : Name]
  <2>1. writer.names \in Seq(Name) /\ Len(writer.names) = n + 1
    BY DEF TableInv, Writer, Busy, Idle, Lists
  <2>2. writer.names[n + 1] \in Name  BY <1>10, <2>1, ElementOfSeq
  <2> QED BY <1>1, <2>1, <2>2
<1> HIDE DEF new
<1>12. /\ Len(final') = n + 1 /\ final'[n + 1] = new
       /\ \A i \in 1 .. n : final'[i] = final[i]
  BY <1>4, <1>10, <1>11, AppendProperties
<1>13. \A i \in 1 .. n + 1 : Before(file', final'[i], pos')
  <2>1. \A i \in 1 .. n + 1 : i \in 1 .. n \/ i = n + 1  BY <1>10
  <2> QED BY <2>1, <1>8, <1>9, <1>12
<1> HIDE DEF n
<1> QED BY <1>6, <1>7, <1>12, <1>13 DEF Layout, Finals, NoBuilder

LEMMA FinalizeFailsLayout ==
  ASSUME TableInv, Layout, builder.open, FinalizeFails, builder' = NoBuilder
  PROVE  Layout'
<1>1. /\ Limit = builder.at /\ builder.at \in Nat /\ pos \in Nat /\ Len(file) \in Nat
      /\ builder.id \in Nat /\ pos \in 1 .. Len(file) + 1
      /\ builder.at \in 2 .. pos - 1 /\ builder.at \in 1 .. pos - 1
  BY LimitProperties DEF Limit, Layout
<1>2. final' = final /\ ~builder'.open  BY DEF FinalizeFails, NoBuilder
<1>3. Body \in Seq(OneWrite) /\ Consecutive(Body, 2) /\ Len(Body) = 2
  BY <1>1, BodyConsecutive, BodyWrites
<1>4. CASE pos' \in {builder.at, pos} /\ UNCHANGED <<file, disk>>
  <2>1. file' \in Seq(Cell)  BY <1>4 DEF Layout
  <2>2. Same(file, file', Limit)  BY <1>1, <1>4 DEF Same
  <2>3. pos' \in Limit .. Len(file') + 1  BY <1>1, <1>4
  <2> QED BY <1>2, <2>1, <2>2, <2>3, NoBuilderAfter
<1>5. ASSUME NEW k \in 0 .. Len(Body), Write(FirstOf(Body, k)), pos' \in builder.at .. pos + k
      PROVE  Layout'
  <2>1. k \in Nat /\ k \in 0 .. 2  BY <1>3
  <2>2. Consecutive(FirstOf(Body, k), k)
    BY <1>3, <2>1, FirstConsecutive
  <2>3. file' = After(FirstOf(Body, k))  BY <1>5 DEF Write
  <2> QED BY <1>1, <1>2, <1>5, <2>1, <2>2, <2>3, PartLeft
<1>6. ASSUME NEW cell \in {Torn(builder.id), HeaderCell},
             Write(Body \o Writes(builder.at, <<cell>>)),
             pos' \in builder.at .. builder.at + 1
      PROVE  Layout'
  <2> DEFINE ws == Body \o Writes(builder.at, <<cell>>)
  <2>1. cell \in Cell
    <3>1. HeaderCell = [kind |-> "header", id |-> builder.id, last |-> pos + 1]
      BY <1>1, <1>3 DEF HeaderCell, Header
    <3> QED BY <1>1, <1>6, <3>1 DEF Cell, Torn
  <2>2. Finalizing(ws, cell)  BY <1>1, <2>1, FinalizingWrites
  <2>3. file' = After(ws)  BY <1>6 DEF Write
  <2> HIDE DEF ws
  <2>4. /\ file' \in Seq(Cell) /\ Len(file') \in Nat /\ pos + 2 <= Len(file') + 1
        /\ Same(file, file', builder.at)
    BY <1>1, <2>1, <2>2, <2>3, AfterFinalizing DEF Layout
  <2>5. pos' \in Limit .. Len(file') + 1  BY <1>1, <1>6, <2>4
  <2> QED BY <1>1, <1>2, <2>4, <2>5, NoBuilderAfter
<1> QED BY <1>4, <1>5, <1>6 DEF FinalizeFails

LEMMA FileStep == FileInv /\ [Next]_vars => FileInv'
<1> SUFFICES ASSUME FileInv, [Next]_vars PROVE FileInv'  OBVIOUS
<1>1. TableInv /\ TableInv' /\ (writer.open => Layout)
  BY TableStep DEF FileInv
<1> SUFFICES ASSUME writer'.open PROVE Layout'
  BY <1>1 DEF FileInv
<1>2. ASSUME NEW name \in Name, NEW metadata \in BOOLEAN, BuilderCreate(name, metadata)
      PROVE  Layout'
  <2>1. writer.open /\ ~writer.active  BY <1>2 DEF BuilderCreate, Refused
  <2>2. ~builder.open  BY <1>1, <2>1 DEF TableInv, Idle, Busy
  <2> QED BY <1>1, <1>2, <2>1, <2>2, CreateLayout
<1>3. CASE AddValue \/ AddKeyEntry \/ AddEntry
  <2>1. builder.open  BY <1>3 DEF AddValue, AddKeyEntry, AddEntry
  <2>2. writer.open  BY <1>1, <2>1 DEF TableInv
  <2> QED BY <1>1, <1>3, <2>2, AddsLayout
<1>4. CASE BuilderFinalize
  <2>1. /\ builder.open /\ builder' = NoBuilder /\ (Finalized \/ FinalizeFails)
    BY <1>4 DEF BuilderFinalize
  <2>2. writer.open  BY <1>1, <2>1 DEF TableInv
  <2> QED BY <1>1, <2>1, <2>2, FinalizedLayout, FinalizeFailsLayout
<1>5. ~(WriterClose \/ Crash)
  BY DEF WriterClose, Crash, Gone
<1>6. ~ReadStep
  BY DEF ReadStep
<1>7. CASE UNCHANGED vars
  <2>1. UNCHANGED <<writer, builder, file, pos, final>>
    BY <1>7 DEF vars, writerVars
  <2> QED BY <1>1, <2>1, NothingWritten
<1> QED BY <1>2, <1>3, <1>4, <1>5, <1>6, <1>7 DEF Next, WriteStep, WriterNext

LEMMA FileInvImplies == FileInv => FinalsIntact
BY DEF FileInv, FinalsIntact, Layout, Before

\* Whatever is built behind a finalized database, fails or is rolled back, no
\* write reaches its cells: the rollback of udx_db_builder_finalize and of
\* udx_db_builder_create_with_metadata never leaves the position before them.
THEOREM FinalsIntactHolds == Spec => []FinalsIntact
BY FileInit, FileStep, FileInvImplies, PTL DEF Spec
==============================================================================
