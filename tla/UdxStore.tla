------------------------------ MODULE UdxStore -------------------------------
(***************************************************************************)
(* A file from its creation to its readers: a writer builds databases one   *)
(* after the other, closes or dies, and readers open what is on the disk.   *)
(***************************************************************************)
EXTENDS UdxWriter, UdxReader

vars == <<writerVars, readerVars>>

Init == WriterInit /\ ReaderInit

WriteStep == WriterNext /\ UNCHANGED readerVars
ReadStep  == ~writer.open /\ ReaderNext /\ UNCHANGED <<writer, builder, builds>>

Next == WriteStep \/ ReadStep

Spec == Init /\ [][Next]_vars

-----------------------------------------------------------------------------
Cell ==
       [kind : {"main"}, id : {0}, count : Nat, table : Nat]
  \cup [kind : {"zeros", "data", "torn"}, id : Nat]
  \cup [kind : {"header"}, id : Nat, last : Nat]
  \cup [kind : {"entry"}, id : {0}, at : Nat, name : Name]

\* Every variable holds a value of its kind.
TypeOK ==
  /\ file \in Seq(Cell) /\ disk \in Seq(Cell)
  /\ pos \in Nat /\ builds \in Nat
  /\ final \in Seq([id : Nat, at : Nat, name : Name])
  /\ writer \in [open : BOOLEAN, offsets : Seq(Nat), names : Seq(Name), active : BOOLEAN]
  /\ builder \in [open : BOOLEAN, id : Nat, at : Nat, empty : BOOLEAN]
  /\ reader \in [open : BOOLEAN, dbs : Seq([at : Nat, name : Text]), whole : Nat]
  /\ db \in [open : BOOLEAN, name : Text \cup {NULL}, at : Nat, id : Nat, chunks : BOOLEAN]

Finals == 1 .. Len(final)

\* The writer lists exactly the databases finalized so far, in their order,
\* and the active one behind them; no name is listed twice.
TableOfFinals ==
  writer.open =>
    LET n == Len(final) + (IF writer.active THEN 1 ELSE 0) IN
    /\ writer.active = builder.open
    /\ Len(writer.offsets) = n /\ Len(writer.names) = n
    /\ \A i \in Finals : writer.offsets[i] = final[i].at /\ writer.names[i] = final[i].name
    /\ writer.active => writer.offsets[n] = builder.at
    /\ \A i, j \in 1 .. n : writer.names[i] = writer.names[j] => i = j

\* Whatever is built, fails or is rolled back later, a database that was
\* finalized stays as it is in the file.
FinalsIntact ==
  writer.open => \A i \in Finals : Intact(file, final[i].at, final[i].id)

\* A reader accepts the file of a writer that closed, failed to close or died
\* at any point only if it holds all databases that were finalized.  It lists
\* as many; up to a read that fails inside a name it lists them as they are,
\* and that one at its place, under a part of its name.
AcceptedIsComplete ==
  reader.open =>
    /\ \A i \in Finals : Intact(disk, final[i].at, final[i].id)
    /\ Len(reader.dbs) = Len(final)
    /\ reader.whole \in 0 .. Len(final)
    /\ \A i \in Finals :
         /\ i <= reader.whole => reader.dbs[i].name = final[i].name
         /\ i = reader.whole + 1 => reader.dbs[i].name \in Cut[final[i].name]
         /\ i <= reader.whole + 1 => reader.dbs[i].at = final[i].at

\* A database that was opened is the first of the list with its name, or has
\* no name; if it was listed as it is, it is the one finalized there under
\* that name.
OpensTheNamed ==
  db.open =>
    \E i \in Finals :
      /\ reader.dbs[i].at = db.at
      /\ db.name \in {reader.dbs[i].name, NULL}
      /\ \A j \in 1 .. i - 1 : reader.dbs[j].name # reader.dbs[i].name
      /\ i <= reader.whole => reader.dbs[i].name = final[i].name /\ db.id = final[i].id

-----------------------------------------------------------------------------
(* The dictionary this file implements.                                     *)

FinalDbs == [i \in Finals |-> [name |-> final[i].name, id |-> final[i].id]]

\* A reader shows what is at the offsets of its table, which is nothing at a
\* number that was misread.
IdAt(at) == IF at \in 1 .. Len(disk) THEN disk[at].id ELSE 0
ShownDbs ==
  IF reader.open
    THEN [i \in 1 .. Len(reader.dbs) |->
            [name |-> reader.dbs[i].name, id |-> IdAt(reader.dbs[i].at)]]
    ELSE <<>>

OpenedDb == IF db.open THEN {[name |-> db.name, id |-> db.id]} ELSE {}

Promised == INSTANCE Dictionary WITH
  dbs <- FinalDbs, writing <- writer.open, shown <- ShownDbs, whole <- reader.whole,
  opened <- OpenedDb

\* Through failures, rollbacks, and a close or crash at any write: what a
\* reader shows and opens is what was finalized, all of it, but for the part of
\* the list behind a read that failed inside a name.
Implements == Promised!Spec

-----------------------------------------------------------------------------
(* What the headers say, and the code does not do.                          *)

\* udx_writer.h: UDX_OK of udx_writer_close says there was no I/O error.
CloseOkIsDurable ==
  ret.op = "close" /\ ret.status = "OK" /\ final # <<>> => Accepted(disk)

\* udx_reader.h: udx_reader_open returns UDX_OK or an error.
OpenReturns == ret.op = "open" => ret.status # "UNDEFINED"

\* udx_reader.h: udx_db_open returns an error when the database cannot be
\* loaded.
OpenedIsWhole == db.open => db.chunks
==============================================================================
