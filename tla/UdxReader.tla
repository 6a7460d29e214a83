------------------------------ MODULE UdxReader ------------------------------
(***************************************************************************)
(* Opening a dictionary file and its databases: udx_reader_open, udx_db_open *)
(* and udx_db_value_entry_fetch of udx_reader.c on what is on the disk.     *)
(***************************************************************************)
EXTENDS UdxFile

VARIABLES
  reader,   \* struct udx_reader: the table of databases
  db        \* struct udx_db: what was loaded of one

readerVars == <<reader, db>>

\* whole is history: how many entries of the table were read before a read
\* failed inside a name, all of them when none did.
NoReader == [open |-> FALSE, dbs |-> <<>>, whole |-> 0]
\* Mutant: a database that is not open has position -1.
NoDbMarked == [open |-> FALSE, name |-> NULL, at |-> -1, id |-> 0, chunks |-> FALSE]
NoDb     == [open |-> FALSE, name |-> NULL, at |-> 0, id |-> 0, chunks |-> FALSE]

ReaderInit == reader = NoReader /\ db = NoDb

Accepted(image) == image # <<>> /\ image[1].table # 0 /\ image[1].count > 0

\* Entry i of the table is there to be read.
InTable(image, i) == image[1].table + i - 1 <= Len(image)
CellOf(image, i)  == image[image[1].table + i - 1]

\* What is read from the middle of an entry, or where there is none: any
\* string, and a number that only by chance is where a header begins.
Headers(image) == {p \in 1 .. Len(image) : image[p].kind = "header"}
Misread(image) == [at : {0} \cup Headers(image), name : Text]

\* Entry i as it is read.  fgetc returns EOF where a read fails as where the
\* name ends, and nobody asks ferror: that name ends there, and the entries
\* behind it are read from the place where reading goes on.
ReadEntry(image, i, whole) ==
  LET cell == CellOf(image, i)
  IN  IF i > whole + 1 \/ cell.kind # "entry" THEN Misread(image)
      ELSE {[at |-> cell.at, name |-> name] :
              name \in IF i <= whole THEN {cell.name} ELSE Cut[cell.name]}

\* The table of n databases, the first read error being in entry whole + 1
TablesRead(image, n, whole) ==
  {dbs \in [1 .. n -> UNION {ReadEntry(image, i, whole) : i \in 1 .. n}] :
     \A i \in 1 .. n : dbs[i] \in ReadEntry(image, i, whole)}

\* udx_reader_open.  When reading the table fails with an error that is seen,
\* all names are freed, although malloc left those not yet read undefined.
ReaderOpen ==
  /\ ~reader.open
  /\ \/ Returns("open", "ERR_IO") /\ UNCHANGED reader
     \/ Returns("open", "ERR_MEMORY") /\ UNCHANGED reader
     \/ /\ disk # <<>> /\ ~Accepted(disk)
        /\ Returns("open", "ERR_FORMAT") /\ UNCHANGED reader
     \/ /\ Accepted(disk)
        /\ Returns("open", "UNDEFINED") /\ UNCHANGED reader
     \/ /\ Accepted(disk)
        /\ LET n == disk[1].count
           IN  \E whole \in 0 .. n :
                 /\ \A i \in 1 .. n : i <= whole + 1 => InTable(disk, i)
                 /\ \E dbs \in TablesRead(disk, n, whole) :
                      reader' = [open |-> TRUE, dbs |-> dbs, whole |-> whole]
        /\ Returns("open", "OK")
  /\ UNCHANGED <<file, disk, pos, final, db>>

ReaderClose ==
  /\ reader.open /\ ~db.open
  /\ reader' = NoReader
  /\ UNCHANGED <<file, disk, pos, ret, final, db>>

-----------------------------------------------------------------------------
\* The first database with the name
IndexOf(name) ==
  CHOOSE i \in 1 .. Len(reader.dbs) :
    reader.dbs[i].name = name /\ \A j \in 1 .. i - 1 : reader.dbs[j].name # name

\* Mutant: always the first database.
OffsetOfFirst(name) == reader.dbs[1].at
OffsetOf(name)      == reader.dbs[IndexOf(name)].at

\* load_db_by_offset: header, checksum, metadata and root node are read or
\* the call fails; a copy of the name or a chunk reader that cannot be made is
\* left out.
Load(at, name) ==
  \/ /\ at \in Headers(disk)
     /\ \E copy \in {name, NULL}, chunks \in BOOLEAN :
          db' = [open |-> TRUE, name |-> copy, at |-> at, id |-> disk[at].id,
                 chunks |-> chunks]
     /\ Returns("db_open", "OK")
  \/ Returns("db_open", "ERR_IO") /\ UNCHANGED db

\* udx_db_open, of the first database when there is no name
DbOpen(name) ==
  /\ reader.open /\ ~db.open
  /\ IF \E i \in 1 .. Len(reader.dbs) : reader.dbs[i].name = name
       THEN Load(OffsetOf(name), name)
       ELSE Returns("db_open", "NOT_FOUND") /\ UNCHANGED db
  /\ UNCHANGED <<file, disk, pos, final, reader>>

DbOpenFirst ==
  /\ reader.open /\ ~db.open
  /\ Load(reader.dbs[1].at, reader.dbs[1].name)
  /\ UNCHANGED <<file, disk, pos, final, reader>>

\* udx_db_value_entry_fetch, of an entry of the database
ValueEntryFetch ==
  /\ db.open
  /\ \/ db.chunks /\ Returns("fetch", "OK")
     \/ \E status \in {"ERR_FORMAT", "ERR_MEMORY"} : Returns("fetch", status)
  /\ UNCHANGED <<file, disk, pos, final, reader, db>>

DbClose ==
  /\ db.open
  /\ db' = NoDb
  /\ UNCHANGED <<file, disk, pos, ret, final, reader>>

ReaderNext ==
  \/ ReaderOpen \/ ReaderClose \/ DbOpenFirst \/ ValueEntryFetch \/ DbClose
  \/ \E name \in Text : DbOpen(name)
==============================================================================
