------------------------------- MODULE UdxFile -------------------------------
(***************************************************************************)
(* A whole dictionary file as udx_writer.c writes it through stdio: a main   *)
(* header, the databases one behind the other, and the table of databases.  *)
(*                                                                         *)
(* The file is a sequence of cells, each what one or more calls of fwrite   *)
(* put there; cell 1 is the main header.  file is what the program wrote,   *)
(* disk what has reached the disk.  stdio passes the writes on in their     *)
(* order but late, and nobody looks at what fflush and fclose return: disk  *)
(* is what file was after some earlier write.                               *)
(***************************************************************************)
EXTENDS Integers, Sequences, FiniteSets

CONSTANTS
  Name,   \* the names of databases
  Text,   \* all strings, the ones read by mistake included
  Cut,    \* what is left of a name when reading it breaks off
  NULL    \* no string

ASSUME NameAssumption ==
  /\ Name \subseteq Text
  /\ Cut \in [Name -> SUBSET Text]
  /\ NULL \notin Text

VARIABLES
  file,     \* the cells as written
  disk,     \* the cells on the disk
  pos,      \* the position of the FILE
  ret,      \* what udx_writer_close or the reader's last call returned
  final     \* history: the databases finalized with UDX_OK

Main(count, table) == [kind |-> "main", id |-> 0, count |-> count, table |-> table]
Zeros(id)          == [kind |-> "zeros", id |-> id]
Data(id)           == [kind |-> "data", id |-> id]
Torn(id)           == [kind |-> "torn", id |-> id]
Header(id, last)   == [kind |-> "header", id |-> id, last |-> last]
Entry(at, name)    == [kind |-> "entry", id |-> 0, at |-> at, name |-> name]

\* Consecutive cells, from position at.
Writes(at, cells) == [i \in 1 .. Len(cells) |-> [at |-> at + i - 1, cell |-> cells[i]]]
FirstOf(ws, k)    == SubSeq(ws, 1, k)

\* The positions there are after the writes ws, and the last of ws to each.
Positions(ws) == 1 .. Len(file) \cup {ws[i].at : i \in 1 .. Len(ws)}
WritesTo(ws, p) == {i \in 1 .. Len(ws) : ws[i].at = p}
LastTo(ws, p)   == CHOOSE i \in WritesTo(ws, p) : \A j \in WritesTo(ws, p) : j <= i

\* The file after the writes ws.
After(ws) ==
  [p \in Positions(ws) |->
     IF WritesTo(ws, p) = {} THEN file[p] ELSE ws[LastTo(ws, p)].cell]

\* The writes ws are made; the disk stays behind or catches up with some of
\* them.
Write(ws) ==
  /\ file' = After(ws)
  /\ disk' \in {disk} \cup {After(FirstOf(ws, k)) : k \in 0 .. Len(ws)}

\* The database at a position can be read: its header has a valid checksum
\* and what the header refers to is the database's own.
Intact(image, at, id) ==
  /\ at \in 1 .. Len(image)
  /\ image[at].kind = "header" /\ image[at].id = id
  /\ image[at].last \in at + 1 .. Len(image)
  /\ \A p \in at + 1 .. image[at].last : image[p].id = id

Returns(op, status) == ret' = [op |-> op, status |-> status]
==============================================================================
