------------------------------ MODULE UdxWriter ------------------------------
(***************************************************************************)
(* The life of a writer and of its builders: udx_writer.c without the       *)
(* inside of a database, which is Data cells here.  The process may die     *)
(* between any two writes, also of one call.                                *)
(***************************************************************************)
EXTENDS UdxFile

CONSTANTS
  MaxDbs,      \* databases a file can have (UINT16_MAX)
  MaxBuilds,   \* bound: builders that are created
  MaxPos       \* bound: position up to which blocks are added

VARIABLES
  writer,   \* struct udx_writer
  builder,  \* struct udx_db_builder, the one that is active
  builds    \* history: builders created, numbering them

writerVars == <<file, disk, pos, ret, final, writer, builder, builds>>

NoBuilder == [open |-> FALSE, id |-> 0, at |-> 0, empty |-> TRUE]

\* udx_writer_open, when it succeeds
WriterInit ==
  /\ file = <<Main(0, 0)>> /\ disk \in {<<>>, file} /\ pos = 2
  /\ ret = [op |-> "none", status |-> "OK"] /\ final = <<>>
  /\ writer = [open |-> TRUE, offsets |-> <<>>, names |-> <<>>, active |-> FALSE]
  /\ builder = NoBuilder /\ builds = 0

DropLast(s) == SubSeq(s, 1, Len(s) - 1)
Id == builds + 1

-----------------------------------------------------------------------------
(* udx_db_builder_create_with_metadata                                      *)

\* Mutant: a name is not looked up.
RefusedUnseen(name) == writer.active \/ Len(writer.offsets) >= MaxDbs
Refused(name) ==
  \/ writer.active
  \/ Len(writer.offsets) >= MaxDbs
  \/ \E i \in 1 .. Len(writer.names) : writer.names[i] = name

\* The offset is pushed before the name, and taken back when the name cannot
\* be pushed.
OffsetPushed == [writer EXCEPT !.offsets = Append(@, pos)]
OffsetUndone == [OffsetPushed EXCEPT !.offsets = DropLast(@)]

BuilderCreates(name, cells) ==
  /\ Write(Writes(pos, cells))
  /\ pos' = pos + Len(cells)
  /\ writer' = [OffsetPushed EXCEPT !.names = Append(@, name), !.active = TRUE]
  /\ builder' = [open |-> TRUE, id |-> Id, at |-> pos, empty |-> TRUE]

\* Memory or a write fails.  The position goes back to where the database was
\* to begin, or stays when that fails, too.
BuilderNotCreated(cells) ==
  /\ \E k \in 0 .. Len(cells) :
       /\ Write(FirstOf(Writes(pos, cells), k))
       /\ pos' \in {pos, pos + k}
       /\ writer' \in IF k < Len(cells) THEN {writer} ELSE {writer, OffsetUndone}
  /\ UNCHANGED builder

BuilderCreate(name, metadata) ==
  /\ writer.open /\ builds < MaxBuilds
  /\ ~Refused(name)
  /\ LET cells == IF metadata THEN <<Zeros(Id), Data(Id)>> ELSE <<Zeros(Id)>>
     IN  BuilderCreates(name, cells) \/ BuilderNotCreated(cells)
  /\ builds' = builds + 1
  /\ UNCHANGED <<ret, final>>

-----------------------------------------------------------------------------
(* udx_db_builder_add_value, add_key_entry and add_entry                    *)

\* Adding a block leaves it in the buffer or saves the buffer first, in part
\* when that fails; what is saved in part is never referred to.
BlockSaved ==
  \/ UNCHANGED <<file, disk, pos>>
  \/ /\ pos < MaxPos
     /\ Write(Writes(pos, <<Data(builder.id)>>)) /\ pos' = pos + 1

KeyAdded == builder' = [builder EXCEPT !.empty = FALSE]

AddValue ==
  /\ builder.open
  /\ BlockSaved
  /\ UNCHANGED <<ret, final, writer, builder, builds>>

AddKeyEntry ==
  /\ builder.open
  /\ KeyAdded \/ UNCHANGED builder     \* no memory for the key
  /\ UNCHANGED <<file, disk, pos, ret, final, writer, builds>>

AddEntry ==
  /\ builder.open
  /\ BlockSaved
  /\ KeyAdded \/ UNCHANGED builder     \* the block or the key is refused
  /\ UNCHANGED <<ret, final, writer, builds>>

-----------------------------------------------------------------------------
(* udx_db_builder_finalize                                                  *)

\* Mutant: the rollback leaves the name.
NameLeft   == [writer EXCEPT !.offsets = DropLast(@), !.active = FALSE]
RolledBack == [writer EXCEPT !.offsets = DropLast(@), !.names = DropLast(@),
                             !.active = FALSE]

\* The chunk table, with the last chunk before it, and the index; a part that
\* is written in part counts as written.
Body == Writes(pos, <<Data(builder.id), Data(builder.id)>>)
\* The header, written back to its place
HeaderCell == Header(builder.id, pos + Len(Body) - 1)

\* Mutant: the position is left behind the header.
BehindHeader == builder.at + 1
\* The position goes back to where it was before the header.
BehindBody   == pos + Len(Body)

Finalized ==
  /\ ~builder.empty
  /\ Write(Body \o Writes(builder.at, <<HeaderCell>>))
  /\ pos' = BehindBody
  /\ final' = Append(final, [id |-> builder.id, at |-> builder.at,
                             name |-> writer.names[Len(writer.names)]])
  /\ writer' = [writer EXCEPT !.active = FALSE]

\* The seek of the rollback goes to where the database begins.  When it fails,
\* the position is behind the last write, that may have been a link of the
\* index or the header.
FinalizeFails ==
  /\ \/ builder.empty /\ pos' \in {builder.at, pos} /\ UNCHANGED <<file, disk>>
     \/ /\ ~builder.empty
        /\ \E k \in 0 .. Len(Body) :
             Write(FirstOf(Body, k)) /\ pos' \in builder.at .. pos + k
     \/ /\ ~builder.empty
        /\ \E cell \in {Torn(builder.id), HeaderCell} :
             Write(Body \o Writes(builder.at, <<cell>>))
        /\ pos' \in builder.at .. builder.at + 1
  /\ writer' = RolledBack
  /\ UNCHANGED final

BuilderFinalize ==
  /\ builder.open
  /\ Finalized \/ FinalizeFails
  /\ builder' = NoBuilder
  /\ UNCHANGED <<ret, builds>>

-----------------------------------------------------------------------------
(* udx_writer_close, and a process that dies                                *)

Entries == [i \in 1 .. Len(writer.offsets) |->
              Entry(writer.offsets[i], writer.names[i])]

\* Mutant: the main header is patched before the table is written.
HeaderFirst ==
  Writes(1, <<Main(Len(Entries), pos)>>) \o Writes(pos, Entries)
\* The writes of a close: the table, the count and the table's position.
Closing ==
  Writes(pos, Entries) \o Writes(1, <<Main(Len(Entries), 0)>>)
                       \o Writes(1, <<Main(Len(Entries), pos)>>)

\* The writer is gone, and what was written but did not reach the disk.
Gone(ws) ==
  /\ disk' \in {disk} \cup {After(FirstOf(ws, k)) : k \in 0 .. Len(ws)}
  /\ file' = disk' /\ pos' = 0
  /\ writer' = [open |-> FALSE, offsets |-> <<>>, names |-> <<>>, active |-> FALSE]
  /\ builder' = NoBuilder
  /\ UNCHANGED <<final, builds>>

\* fclose comes last and its result is ignored.
WriterClose ==
  /\ writer.open
  /\ \/ writer.active /\ Gone(<<>>) /\ Returns("close", "ERR_STATE")
     \/ ~writer.active /\ Gone(Closing) /\ Returns("close", "OK")
     \/ /\ ~writer.active /\ Returns("close", "ERR_IO")
        /\ \E k \in 0 .. Len(Closing) - 1 : Gone(FirstOf(Closing, k))

\* The process dies, between two calls or while it closes.  Writes of another
\* call that did not all reach the disk are those of a call that failed.
Crash ==
  /\ writer.open
  /\ Gone(IF writer.active THEN <<>> ELSE Closing)
  /\ UNCHANGED ret

WriterNext ==
  \/ \E name \in Name, metadata \in BOOLEAN : BuilderCreate(name, metadata)
  \/ AddValue \/ AddKeyEntry \/ AddEntry \/ BuilderFinalize
  \/ WriterClose \/ Crash
==============================================================================
