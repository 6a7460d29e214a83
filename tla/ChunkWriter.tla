----------------------------- MODULE ChunkWriter -----------------------------
(***************************************************************************)
(* The chunk writer of udx_chunk.c.  Blocks are appended to a buffer, the   *)
(* buffer becomes a chunk of the file once it holds ChunkMax bytes, and     *)
(* the table of chunk positions ends the stream.                            *)
(*                                                                         *)
(* Every call may meet a failing ftell, allocation, compression or fwrite,  *)
(* at every place where the code tests for one.  The caller may repeat a    *)
(* failed add, as udx_db_builder_add_value lets its own caller do.          *)
(***************************************************************************)
EXTENDS ChunkFile

CONSTANTS
  Blocks,    \* what callers pass as data; the empty block stands for size = 0
  MaxAdds,   \* bound: number of blocks stored
  MaxTorn    \* bound: the file's length up to which an fwrite may still fail

ASSUME BlocksAssumption ==
  /\ Blocks \subseteq Seq(Byte)
  /\ MaxAdds \in Nat /\ MaxTorn \in Nat

VARIABLES
  writer,  \* struct udx_chunk_writer
  issued   \* history: the blocks stored and the addresses handed out for them

WriterOpened ==
  [open |-> TRUE, buffer |-> <<>>, capacity |-> ChunkMax,
   offsets |-> <<>>, tableCap |-> 0, index |-> 0]

WriterInit ==
  /\ file = <<>> /\ table = 0
  /\ writer = WriterOpened
  /\ issued = <<>>

-----------------------------------------------------------------------------
(* chunk_writer_save_current                                                *)

TableFull(w)   == Len(w.offsets) >= w.tableCap

GrowRefused(w) == TableFull(w) /\ w.tableCap > MaxU32 \div 2

GrownCapacity(w) ==
  IF ~TableFull(w) THEN w.tableCap
  ELSE IF w.tableCap = 0 THEN TableInit ELSE 2 * w.tableCap

Grown(w) == [w EXCEPT !.tableCap = GrownCapacity(w)]

\* The outcomes: nothing touched the file; a partial write; all written.
Unsaved(w, f) == [ok |-> FALSE, w |-> w, file |-> f]

\* Mutant: the position is recorded before the writes are known to succeed.
PartlySavedCommitted(w, f) ==
  [ok |-> FALSE, w |-> [Grown(w) EXCEPT !.offsets = Append(@, Len(f) + 1)],
   file |-> Append(f, Torn)]
PartlySaved(w, f) == [ok |-> FALSE, w |-> Grown(w), file |-> Append(f, Torn)]

\* The index limit is tested after the position is committed and the buffer
\* emptied: a failure here has saved the chunk.
Saved(w, f) ==
  [ok   |-> w.index < MaxU32,
   w    |-> [Grown(w) EXCEPT !.offsets = Append(@, Len(f) + 1),
                             !.buffer  = <<>>,
                             !.index   = IF @ < MaxU32 THEN @ + 1 ELSE @],
   file |-> Append(f, ChunkItem(w.buffer))]

\* What saving the buffer of w behind the file f can come to.
SaveResults(w, f) ==
  IF w.buffer = <<>> THEN { [ok |-> TRUE, w |-> w, file |-> f] }
  ELSE IF GrowRefused(w) THEN { Unsaved(w, f) }
  ELSE { Unsaved(w, f), Unsaved(Grown(w), f), Saved(w, f) }
       \cup (IF Len(f) < MaxTorn THEN { PartlySaved(w, f) } ELSE {})

-----------------------------------------------------------------------------
(* udx_chunk_writer_add_block                                               *)

TooLarge(data) == Len(data) > MaxU32 - Len(writer.buffer)

\* Mutant: the buffer is flushed one byte late.
FlushLate == Len(writer.buffer) > ChunkMax
FlushDue  == Len(writer.buffer) >= ChunkMax

FlushResults ==
  IF FlushDue
    THEN SaveResults(writer, file)
    ELSE { [ok |-> TRUE, w |-> writer, file |-> file] }

AddReturns(addr, data) ==
  ret' = [op |-> "add", addr |-> addr, size |-> Len(data), data |-> data]

\* No address is handed out; w and f are what the call leaves behind.
AddFails(data, w, f) ==
  /\ writer' = w
  /\ file' = f
  /\ issued' = issued
  /\ AddReturns(InvalidAddress, data)

Appended(w, data) ==
  LET size == Len(w.buffer) + Len(data)
  IN  [w EXCEPT !.buffer   = @ \o data,
                !.capacity = IF size > @ THEN size ELSE @]

AddAppends(data, w, f) ==
  LET addr == AddrMake(w.index, Len(w.buffer))
  IN  /\ writer' = Appended(w, data)
      /\ file' = f
      /\ issued' = Append(issued, [addr |-> addr, data |-> data])
      /\ AddReturns(addr, data)

AddBlock(data) ==
  /\ writer.open
  /\ Len(issued) < MaxAdds
  /\ \/ /\ data = <<>> \/ TooLarge(data)
        /\ AddFails(data, writer, file)
     \/ /\ ~(data = <<>> \/ TooLarge(data))
        /\ \E s \in FlushResults :
             \/ ~s.ok /\ AddFails(data, s.w, s.file)
             \/ /\ s.ok
                /\ Len(s.w.buffer) + Len(data) > s.w.capacity
                /\ AddFails(data, s.w, s.file)          \* realloc fails
             \/ s.ok /\ AddAppends(data, s.w, s.file)
  /\ UNCHANGED table

-----------------------------------------------------------------------------
(* udx_chunk_writer_finish, after which its only caller closes the writer.  *)

\* Mutant: the last, partly filled chunk is forgotten.
LastForgotten == { [ok |-> TRUE, w |-> writer, file |-> file] }
LastSaved     == SaveResults(writer, file)

FinishReturns(pos) ==
  /\ table' = pos
  /\ ret' = [op |-> "finish", addr |-> pos, size |-> 0, data |-> Null]

Finish ==
  /\ writer.open
  /\ \E s \in LastSaved :
       /\ writer' = [s.w EXCEPT !.open = FALSE]
       /\ \/ FinishReturns(0) /\ file' = s.file
          \/ s.ok /\ FinishReturns(0) /\ file' = Append(s.file, Torn)
          \/ /\ s.ok
             /\ FinishReturns(Len(s.file) + 1)
             /\ file' = Append(s.file, TableItem(s.w.offsets))
  /\ UNCHANGED issued
==============================================================================
