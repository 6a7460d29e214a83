---------------------------- MODULE MCChunkStore -----------------------------
(***************************************************************************)
(* Chunk storage on small numbers: chunks of two bytes, 32-bit counters     *)
(* that end at four, an offset table that starts with one slot and may not  *)
(* grow past four.  The blocks: an empty one; one smaller than a chunk, of  *)
(* which two fill one; one that fills a chunk alone, so that six adds ask   *)
(* for a fifth chunk; and one larger than a chunk, too large for a buffer   *)
(* of two bytes.                                                            *)
(***************************************************************************)
EXTENDS ChunkStore

MCByte == {"a", "b", "c", "d"}
MCBlocks == { <<>>, <<"a">>, <<"b", "c">>, <<"b", "c", "d">> }
==============================================================================
