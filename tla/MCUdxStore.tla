----------------------------- MODULE MCUdxStore ------------------------------
(***************************************************************************)
(* Two names, one of which is the other cut short, three attempts at         *)
(* building, one or two cells of metadata and blocks before the two cells of  *)
(* the chunk table and the index.                                           *)
(***************************************************************************)
EXTENDS UdxStore

MCName == {"a", "ab"}
MCText == {"", "a", "ab"}
\* The beginnings of a name, and all of it when only its end was not read
MCCut  == [name \in MCName |-> IF name = "a" THEN {"", "a"} ELSE MCText]
==============================================================================
