----------------------------- MODULE MCIndexTree -----------------------------
(***************************************************************************)
(* The index over the words of up to two binary digits, in strcmp order:    *)
(*   0 = ""  1 = "0"  2 = "00"  3 = "01"  4 = "1"  5 = "10"  6 = "11"       *)
(* and over the key lists that can be formed of them.                       *)
(***************************************************************************)
EXTENDS IndexTree

MCPrefixEnd == [w \in 0 .. 6 |-> <<6, 3, 2, 3, 6, 5, 6>>[w + 1]]
MCWeight    == [w \in 0 .. 6 |-> IF w = 6 THEN 3 ELSE 1]

MCKeyLists == {SetToSortSeq(ks, <) : ks \in (SUBSET (0 .. 6)) \ {{}}}
==============================================================================
