---------------------------- MODULE MCNodeSearch ----------------------------
(***************************************************************************)
(* Every inner node of up to MaxKeys separators of 1 to MaxLen bytes, and   *)
(* longer nodes of keys of one byte.  Key i of a node has the rank 2i, so   *)
(* that the keys 1 .. 2n + 1 stand at, before and between all of them.      *)
(***************************************************************************)
EXTENDS NodeSearch

CONSTANTS MaxKeys, MaxLen, LongKeys

Starts(lens) ==
  LET from[i \in 1 .. Cardinality(DOMAIN lens) + 1] ==
        IF i = 1 THEN 0 ELSE from[i - 1] + lens[i - 1] + 1
  IN  from

NodeOf(lens) ==
  [count |-> Cardinality(DOMAIN lens),
   key   |-> [i \in DOMAIN lens |-> 2 * i],
   start |-> Starts(lens)]

MCNodes ==
  {NodeOf(lens) : lens \in UNION {[1 .. k -> 1 .. MaxLen] : k \in 0 .. MaxKeys}}
    \cup {NodeOf([i \in 1 .. k |-> 1]) : k \in 0 .. LongKeys}

MCKeyRanks == 1 .. 2 * LongKeys + 1
=============================================================================
