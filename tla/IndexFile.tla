------------------------------ MODULE IndexFile ------------------------------
(***************************************************************************)
(* The nodes of a database's B+ tree index as they lie in the file, shared  *)
(* by the part of udx_writer.c that builds them and the part of             *)
(* udx_reader.c that searches them.                                         *)
(*                                                                         *)
(* A word is a folded key, named by its rank in strcmp order.  Words with a *)
(* common prefix p are neighbours and p comes first: they are the words     *)
(* from p to PrefixEnd[p].  A position is the index of a node among the     *)
(* nodes written; position 0 is UDX_INVALID_NODE_OFFSET.                    *)
(***************************************************************************)
EXTENDS Integers, Sequences, FiniteSets

CONSTANTS
  MaxWord,      \* words are 0 .. MaxWord
  PrefixEnd,    \* the last word that has a word as its prefix
  MaxElements,  \* largest number of entries of a leaf, one less than children
  NodeLimit,    \* UDX_INDEX_NODE_MAX_SIZE
  Weight        \* the bytes an entry takes in a leaf

Words == 0 .. MaxWord

ASSUME IndexAssumption ==
  /\ MaxWord \in Nat
  /\ PrefixEnd \in [Words -> Words]
  /\ \A w \in Words : w <= PrefixEnd[w]
  /\ MaxElements \in Nat \ {0}
  /\ NodeLimit \in Nat
  /\ Weight \in [Words -> Nat]

VARIABLES
  keys,    \* the sorted folded keys of the database (udx_keys)
  nodes,   \* the nodes written so far
  phase,   \* "call" and "return" while building, then "built" or "failed"
  root,    \* index_root_offset
  first,   \* index_first_leaf_offset
  height   \* index_bptree_height

\* strncmp(p, w, strlen(p)) == 0
HasPrefix(w, p) == p <= w /\ w <= PrefixEnd[p]

KeySet == {keys[i] : i \in 1 .. Len(keys)}

LeafNode(entries) ==
  [kind |-> "leaf", keys |-> entries, next |-> 0, children |-> <<>>]

\* keys of an internal node: its separators
InnerNode(children, seps) ==
  [kind |-> "inner", keys |-> seps, next |-> 0, children |-> children]

Node == [kind : {"leaf", "inner"}, keys : Seq(Words), next : Nat,
         children : Seq(Nat)]

\* The uncompressed size of a leaf, with the weights of its entries.
SizeOf(node) ==
  LET total[i \in 0 .. Len(node.keys)] ==
        IF i = 0 THEN 0 ELSE total[i - 1] + Weight[node.keys[i]]
  IN  total[Len(node.keys)]
==============================================================================
