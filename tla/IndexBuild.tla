----------------------------- MODULE IndexBuild ------------------------------
(***************************************************************************)
(* build_bptree of udx_writer.c: the sorted keys are consumed through one   *)
(* iterator by a recursive construction that writes the leaves from left to *)
(* right, each inner node behind its children, and links every leaf to its  *)
(* successor by patching the leaf before.                                   *)
(*                                                                         *)
(* The recursion is the variable stack, a frame for every inner node under  *)
(* construction.  Every read of the iterator, allocation or write may fail, *)
(* which ends the construction.                                             *)
(***************************************************************************)
EXTENDS IndexFile

CONSTANT KeyLists   \* the sorted key lists a database may have

\* udx_db_builder_finalize refuses a database without keys, and the iterator
\* of the key container delivers each folded key once, in order.
ASSUME KeysAssumption ==
  \A ks \in KeyLists :
    /\ ks \in Seq(Words) /\ ks # <<>>
    /\ \A i, j \in 1 .. Len(ks) : i < j => ks[i] < ks[j]

VARIABLES
  todo,      \* index_size of the call of build_bptree_node being made
  taken,     \* how many keys the iterator has delivered
  stack,     \* frames of the inner nodes under construction
  result,    \* what the last call returned: position and height
  lastLeaf   \* the leaf last_leaf_link_offset belongs to, 0 for none

buildVars == <<keys, nodes, phase, root, first, height,
               todo, taken, stack, result, lastLeaf>>

BuildInit ==
  /\ keys \in KeyLists
  /\ nodes = <<>> /\ phase = "call"
  /\ root = 0 /\ first = 0 /\ height = 0
  /\ todo = Len(keys) /\ taken = 0 /\ stack = <<>>
  /\ result = [pos |-> 0, height |-> 0]
  /\ lastLeaf = 0

Top == stack[Len(stack)]
Pop == SubSeq(stack, 1, Len(stack) - 1)

\* Mutant: the children are counted from one twice.
BoundaryLate(size, x) == (size * (x + 1)) \div (MaxElements + 1)
\* cur_entry: where child x of a node of that size ends
Boundary(size, x)   == (size * x) \div (MaxElements + 1)

\* Mutant: the separator is the key the iterator delivers next.
PeekNext == keys[taken + 1]
\* udx_keys_iter_peek: the entry the iterator delivered last
Peek     == keys[taken]

-----------------------------------------------------------------------------
\* Mutant: the leaf before is not patched.
LinkNone(pos) == nodes
LinkLast(pos) ==
  IF lastLeaf = 0 THEN nodes ELSE [nodes EXCEPT ![lastLeaf].next = pos]

\* build_leaf_node
BuildLeaf ==
  LET pos == Len(nodes) + 1 IN
  /\ phase = "call" /\ todo <= MaxElements
  /\ taken + todo <= Len(keys)
  /\ nodes' = Append(LinkLast(pos), LeafNode(SubSeq(keys, taken + 1, taken + todo)))
  /\ taken' = taken + todo
  /\ lastLeaf' = pos
  /\ first' = IF first = 0 THEN pos ELSE first
  /\ result' = [pos |-> pos, height |-> 1]
  /\ phase' = "return"
  /\ UNCHANGED <<keys, root, height, todo, stack>>

\* build_bptree_node, up to the call for the first child
OpenNode ==
  /\ phase = "call" /\ todo > MaxElements
  /\ stack' = Append(stack, [size |-> todo, prev |-> 0, children |-> <<>>,
                             seps |-> <<>>, height |-> 0])
  /\ todo' = Boundary(todo, 1)
  /\ UNCHANGED <<keys, nodes, phase, root, first, height, taken, result, lastLeaf>>

\* Mutant: the height of the child built first.
TallestFirst(a, b) == IF a = 0 THEN b ELSE a
Tallest(a, b)      == IF a > b THEN a ELSE b

\* The frame after one of its first MaxElements children was built.
WithChild(f) ==
  [f EXCEPT !.children = Append(@, result.pos),
            !.seps     = Append(@, Peek),
            !.prev     = Boundary(f.size, Len(f.children) + 1),
            !.height   = Tallest(@, result.height)]

\* build_bptree_node, between one of the first MaxElements children and the next
NextChild ==
  /\ phase = "return" /\ stack # <<>>
  /\ Len(Top.children) < MaxElements
  /\ taken > 0
  /\ LET f == WithChild(Top)
         x == Len(f.children)
     IN  /\ stack' = Append(Pop, f)
         /\ todo' = IF x < MaxElements THEN Boundary(f.size, x + 1) - f.prev
                                       ELSE f.size - f.prev
  /\ phase' = "call"
  /\ UNCHANGED <<keys, nodes, root, first, height, taken, result, lastLeaf>>

\* build_bptree_node, after the rightmost child
CloseNode ==
  /\ phase = "return" /\ stack # <<>>
  /\ Len(Top.children) = MaxElements
  /\ nodes' = Append(nodes, InnerNode(Append(Top.children, result.pos), Top.seps))
  /\ result' = [pos |-> Len(nodes) + 1,
                height |-> Tallest(Top.height, result.height) + 1]
  /\ stack' = Pop
  /\ UNCHANGED <<keys, phase, root, first, height, todo, taken, lastLeaf>>

\* build_bptree, after the outermost call
BuildDone ==
  /\ phase = "return" /\ stack = <<>>
  /\ root' = result.pos /\ height' = result.height
  /\ phase' = "built"
  /\ UNCHANGED <<keys, nodes, first, todo, taken, stack, result, lastLeaf>>

BuildFails ==
  /\ phase \in {"call", "return"}
  /\ phase' = "failed"
  /\ UNCHANGED <<keys, nodes, root, first, height, todo, taken, stack, result, lastLeaf>>

BuildNext ==
  BuildLeaf \/ OpenNode \/ NextChild \/ CloseNode \/ BuildDone \/ BuildFails
==============================================================================
