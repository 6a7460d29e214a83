-------------------------------- MODULE BTree --------------------------------
(***************************************************************************)
(* The in-memory B-tree of udx_btree.c as far as the key container calls    *)
(* it: set, get_mut, count, height, free, and an iterator's first and next. *)
(*                                                                         *)
(* A node is a position in the sequence of those allocated so far, NULL is  *)
(* 0; nodes are never shared, because nothing clones a tree.  A call goes   *)
(* through the steps of its code, a node at a time, and the recursion of    *)
(* btree_node_set is the path of its frames.  The search of a node is the   *)
(* one NodeSearch goes through.                                             *)
(***************************************************************************)
EXTENDS Integers, FiniteSets, SequencesExt

CONSTANTS
  MaxItems,   \* max_items, 255 in the container's tree
  MaxKey      \* the greatest rank of a key

ASSUME BTreeAssumption ==
  /\ MaxItems \in Nat /\ MaxItems >= 3 /\ MaxItems % 2 = 1
  /\ MaxKey \in Nat

VARIABLES
  nodes,   \* what was allocated
  live,    \* and is not freed
  tree,    \* struct udx_btree
  call,    \* the call under way: what it looks for, and the nodes of its frames
  iter     \* struct udx_btree_iter

MinItems == MaxItems \div 2

\* struct btree_node: entries [key, items] and, in a branch, the children.
Node(items, children) == [items |-> items, children |-> children]
IsLeaf(node) == node.children = <<>>
Full(node)   == Len(node.items) = MaxItems

EmptyTree == [root |-> 0, count |-> 0, height |-> 0, oom |-> FALSE]

New == Len(nodes) + 1

-----------------------------------------------------------------------------
(* The nodes of the tree.                                                   *)

\* A node that lies below the root, and the keys that it lies between.
Span(p, lo, hi) == [node |-> p, lo |-> lo, hi |-> hi]

\* The keys its children lie between.
Bound(heap, s, i) ==
  IF i = 0 THEN s.lo
  ELSE IF i > Len(heap[s.node].items) THEN s.hi ELSE heap[s.node].items[i].key

ChildSpans(heap, s) ==
  {Span(heap[s.node].children[i], Bound(heap, s, i - 1), Bound(heap, s, i)) :
     i \in 1 .. Len(heap[s.node].children)}

\* The nodes on each level from the root's down.
Levels(heap, root) ==
  LET level[d \in 1 .. Len(heap)] ==
        IF d > 1 THEN UNION {ChildSpans(heap, s) : s \in level[d - 1]}
        ELSE IF root = 0 THEN {} ELSE {Span(root, -1, MaxKey + 1)}
  IN  level

NodesOf(heap, root) ==
  LET level == Levels(heap, root)
  IN  {s.node : s \in UNION {level[d] : d \in 1 .. Len(heap)}}

EntriesOf(heap, root) == UNION {ToSet(heap[p].items) : p \in NodesOf(heap, root)}

Reachable == NodesOf(nodes, tree.root)
Entries   == EntriesOf(nodes, tree.root)

\* btree_node_free, from the root
FreeNodes == live' = live \ Reachable

-----------------------------------------------------------------------------
(* A search from the root down.                                             *)

\* btree_search, counted from one: the first entry that is not below the key.
Place(node, key) == 1 + Cardinality({i \in 1 .. Len(node.items) : node.items[i].key < key})
Found(node, key) == \E i \in 1 .. Len(node.items) : node.items[i].key = key

NoEntry == [key |-> 0, items |-> <<>>]
NoCall  == [op |-> "none", entry |-> NoEntry, path |-> <<>>, full |-> FALSE]

CallOf(op, entry) ==
  [op |-> op, entry |-> entry, full |-> FALSE,
   path |-> IF tree.root = 0 THEN <<>> ELSE <<tree.root>>]

Here   == Last(call.path)
Parent == Last(Front(call.path))
Index(p) == Place(nodes[p], call.entry.key)

Searching == call.op # "none" /\ call.path # <<>> /\ ~call.full
Held      == Found(nodes[Here], call.entry.key)
Ends      == IsLeaf(nodes[Here])

Descend ==
  /\ Searching /\ ~Held /\ ~Ends
  /\ call' = [call EXCEPT !.path = Append(@, nodes[Here].children[Index(Here)])]
  /\ UNCHANGED <<nodes, live, tree, iter>>

\* btree_get0 returns the entry, or NULL.
GetFinds  == call.op = "get" /\ Searching /\ Held
GetMisses == call.op = "get" /\ (call.path = <<>> \/ (Searching /\ ~Held /\ Ends))

-----------------------------------------------------------------------------
(* btree_set0 and btree_node_set, for a key that is not there               *)

\* btree_node_shift_right, then btree_set_item_at and the child on its right
WithItem(node, i, entry)  == [node EXCEPT !.items = InsertAt(@, i, entry)]
WithChild(node, i, right) == [node EXCEPT !.children = InsertAt(@, i + 1, right)]

\* The children that go with a half of the items; a leaf has none.
Part(children, a, b) == IF children = <<>> THEN <<>> ELSE SubSeq(children, a, b)

\* btree_node_split: the item in the middle goes up.
Halves(node) ==
  LET mid == MaxItems \div 2 + 1 IN
  [left   |-> Node(SubSeq(node.items, 1, mid - 1), Part(node.children, 1, mid)),
   median |-> node.items[mid],
   right  |-> Node(SubSeq(node.items, mid + 1, Len(node.items)),
                   Part(node.children, mid + 1, Len(node.children)))]

\* Mutant: the right half becomes the child on the left.
SplitChildSwapped(heap, p, i) ==
  LET c == heap[p].children[i]
      h == Halves(heap[c])
  IN  Append([heap EXCEPT ![c] = h.right,
                          ![p] = WithChild(WithItem(@, i, h.median), i, Len(heap) + 1)],
             h.left)
\* The nodes after child i of node p was split.
SplitChild(heap, p, i) ==
  LET c == heap[p].children[i]
      h == Halves(heap[c])
  IN  Append([heap EXCEPT ![c] = h.left,
                          ![p] = WithChild(WithItem(@, i, h.median), i, Len(heap) + 1)],
             h.right)

\* Mutant: the mark of an earlier failure stays.
CallKeepingOom == tree
\* A call begins without the mark.
CallBegun == [tree EXCEPT !.oom = FALSE]

FirstRoot ==
  /\ call.op = "set" /\ call.path = <<>>
  /\ nodes' = Append(nodes, Node(<<call.entry>>, <<>>))
  /\ live' = live \cup {New}
  /\ tree' = [tree EXCEPT !.root = New, !.count = @ + 1, !.height = @ + 1]

InsertIntoLeaf ==
  /\ call.op = "set" /\ Searching /\ ~Held /\ Ends /\ ~Full(nodes[Here])
  /\ nodes' = [nodes EXCEPT ![Here] = WithItem(@, Index(Here), call.entry)]
  /\ tree' = [tree EXCEPT !.count = @ + 1]
  /\ UNCHANGED live

\* BTREE_MUST_SPLIT, returned by a leaf, and by a branch
LeafMustSplit ==
  /\ call.op = "set" /\ Searching /\ ~Held /\ Ends /\ Full(nodes[Here])
  /\ call' = [call EXCEPT !.full = TRUE]
  /\ UNCHANGED <<nodes, live, tree, iter>>

BelowRoot == Len(call.path) > 1

BranchMustSplit ==
  /\ call.full /\ BelowRoot /\ Full(nodes[Parent])
  /\ call' = [call EXCEPT !.path = Front(@)]
  /\ UNCHANGED <<nodes, live, tree, iter>>

\* The child is split, and the node searched again.
SplitBelow ==
  /\ call.full /\ BelowRoot /\ ~Full(nodes[Parent])
  /\ nodes' = SplitChild(nodes, Parent, Index(Parent))
  /\ live' = live \cup {New}
  /\ call' = [call EXCEPT !.path = Front(@), !.full = FALSE]
  /\ UNCHANGED <<tree, iter>>

\* Mutant: the height stays.
GrownUncounted == [tree EXCEPT !.root = New]
\* The tree after its root was split, one level higher.
Grown == [tree EXCEPT !.root = New, !.height = @ + 1]

SplitRoot ==
  /\ call.full /\ ~BelowRoot
  /\ nodes' = SplitChild(Append(nodes, Node(<<>>, <<tree.root>>)), New, 1)
  /\ live' = live \cup {New, New + 1}
  /\ tree' = Grown
  /\ call' = [call EXCEPT !.path = <<New>>, !.full = FALSE]
  /\ UNCHANGED iter

\* Mutant: the new root is not freed when its right child cannot be made.
NewRootLeaked == {New}
\* The call frees the new root.
NewRootLeft   == {}

\* A node that is needed cannot be allocated.
OutOfMemory ==
  /\ call.op = "set"
  /\ \/ call.path = <<>> /\ UNCHANGED live
     \/ call.full /\ BelowRoot /\ ~Full(nodes[Parent]) /\ UNCHANGED live
     \/ call.full /\ ~BelowRoot /\ live' \in {live, live \cup NewRootLeft}
  /\ tree' = [tree EXCEPT !.oom = TRUE]
  /\ UNCHANGED nodes

SetStep == LeafMustSplit \/ BranchMustSplit \/ SplitBelow \/ SplitRoot

-----------------------------------------------------------------------------
(* The iterator: udx_btree_iter_next, and udx_btree_iter_first on its first *)
(* call, push and pop a frame at a time.                                    *)

NoIter  == [slots |-> 0, stack |-> <<>>, seeked |-> FALSE, step |-> "idle"]
NewIter == [NoIter EXCEPT !.slots = tree.height]

\* The frame of a node is pushed; in a leaf its first item is reached.
Pushed(stack, p) ==
  [iter EXCEPT !.seeked = TRUE, !.stack = Append(stack, [node |-> p, index |-> 0]),
               !.step = IF IsLeaf(nodes[p]) THEN "item" ELSE "down"]

Top == Last(iter.stack)

IterBegin ==
  /\ iter.step = "idle"
  /\ IF ~iter.seeked THEN iter' = Pushed(<<>>, tree.root)
     ELSE LET node  == nodes[Top.node]
              index == Top.index + 1
              stack == [iter.stack EXCEPT ![Len(iter.stack)].index = index]
          IN  IF IsLeaf(node)
              THEN iter' = [iter EXCEPT !.stack = stack,
                              !.step = IF index = Len(node.items) THEN "up" ELSE "item"]
              ELSE iter' = Pushed(stack, node.children[index + 1])
  /\ UNCHANGED <<nodes, live, tree, call>>

IterDown ==
  /\ iter.step = "down"
  /\ iter' = Pushed(iter.stack, nodes[Top.node].children[1])
  /\ UNCHANGED <<nodes, live, tree, call>>

\* Mutant: the frame stays.
FrameKept(stack) == stack
\* The frame of a node that is done with goes.
Popped(stack) == Front(stack)

IterUp ==
  /\ iter.step = "up"
  /\ LET stack == Popped(iter.stack)
     IN  iter' = [iter EXCEPT !.stack = stack,
                    !.step = IF stack = <<>> THEN "end"
                             ELSE IF Last(stack).index < Len(nodes[Last(stack).node].items)
                             THEN "item" ELSE "up"]
  /\ UNCHANGED <<nodes, live, tree, call>>

\* udx_btree_iter_item
IterItem == nodes[Top.node].items[Top.index + 1]
==============================================================================
