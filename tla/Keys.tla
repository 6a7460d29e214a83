-------------------------------- MODULE Keys --------------------------------
(***************************************************************************)
(* The ordered container of udx_keys.c over its B-tree, from its creation   *)
(* to the walk that finalize makes over it (udx_writer.c).  Every           *)
(* allocation may fail; calls on a builder never overlap.                   *)
(*                                                                         *)
(* An item is the spelling it was added under; its address and size go      *)
(* with it.  Folding is a map from spellings to the ranks of folded keys.   *)
(***************************************************************************)
EXTENDS BTree

CONSTANTS
  Spellings,   \* keys as they are given to udx_keys_add
  Fold,        \* udx_fold_string
  MaxTotal,    \* UINT32_MAX, the bound of total_items
  MaxListed,   \* UINT16_MAX, the bound of a listed entry's item count
  Starts       \* model bound: the adds a behaviour begins with, a plan for the others

ASSUME KeysAssumption ==
  /\ Fold \in [Spellings -> 0 .. MaxKey]
  /\ MaxTotal \in Nat /\ MaxListed \in Nat \ {0}

VARIABLES
  total,    \* keys->total_items
  phase,    \* "adding", "walking", then "written" or "failed"
  header,   \* entry_count and item_count for the header
  out,      \* entries serialized so far
  given,    \* model bound: adds that come first, in this order
  plan,     \* model bound: how often a spelling may be added after them
  ret,      \* what the last udx_keys_add returned
  fault     \* an allocation failed in the walk

memory == <<nodes, live, tree>>
bound  == <<given, plan>>
walk   == <<phase, header, out, fault>>
vars   == <<memory, call, iter, total, walk, bound, ret>>

NoHeader == [keys |-> 0, items |-> 0]

Init ==
  /\ nodes = <<>> /\ live = {} /\ tree = EmptyTree /\ call = NoCall /\ iter = NoIter
  /\ total = 0 /\ phase = "adding" /\ header = NoHeader /\ out = <<>>
  /\ \E start \in Starts : given = start.given /\ plan = start.plan
  /\ ret = TRUE /\ fault = FALSE

-----------------------------------------------------------------------------
(* udx_keys_add                                                             *)

\* Mutant: the counter wraps.
NoLimit == FALSE
\* total_items is a uint32_t.
AtLimit == total = MaxTotal

NewEntry(s) == [key |-> Fold[s], items |-> <<s>>]
Added       == Head(call.entry.items)

May(s) == IF given # <<>> THEN s = Head(given) ELSE plan[s] > 0

\* A call is refused at the limit, or for want of memory for the folded key.
Add(s) ==
  /\ phase = "adding" /\ call.op = "none" /\ May(s)
  /\ \/ ret' = FALSE /\ UNCHANGED call
     \/ ~AtLimit /\ call' = CallOf("get", NewEntry(s)) /\ UNCHANGED ret
  /\ UNCHANGED <<memory, iter, total, walk, bound>>

Return(done) ==
  /\ call' = NoCall /\ ret' = done
  /\ IF ~done THEN UNCHANGED bound
     ELSE IF given # <<>> THEN given' = Tail(given) /\ UNCHANGED plan
     ELSE plan' = [plan EXCEPT ![Added] = @ - 1] /\ UNCHANGED given
  /\ UNCHANGED <<iter, walk>>

\* No memory for the spelling or its place in the items.
AddRefused ==
  /\ GetFinds \/ GetMisses
  /\ Return(FALSE)
  /\ UNCHANGED <<memory, total>>

\* A key that is there: the item goes into the entry where it lies in its node.
AddToEntry ==
  /\ GetFinds
  /\ nodes' = [nodes EXCEPT ![Here].items[Index(Here)].items = Append(@, Added)]
  /\ total' = total + 1
  /\ Return(TRUE)
  /\ UNCHANGED <<live, tree>>

\* A new key.
SetBegins ==
  /\ GetMisses
  /\ tree' = CallBegun
  /\ call' = CallOf("set", call.entry)
  /\ UNCHANGED <<nodes, live, iter, total, walk, bound, ret>>

\* Mutant: the item is counted whether or not the entry went in.
CountedAlways(oom) == total + 1
\* The item is counted when the tree had the memory for the entry; if not, the
\* entry is freed.
Counted(oom) == IF oom THEN total ELSE total + 1

SetReturns ==
  /\ FirstRoot \/ InsertIntoLeaf \/ OutOfMemory
  /\ total' = Counted(tree'.oom)
  /\ Return(~tree'.oom)

CallNext ==
  \/ (Descend \/ SetStep) /\ UNCHANGED <<total, walk, bound, ret>>
  \/ AddRefused \/ AddToEntry \/ SetBegins \/ SetReturns

-----------------------------------------------------------------------------
(* The walk over the keys in udx_db_builder_finalize and build_bptree       *)

\* udx_keys_destroy
Destroyed ==
  /\ FreeNodes /\ tree' = EmptyTree /\ UNCHANGED <<nodes, call>>
  /\ total' = 0

\* An empty database is refused; an iterator may not be to be had.
FinalizeRefused ==
  /\ phase = "adding" /\ call.op = "none"
  /\ fault' = (tree.count # 0)
  /\ phase' = "failed" /\ Destroyed
  /\ UNCHANGED <<iter, header, out, bound, ret>>

WalkBegin ==
  /\ phase = "adding" /\ call.op = "none" /\ tree.count # 0
  /\ header' = [keys |-> tree.count, items |-> total]
  /\ iter' = NewIter
  /\ phase' = "walking"
  /\ UNCHANGED <<memory, call, total, out, bound, ret, fault>>

\* build_leaf_node asks for the next entry; header.keys times in all.
WalkStep ==
  /\ phase = "walking"
  /\ (Len(out) < header.keys /\ IterBegin) \/ IterDown \/ IterUp
  /\ UNCHANGED <<total, walk, bound, ret>>

\* Mutant: the count of items is cut to 16 bits.
AnyEntry(entry) == TRUE
\* serialize_index_entry_into refuses an entry whose count does not fit.
Fits(entry) == Len(entry.items) <= MaxListed

\* The entry as it is listed, with the 16 bits of its item count.
Serialized(entry) ==
  [key |-> entry.key, items |-> SubSeq(entry.items, 1, Len(entry.items) % (MaxListed + 1))]

Deliver ==
  /\ phase = "walking" /\ iter.step = "item"
  /\ iter' = [iter EXCEPT !.step = "idle"]
  /\ \/ /\ Fits(IterItem)
        /\ out' = Append(out, Serialized(IterItem))
        /\ UNCHANGED <<memory, call, total, phase, fault>>
     \/ /\ ~Fits(IterItem)
        /\ phase' = "failed" /\ Destroyed
        /\ UNCHANGED <<out, fault>>
  /\ UNCHANGED <<header, bound, ret>>

\* No memory for a node, or the index cannot be written; also an iterator at
\* its end, if it came to that.
WalkFails ==
  /\ phase = "walking"
  /\ phase' = "failed" /\ fault' = TRUE /\ Destroyed
  /\ UNCHANGED <<iter, header, out, bound, ret>>

WalkEnd ==
  /\ phase = "walking" /\ Len(out) = header.keys
  /\ phase' = "written" /\ Destroyed
  /\ UNCHANGED <<iter, header, out, bound, ret, fault>>

Next ==
  \/ \E s \in Spellings : Add(s)
  \/ CallNext
  \/ FinalizeRefused \/ WalkBegin \/ WalkStep \/ Deliver \/ WalkFails \/ WalkEnd

Spec == Init /\ [][Next]_vars

\* A call that was made, and a walk to the next entry, are executed on.
FairSpec == Spec /\ WF_vars(CallNext) /\ WF_vars(WalkStep)

-----------------------------------------------------------------------------
(* Properties                                                               *)

Entry == [key : 0 .. MaxKey, items : Seq(Spellings)]

TypeOK ==
  /\ nodes \in Seq([items : Seq(Entry), children : Seq(Nat)])
  /\ live \subseteq Nat
  /\ tree \in [root : Nat, count : Nat, height : Nat, oom : BOOLEAN]
  /\ call \in [op : {"none", "get", "set"}, entry : Entry, path : Seq(Nat), full : BOOLEAN]
  /\ iter \in [slots : Nat, stack : Seq([node : Nat, index : Nat]), seeked : BOOLEAN,
               step : {"idle", "down", "up", "item", "end"}]
  /\ total \in 0 .. MaxTotal
  /\ phase \in {"adding", "walking", "written", "failed"}
  /\ header \in [keys : Nat, items : Nat]
  /\ out \in Seq(Entry)
  /\ ret \in BOOLEAN /\ fault \in BOOLEAN

\* Through each split of a call, and through those that an insertion without
\* memory leaves behind, the B-tree keeps its shape: the height it counts is
\* the depth of all of its leaves, no node is too small or too large or hangs
\* in two places, and its entries ascend and lie between those of the nodes
\* above.
SpanSound(s, d) ==
  LET node  == nodes[s.node]
      items == node.items
  IN  /\ d <= tree.height
      /\ IsLeaf(node) <=> d = tree.height
      /\ ~IsLeaf(node) => Len(node.children) = Len(items) + 1
      /\ Len(items) \in (IF d = 1 THEN 1 ELSE MinItems) .. MaxItems
      /\ \A i \in 1 .. Len(items) : s.lo < items[i].key /\ items[i].key < s.hi
      /\ \A i, j \in 1 .. Len(items) : i < j => items[i].key < items[j].key

TreeSound ==
  LET level == Levels(nodes, tree.root) IN
  /\ tree.root = 0 <=> tree.height = 0
  /\ \A d \in DOMAIN level : \A s \in level[d] :
       /\ SpanSound(s, d)
       /\ \A e \in DOMAIN level : \A t \in level[e] : t.node = s.node => t = s /\ e = d

\* The items of entries, each with its place in its entry.
ItemsOf(entries) ==
  UNION {{<<entry.key, i>> : i \in 1 .. Len(entry.items)} : entry \in entries}

\* What the header will say, keys and items, is what the tree holds, also after
\* adds that failed half way.
CountsAgree ==
  /\ tree.count = Cardinality(Entries)
  /\ total = Cardinality(ItemsOf(Entries))

\* Every node that is allocated hangs in the tree.
NoLeak == live = Reachable

\* The stack of the iterator, which has a slot for each level there was when it
\* was made, does not overflow, and is not empty when it moves on.
IterFits ==
  phase = "walking" =>
    /\ Len(iter.stack) <= iter.slots
    /\ iter.seeked => iter.stack # <<>>

\* The walk that asks for as many entries as there are keys gets each of them
\* once, in order and with all of its items, so that the header is right.
WalkExact ==
  /\ phase = "walking" =>
       /\ ToSet(out) \subseteq Entries
       /\ \A i, j \in 1 .. Len(out) : i < j => out[i].key < out[j].key
       /\ \A entry \in Entries \ ToSet(out), i \in 1 .. Len(out) : out[i].key < entry.key
  /\ phase = "written" =>
       /\ Len(out) = header.keys
       /\ Cardinality(ItemsOf(ToSet(out))) = header.items

\* The container implements the map of udx_keys.h: an add that returns FALSE
\* changed no key and no item, one that returns TRUE appended the item to its
\* folded key, and the walk delivers the map or fails.
KM == INSTANCE KeyMap WITH
        map    <- Entries,
        open   <- phase \in {"adding", "walking"},
        listed <- IF phase = "written" THEN out ELSE <<>>
Implements == KM!Spec

\* An insertion that splits node after node and searches again comes to an end,
\* and so does the iterator's way to the next entry.
CallsEnd ==
  /\ (call.op # "none") ~> (call.op = "none")
  /\ (phase = "walking" /\ iter.step \in {"down", "up"}) ~>
       (iter.step = "item" \/ phase # "walking")
=============================================================================
