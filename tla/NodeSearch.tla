----------------------------- MODULE NodeSearch -----------------------------
(***************************************************************************)
(* The searches inside one node, a loop turn at a time: find_child_offset   *)
(* over the separators of an inner node (udx_reader.c), the window search   *)
(* of search_leaf_node (udx_reader.c) and btree_node_bsearch (udx_btree.c). *)
(*                                                                         *)
(* A key is its rank in strcmp's order.  The separators lie in one byte     *)
(* area: key i takes the bytes start[i] .. start[i+1] - 1 and the last of   *)
(* them is its NUL, so the position of a key is known only by its NULs.     *)
(* IndexRead and BTree take a search as one step, by the definitions        *)
(* Passed and Below; this module shows that the loops compute them.         *)
(***************************************************************************)
EXTENDS Integers, FiniteSets

CONSTANTS
  Nodes,   \* nodes to be searched: [count, key, start]
  Keys     \* keys that are searched for

\* The keys of a node ascend, and each of them takes a byte at least.
IsNode(nd) ==
  /\ nd.count \in Nat
  /\ nd.key \in [1 .. nd.count -> Int]
  /\ \A i, j \in 1 .. nd.count : i < j => nd.key[i] < nd.key[j]
  /\ nd.start \in [1 .. nd.count + 1 -> Nat]
  /\ nd.start[1] = 0
  /\ \A i, j \in 1 .. nd.count + 1 : i < j => nd.start[i] < nd.start[j]

ASSUME SearchAssumption ==
  /\ \A nd \in Nodes : IsNode(nd)
  /\ Keys \subseteq Int

VARIABLES
  node, key, search,   \* what is searched, for what, and by which function
  pc,
  low, size,           \* window and window_size; i and n - i in the B-tree
  closest,             \* closest_key: where the key under the middle begins
  next, entry, stop,   \* the walk that counts the keys before `stop`
  found, answer

input == <<node, key, search>>
vars  == <<node, key, search, pc, low, size, closest, next, entry, stop, found, answer>>

n    == node.count
Area == node.start[n + 1]

Init ==
  /\ node \in Nodes /\ key \in Keys
  /\ search \in {"child", "leaf", "btree"}
  /\ pc = "start"
  /\ low = 0 /\ size = 0 /\ closest = 0
  /\ next = 0 /\ entry = 0 /\ stop = 0
  /\ found = FALSE /\ answer = 0

-----------------------------------------------------------------------------
(* Bytes of the separator area.                                             *)

NulAt(p)  == \E i \in 1 .. n : p = node.start[i + 1] - 1
NextNul(p) == CHOOSE q \in p .. Area - 1 : NulAt(q) /\ \A r \in p .. q - 1 : ~NulAt(r)
\* strlen(p) + 1
Stride(p) == NextNul(p) - p + 1

Sign(a, b) == IF a < b THEN -1 ELSE IF a > b THEN 1 ELSE 0

\* strcmp(key, p): inside of a key, p is a string of which nothing is known.
Compare(p) ==
  IF \E i \in 1 .. n : p = node.start[i]
  THEN {Sign(key, node.key[i]) : i \in {j \in 1 .. n : p = node.start[j]}}
  ELSE {-1, 0, 1}

-----------------------------------------------------------------------------
(* find_child_offset                                                        *)

\* A single child is returned without a search.
ChildBegin ==
  /\ pc = "start" /\ search = "child"
  /\ \/ n = 0 /\ pc' = "done" /\ UNCHANGED size
     \/ n > 0 /\ pc' = "probe" /\ size' = Area
  /\ UNCHANGED <<input, low, closest, next, entry, stop, found, answer>>

Jump ==
  /\ pc = "probe" /\ search = "child" /\ size > 0
  /\ closest' = low + (size \div 2)
  /\ pc' = "back"
  /\ UNCHANGED <<input, low, size, next, entry, stop, found, answer>>

\* Mutant: the walk back takes the NUL before the key for a byte of the key.
GoesBackOverNul == closest > 0 /\ ~NulAt(closest)
GoesBack == closest > 0 /\ ~NulAt(closest - 1)

StepBack ==
  /\ pc = "back" /\ GoesBack
  /\ closest' = closest - 1
  /\ UNCHANGED <<input, pc, low, size, next, entry, stop, found, answer>>

\* Mutant: the key that was compared stays in the window.
SkipNothing(from) == from
\* The beginning of the window after the key at `from`.
Skip(from) == from + Stride(from)

CompareKey ==
  /\ pc = "back" /\ ~GoesBack
  /\ \E sign \in Compare(closest) :
       \/ /\ sign = 0
          /\ found' = TRUE /\ stop' = closest /\ pc' = "walk"
          /\ UNCHANGED <<low, size>>
       \/ /\ sign = -1
          /\ size' = closest - low /\ pc' = "probe"
          /\ UNCHANGED <<low, found, stop>>
       \/ /\ sign = 1
          /\ size' = size - (Skip(closest) - low)
          /\ low' = Skip(closest) /\ pc' = "probe"
          /\ UNCHANGED <<found, stop>>
  /\ UNCHANGED <<input, closest, next, entry, answer>>

WindowEmpty ==
  /\ pc = "probe" /\ search = "child" /\ size = 0
  /\ stop' = low /\ pc' = "walk"
  /\ UNCHANGED <<input, low, size, closest, next, entry, found, answer>>

\* One turn of the counting walk, which ends only where next = stop.
Count ==
  /\ pc = "walk" /\ next # stop
  /\ next' = next + Stride(next) /\ entry' = entry + 1
  /\ UNCHANGED <<input, pc, low, size, closest, stop, found, answer>>

\* Mutant: a separator that equals the key leads to the child before it.
ChildOfLeft == entry
\* A separator that equals the key belongs to the child after it; the number
\* is clamped to the children otherwise.
ChildOf == IF found THEN entry + 1 ELSE IF entry > n THEN n ELSE entry

CountEnd ==
  /\ pc = "walk" /\ next = stop
  /\ answer' = ChildOf /\ pc' = "done"
  /\ UNCHANGED <<input, low, size, closest, next, entry, stop, found>>

-----------------------------------------------------------------------------
(* search_leaf_node and btree_node_bsearch, over the entries 0 .. n - 1     *)

EntryBegin ==
  /\ pc = "start" /\ search # "child"
  /\ size' = n /\ pc' = "probe"
  /\ UNCHANGED <<input, low, closest, next, entry, stop, found, answer>>

Middle == IF search = "leaf" THEN low + (size \div 2)
                             ELSE (low + (low + size)) \div 2

\* Mutant: the entry in the middle stays in the left half.
LeftWithMiddle(mid) == mid - low + 1
\* Mutant: the bound of an inclusive window in a search with an exclusive one.
LeftInclusive(mid) == IF mid > low THEN mid - low - 1 ELSE 0
\* Mutant: the entry in the middle is taken off twice.
RestTooShort(mid) == size - ((mid + 1 - low) + 1)
\* Sizes of the halves, from both of which the entry in the middle is out.
Left(mid) == mid - low
Rest(mid) == size - ((mid - low) + 1)

ProbeEntry ==
  /\ pc = "probe" /\ search # "child" /\ size > 0
  /\ LET mid  == Middle
         sign == Sign(key, node.key[mid + 1])
     IN  \/ /\ sign = 0
            /\ found' = TRUE /\ answer' = mid /\ pc' = "done"
            /\ UNCHANGED <<low, size>>
         \/ /\ sign = -1
            /\ size' = Left(mid)
            /\ UNCHANGED <<low, pc, found, answer>>
         \/ /\ sign = 1
            /\ size' = Rest(mid) /\ low' = mid + 1
            /\ UNCHANGED <<pc, found, answer>>
  /\ UNCHANGED <<input, closest, next, entry, stop>>

EntryEnd ==
  /\ pc = "probe" /\ search # "child" /\ size = 0
  /\ answer' = low /\ pc' = "done"
  /\ UNCHANGED <<input, low, size, closest, next, entry, stop, found>>

-----------------------------------------------------------------------------
Done == pc = "done" /\ UNCHANGED vars

Step == \/ ChildBegin \/ Jump \/ StepBack \/ CompareKey \/ WindowEmpty
        \/ Count \/ CountEnd
        \/ EntryBegin \/ ProbeEntry \/ EntryEnd
Next == Step \/ Done

\* A search is a loop of one function; it keeps running.
Spec == Init /\ [][Next]_vars /\ WF_vars(Step)

-----------------------------------------------------------------------------
(* Properties                                                               *)

TypeOK ==
  /\ node \in Nodes /\ key \in Keys
  /\ search \in {"child", "leaf", "btree"}
  /\ pc \in {"start", "probe", "back", "walk", "done"}
  /\ low \in Nat /\ size \in Nat /\ closest \in Nat
  /\ next \in Nat /\ entry \in Nat /\ stop \in Nat
  /\ found \in BOOLEAN /\ answer \in Nat

\* The reference definitions, those of IndexRead (FindChild, LowerBound).
Passed == {i \in 1 .. n : node.key[i] <= key}
Below  == {i \in 1 .. n : node.key[i] < key}

\* find_child_offset, whose jumps land inside of keys and whose windows have
\* byte bounds, returns the child that the separators demand.
ChildIsRight ==
  pc = "done" /\ search = "child" => answer = Cardinality(Passed)

\* search_leaf_node and btree_node_bsearch end at the first entry that is not
\* below the key, and report an equal one exactly when there is one.
EntryIsLowerBound ==
  pc = "done" /\ search # "child" =>
    /\ answer = Cardinality(Below)
    /\ found <=> \E i \in 1 .. n : node.key[i] = key

\* The window of find_child_offset begins and ends where a key does, with no
\* key before it above the key and none after it below: what lets the next
\* jump find the beginning of a string, and window_size never goes below 0.
WindowOnKeys ==
  pc \in {"probe", "back"} /\ search = "child" =>
    \E a, b \in 1 .. n + 1 :
      /\ a <= b /\ low = node.start[a] /\ low + size = node.start[b]
      /\ \A i \in 1 .. n : (i < a => node.key[i] < key) /\ (i >= b => node.key[i] > key)

\* The walk that counts, whose only end is to meet `stop`, never passes it; and
\* it never counts more keys than the node has, so that the clamp is not needed.
WalkMeetsStop == pc = "walk" => next <= stop /\ entry <= n

\* Each comparison makes the window smaller.
Shrinks == [][pc' = "probe" /\ pc # "start" => size' < size]_vars

\* Every search ends.
Termination == <>(pc = "done")
=============================================================================
