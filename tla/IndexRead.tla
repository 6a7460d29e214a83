------------------------------ MODULE IndexRead ------------------------------
(***************************************************************************)
(* Lookup, prefix match and iteration of udx_reader.c over the nodes in the *)
(* file.  A call goes through the steps of its code: reading one node,      *)
(* searching a leaf, taking one entry.  Calls on one reader exclude each    *)
(* other, as its single FILE position demands; the calls of an iterator     *)
(* happen between other calls.  Every read or allocation may fail.          *)
(***************************************************************************)
EXTENDS IndexFile

CONSTANTS
  Limits,      \* the limits a prefix match is called with, 0 for none
  FirstCap     \* first capacity of a result array (64)

ASSUME ReadAssumption ==
  /\ Limits \subseteq Nat
  /\ FirstCap \in Nat \ {0}

VARIABLES
  db,     \* whether the database is open: its root node was read
  call,   \* the lookup or prefix match under way, and what it has found
  ret,    \* what the last one returned
  iter    \* struct udx_db_iter, and the history of what it delivered

NoCall == [op |-> "none", arg |-> 0, limit |-> 0, node |-> 0, next |-> 0,
           at |-> 0, out |-> <<>>, cap |-> 0, fault |-> FALSE]
NoRet  == [op |-> "none", arg |-> 0, limit |-> 0, status |-> "OK",
           out |-> <<>>, fault |-> FALSE]
NoIter == [open |-> FALSE, leaf |-> 0, at |-> 0, next |-> 0,
           got |-> <<>>, status |-> "OK"]

ReadInit == db = FALSE /\ call = NoCall /\ ret = NoRet /\ iter = NoIter

fileVars == <<keys, nodes, phase, root, first, height>>

\* read_index_node refuses a node that is larger than 1 MB.
Acceptable(pos) == SizeOf(nodes[pos]) <= NodeLimit

\* load_db_by_offset, udx_db_open
DbOpen ==
  /\ phase = "built" /\ ~db
  /\ Acceptable(root)
  /\ db' = TRUE
  /\ UNCHANGED <<call, ret, iter>> /\ UNCHANGED fileVars

\* udx_db_close, after the calls on the database and its iterator
DbClose ==
  /\ db /\ call.op = "none" /\ ~iter.open
  /\ db' = FALSE /\ ret' = NoRet
  /\ UNCHANGED <<call, iter>> /\ UNCHANGED fileVars

-----------------------------------------------------------------------------
(* Searching nodes.                                                         *)

\* find_child_offset passes a separator that equals the key.
Passed(node, w)      == {i \in 1 .. Len(node.keys) : node.keys[i] <= w}
FindChild(node, w)   == node.children[Cardinality(Passed(node, w)) + 1]

\* Mutant: an entry equal to w is passed.
LowerBoundPassed(entries, w) ==
  1 + Cardinality({i \in 1 .. Len(entries) : entries[i] <= w})
\* search_leaf_node: index of the first entry that is not below w
LowerBound(entries, w) ==
  1 + Cardinality({i \in 1 .. Len(entries) : entries[i] < w})

\* The call returns.
Return(status, out, fault) ==
  /\ call' = NoCall
  /\ ret' = [op |-> call.op, arg |-> call.arg, limit |-> call.limit,
             status |-> status, out |-> out, fault |-> fault]

Start(op, w, limit) ==
  /\ db /\ call.op = "none"
  /\ \/ /\ call' = [NoCall EXCEPT !.op = op, !.arg = w, !.limit = limit, !.node = root]
        /\ ret' = NoRet
     \/ /\ call' = NoCall          \* no memory for the folded key
        /\ ret' = [op |-> op, arg |-> w, limit |-> limit,
                   status |-> "ERR_MEMORY", out |-> <<>>, fault |-> TRUE]
  /\ UNCHANGED <<db, iter>> /\ UNCHANGED fileVars

StartLookup == \E w \in Words : Start("lookup", w, 0)
StartPrefix == \E w \in Words, limit \in Limits : Start("prefix", w, limit)

\* One turn of the loop that goes down to a leaf.
Descend ==
  /\ call.op # "none" /\ call.at = 0 /\ nodes[call.node].kind = "inner"
  /\ LET child == FindChild(nodes[call.node], call.arg)
     IN  \/ Acceptable(child) /\ call' = [call EXCEPT !.node = child] /\ UNCHANGED ret
         \/ Return("ERR_FORMAT", <<>>, TRUE)
  /\ UNCHANGED <<db, iter>> /\ UNCHANGED fileVars

\* udx_db_key_entry_lookup, at the leaf
SearchLeaf ==
  /\ call.op = "lookup" /\ nodes[call.node].kind = "leaf"
  /\ LET entries == nodes[call.node].keys
         lb      == LowerBound(entries, call.arg)
         hit     == lb <= Len(entries) /\ entries[lb] = call.arg
     IN  \/ hit /\ Return("OK", <<call.arg>>, FALSE)
         \/ ~hit /\ Return("NOT_FOUND", <<>>, FALSE)
         \/ Return("NOT_FOUND", <<>>, TRUE)     \* no memory for the search
         \/ hit /\ Return("ERR_MEMORY", <<>>, TRUE)
  /\ UNCHANGED <<db, iter>> /\ UNCHANGED fileVars

-----------------------------------------------------------------------------
(* udx_db_key_entry_prefix_match, from the leaf on                          *)

\* Mutant: the mark of no next leaf is not 0.
NextOfMarked(pos) == IF pos = root THEN -1 ELSE nodes[pos].next
\* next_leaf is read only when the leaf is not the root.
NextOf(pos) == IF pos = root THEN 0 ELSE nodes[pos].next

FirstCapFor(limit) == IF limit > 0 /\ limit < FirstCap THEN limit ELSE FirstCap

EnterLeaf ==
  /\ call.op = "prefix" /\ call.at = 0 /\ nodes[call.node].kind = "leaf"
  /\ LET entries == nodes[call.node].keys
         lb      == LowerBound(entries, call.arg)
         hit     == lb <= Len(entries) /\ HasPrefix(entries[lb], call.arg)
     IN  \/ /\ hit
            /\ call' = [call EXCEPT !.next = NextOf(call.node), !.at = lb,
                                    !.cap = FirstCapFor(call.limit)]
            /\ UNCHANGED ret
         \/ ~hit /\ Return("NOT_FOUND", <<>>, FALSE)
         \/ Return("NOT_FOUND", <<>>, TRUE)     \* no memory for the search
         \/ hit /\ Return("ERR_MEMORY", <<>>, TRUE)
         \/ call.node # root /\ Return("ERR_IO", <<>>, TRUE)
  /\ UNCHANGED <<db, iter>> /\ UNCHANGED fileVars

\* The label cleanup of the code: nothing found, or what was found so far.
Deliver(out, fault) ==
  Return(IF out = <<>> THEN "NOT_FOUND" ELSE "OK", out, fault)

Scanning == call.op = "prefix" /\ call.at # 0

\* Mutant: the limit is tested before the entry is counted.
LimitReachedLate(out) == call.limit > 0 /\ Len(out) > call.limit
LimitReached(out)     == call.limit > 0 /\ Len(out) >= call.limit

\* The scan goes on behind the entry, with out and cap as given.
Advance(out, cap, fault) ==
  IF LimitReached(out) THEN Deliver(out, fault)
  ELSE /\ call' = [call EXCEPT !.at = @ + 1, !.out = out, !.cap = cap, !.fault = fault]
       /\ UNCHANGED ret

ScanEntry ==
  /\ Scanning /\ call.at <= Len(nodes[call.node].keys)
  /\ LET w    == nodes[call.node].keys[call.at]
         full == Len(call.out) >= call.cap
     IN  \/ ~HasPrefix(w, call.arg) /\ Deliver(call.out, call.fault)
         \/ /\ HasPrefix(w, call.arg)
            /\ \/ Advance(Append(call.out, w),
                          IF full THEN 2 * call.cap ELSE call.cap, call.fault)
               \/ full /\ Advance(call.out, call.cap, TRUE)  \* push fails, ignored
               \/ Return("ERR_FORMAT", <<>>, TRUE)           \* parse_entry fails
  /\ UNCHANGED <<db, iter>> /\ UNCHANGED fileVars

\* Mutant: the link of the leaf before is kept.
LinkKept(pos) == call.next
LinkRead(pos) == nodes[pos].next

ScanLeaf ==
  /\ Scanning /\ call.at > Len(nodes[call.node].keys)
  /\ \/ call.next = 0 /\ Deliver(call.out, call.fault)
     \/ /\ call.next # 0 /\ Acceptable(call.next)
        /\ call' = [call EXCEPT !.node = call.next, !.at = 1,
                                !.next = LinkRead(call.next)]
        /\ UNCHANGED ret
     \/ call.next # 0 /\ Deliver(call.out, TRUE)   \* the next leaf is not read
  /\ UNCHANGED <<db, iter>> /\ UNCHANGED fileVars

\* What a call under way does next.
CallNext == Descend \/ SearchLeaf \/ EnterLeaf \/ ScanEntry \/ ScanLeaf

-----------------------------------------------------------------------------
(* udx_db_iter_create, udx_db_iter_next, udx_db_iter_destroy                *)

IterCreate ==
  /\ db /\ call.op = "none" /\ ~iter.open
  /\ Acceptable(first)
  /\ iter' = [NoIter EXCEPT !.open = TRUE, !.leaf = first, !.at = 1,
                            !.next = nodes[first].next]
  /\ UNCHANGED <<db, call, ret>> /\ UNCHANGED fileVars

\* Mutant: a leaf that was not read is taken for the end.
IterGivesUp(status) == [iter EXCEPT !.status = status, !.next = 0]
IterFailed(status)  == [iter EXCEPT !.status = status]

IterTakes(leaf, at, next) ==
  iter' = [iter EXCEPT !.leaf = leaf, !.at = at + 1, !.next = next,
                       !.got = Append(@, nodes[leaf].keys[at]), !.status = "OK"]

IterNext ==
  /\ iter.open /\ call.op = "none"
  /\ IF iter.at <= Len(nodes[iter.leaf].keys)
       THEN \/ IterTakes(iter.leaf, iter.at, iter.next)
            \/ iter' = IterFailed("ERR_FORMAT")               \* parse_entry fails
     ELSE IF iter.next = 0
       THEN iter' = [iter EXCEPT !.status = "DONE"]
     ELSE \/ /\ Acceptable(iter.next)
             /\ \/ IterTakes(iter.next, 1, nodes[iter.next].next)
                \/ iter' = [iter EXCEPT !.leaf = iter.next, !.at = 1,
                                        !.next = nodes[iter.next].next,
                                        !.status = "ERR_FORMAT"]
          \/ \E status \in {"ERR_FORMAT", "ERR_IO"} : iter' = IterFailed(status)
  /\ UNCHANGED <<db, call, ret>> /\ UNCHANGED fileVars

IterDestroy ==
  /\ iter.open /\ call.op = "none"
  /\ iter' = NoIter
  /\ UNCHANGED <<db, call, ret>> /\ UNCHANGED fileVars

ReadNext ==
  \/ DbOpen \/ DbClose \/ StartLookup \/ StartPrefix \/ CallNext
  \/ IterCreate \/ IterNext \/ IterDestroy
==============================================================================
