------------------------------ MODULE IndexTree ------------------------------
(***************************************************************************)
(* The index of one database: udx_writer.c builds the tree, udx_reader.c    *)
(* then answers from it.                                                    *)
(***************************************************************************)
EXTENDS IndexBuild, IndexRead, SequencesExt

readVars == <<db, call, ret, iter>>
vars == <<buildVars, readVars>>

Init == BuildInit /\ ReadInit

BuildStep == BuildNext /\ UNCHANGED readVars
ReadStep  == ReadNext /\ UNCHANGED <<todo, taken, stack, result, lastLeaf>>

Next == BuildStep \/ ReadStep

Spec == Init /\ [][Next]_vars

\* A call that was made is executed until it returns.
CallStep == CallNext /\ UNCHANGED <<todo, taken, stack, result, lastLeaf>>
FairSpec == Spec /\ WF_vars(CallStep)

-----------------------------------------------------------------------------
Frame == [size : Nat, prev : Nat, children : Seq(Nat), seps : Seq(Words),
          height : Nat]
Status == {"OK", "DONE", "NOT_FOUND", "ERR_FORMAT", "ERR_IO", "ERR_MEMORY"}

\* Every variable holds a value of its kind.
TypeOK ==
  /\ keys \in Seq(Words) /\ nodes \in Seq(Node)
  /\ phase \in {"call", "return", "built", "failed"}
  /\ root \in Nat /\ first \in Nat /\ height \in Nat
  /\ todo \in Nat /\ taken \in Nat /\ lastLeaf \in Nat
  /\ stack \in Seq(Frame)
  /\ result \in [pos : Nat, height : Nat]
  /\ db \in BOOLEAN
  /\ call \in [op : {"none", "lookup", "prefix"}, arg : Words, limit : Nat,
               node : Nat, next : Nat, at : Nat, out : Seq(Words), cap : Nat,
               fault : BOOLEAN]
  /\ ret \in [op : {"none", "lookup", "prefix"}, arg : Words, limit : Nat,
              status : Status, out : Seq(Words), fault : BOOLEAN]
  /\ iter \in [open : BOOLEAN, leaf : Nat, at : Nat, next : Nat,
               got : Seq(Words), status : Status]

-----------------------------------------------------------------------------
(* What is built.                                                           *)

\* The keys below each node, in the order of its leaves.
Content ==
  LET below[p \in 1 .. Len(nodes)] ==
        IF nodes[p].kind = "leaf" THEN nodes[p].keys
        ELSE FlattenSeq([i \in 1 .. Len(nodes[p].children) |->
                           below[nodes[p].children[i]]])
  IN  below

\* The number of nodes on the longest way down from each node.
Depth ==
  LET depth[p \in 1 .. Len(nodes)] ==
        IF nodes[p].kind = "leaf" THEN 1
        ELSE 1 + Max({depth[nodes[p].children[i]] :
                        i \in 1 .. Len(nodes[p].children)})
  IN  depth

IsLeaf(p) == nodes[p].kind = "leaf"
Leaves == {p \in 1 .. Len(nodes) : IsLeaf(p)}
Separators == UNION {ToSet(nodes[p].keys) : p \in {q \in 1 .. Len(nodes) : ~IsLeaf(q)}}

\* The keys of the leaves among the nodes up to each, as they lie in the file.
Listed ==
  LET listed[p \in 0 .. Len(nodes)] ==
        IF p = 0 THEN <<>>
        ELSE IF IsLeaf(p) THEN listed[p - 1] \o nodes[p].keys ELSE listed[p - 1]
  IN  listed

FirstOf(ps) == IF ps = {} THEN 0 ELSE Min(ps)

\* At any moment the leaves hold the keys delivered so far, each once and in
\* order, and the links lead from the first leaf through all of them.
LeavesChained ==
  /\ Listed[Len(nodes)] = SubSeq(keys, 1, taken)
  /\ \A p \in Leaves : nodes[p].next = FirstOf({q \in Leaves : q > p})
  /\ first = FirstOf(Leaves)

\* An inner node stands behind its children, has one more of them than
\* separators, and every separator is the greatest key below the child to
\* its left and smaller than all keys to its right; the root covers all keys.
TreeSound ==
  /\ phase = "built" => Content[root] = keys
  /\ \A p \in 1 .. Len(nodes) : ~IsLeaf(p) =>
       LET children == nodes[p].children
           seps     == nodes[p].keys
       IN  /\ Len(children) = MaxElements + 1 /\ Len(seps) = MaxElements
           /\ \A i \in 1 .. Len(children) :
                children[i] \in 1 .. p - 1 /\ Content[children[i]] # <<>>
           /\ \A i \in 1 .. Len(seps) :
                /\ seps[i] = Last(Content[children[i]])
                /\ seps[i] < Head(Content[children[i + 1]])

\* The split of the keys between children neither asks the iterator for more
\* keys than there are nor calls for an empty leaf, and leaves no key over.
SplitExact ==
  /\ phase = "call" => todo > 0 /\ taken + todo <= Len(keys)
  /\ phase = "built" => taken = Len(keys)

\* The height in the database header is the depth of the tree, although its
\* leaves need not lie at one depth.
HeightIsDepth == phase = "built" => height = Depth[root]

-----------------------------------------------------------------------------
(* What is answered.                                                        *)

\* The keys with a prefix, in order.
Matching(w) ==
  LET upTo[i \in 0 .. Len(keys)] ==
        IF i = 0 THEN <<>>
        ELSE IF HasPrefix(keys[i], w) THEN Append(upTo[i - 1], keys[i]) ELSE upTo[i - 1]
  IN  upTo[Len(keys)]

\* A lookup that found the key, or did not find it and had no failure, is
\* right, for keys that are not separators.
LookupAnswers ==
  ret.op = "lookup" =>
    /\ ret.status = "OK" => ret.out = <<ret.arg>> /\ ret.arg \in KeySet
    /\ ret.status = "NOT_FOUND" /\ ~ret.fault => ret.arg \notin KeySet \ Separators

\* A prefix match returns entries with the prefix, in order, each once and at
\* most limit of them; without a failure the first ones, but for the prefix
\* itself where it is a separator.
PrefixAnswers ==
  ret.op = "prefix" =>
    LET all   == Matching(ret.arg)
        found == IF ret.arg \in KeySet \cap Separators THEN Tail(all) ELSE all
        cut   == IF ret.limit > 0 /\ ret.limit < Len(found)
                   THEN SubSeq(found, 1, ret.limit) ELSE found
    IN  /\ ret.status = "OK" <=> ret.out # <<>>
        /\ ret.limit > 0 => Len(ret.out) <= ret.limit
        /\ \A i \in 1 .. Len(ret.out) :
             /\ ret.out[i] \in ToSet(found)
             /\ i > 1 => ret.out[i - 1] < ret.out[i]
        /\ ~ret.fault => ret.out = cut

\* A lookup or prefix match returns: the way down ends at a leaf and the way
\* along the links ends, also when entries are dropped for want of memory and
\* never count towards the limit.
CallEnds == call.op # "none" ~> call.op = "none"

\* An iterator delivers the keys in order; a call that fails loses none and
\* repeats none when it is repeated, and the end is reported at the end only.
IteratorExact ==
  iter.open =>
    /\ IsPrefix(iter.got, keys)
    /\ iter.status = "DONE" => iter.got = keys

-----------------------------------------------------------------------------
(* What udx_reader.h and udx_db_builder_finalize say, and the code does not *)
(* do.                                                                      *)

\* udx_reader.h: a lookup of a key of the database finds it.
LookupComplete ==
  ret.op = "lookup" /\ ret.status = "NOT_FOUND" /\ ~ret.fault => ret.arg \notin KeySet

\* udx_reader.h: a lookup or prefix match that meets an error returns an error,
\* not UDX_OK with a part of the entries nor UDX_NOT_FOUND.
FailuresAreErrors ==
  ret.fault => ret.status \in {"ERR_FORMAT", "ERR_IO", "ERR_MEMORY"}

\* A database that was finalized can be opened and read.
BuiltIsReadable ==
  phase = "built" => \A p \in 1 .. Len(nodes) : Acceptable(p)
==============================================================================
