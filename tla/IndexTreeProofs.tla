--------------------------- MODULE IndexTreeProofs ---------------------------
(***************************************************************************)
(* Lookups and iterators answer from the index what the sorted keys demand, *)
(* for any number of keys, any size of the leaves and any failures of their *)
(* reads and allocations.                                                   *)
(*                                                                         *)
(* Below, lo and hi are the spans of IndexBuildProofs: the keys below the   *)
(* node p are those behind lo[p], up to hi[p].                              *)
(***************************************************************************)
EXTENDS IndexBuildProofs, FiniteSetTheorems, WellFoundedInduction

\* While the index is built nobody reads it.
Idle ==
  phase # "built" => db = FALSE /\ call = NoCall /\ ret = NoRet /\ iter = NoIter

Calls ==
  [op : {"none", "lookup", "prefix"}, arg : Words, limit : Nat, node : Nat, next : Nat,
   at : Nat, out : Seq(Words), cap : Nat, fault : BOOLEAN]
Answers ==
  [op : {"none", "lookup", "prefix"}, arg : Words, limit : Nat, status : Status,
   out : Seq(Words), fault : BOOLEAN]
Iters ==
  [open : BOOLEAN, leaf : Nat, at : Nat, next : Nat, got : Seq(Words), status : Status]

\* The way down has not left the key that is looked up behind.
Covered(w, p, lo, hi) ==
  \A k \in 1 .. Len(keys) : keys[k] = w /\ w \notin Separators => lo[p] < k /\ k <= hi[p]

IsLeafOf(ns, p) == p \in 1 .. Len(ns) /\ ns[p].kind = "leaf"

CallSound(c, lo, hi) ==
  /\ c \in Calls
  /\ c.op # "none" =>
       /\ c.node \in 1 .. Len(nodes)
       /\ c.next # 0 => IsLeafOf(nodes, c.next)
       /\ c.at # 0 => IsLeafOf(nodes, c.node)
       /\ c.op = "lookup" => Covered(c.arg, c.node, lo, hi)

AnswerSound(r) ==
  /\ r \in Answers
  /\ r.op = "lookup" =>
       /\ r.status = "OK" => r.out = <<r.arg>> /\ r.arg \in KeySet
       /\ r.status = "NOT_FOUND" /\ ~r.fault => r.arg \notin KeySet \ Separators

\* An iterator stands behind as many keys as it delivered.
IterSound(it, lo, hi) ==
  /\ it \in Iters
  /\ it.open =>
       /\ IsLeafOf(nodes, it.leaf)
       /\ it.at \in 1 .. Len(nodes[it.leaf].keys) + 1
       /\ it.next = nodes[it.leaf].next
       /\ Len(it.got) = lo[it.leaf] + it.at - 1
       /\ \A i \in 1 .. Len(it.got) : it.got[i] = keys[i]
       /\ it.status = "DONE" => Len(it.got) = Len(keys)

ReadInv(lo, hi) ==
  /\ db \in BOOLEAN /\ Idle
  /\ CallSound(call, lo, hi) /\ AnswerSound(ret) /\ IterSound(iter, lo, hi)

TreeInv == \E lo, hi, st \in Spans : BuildInv(lo, hi, st) /\ ReadInv(lo, hi)

-----------------------------------------------------------------------------
(* Counting the entries below a key.                                        *)

LEMMA LargestBelow ==
  ASSUME NEW n \in Nat, NEW T, T \subseteq 1 .. n, T # {}
  PROVE  \E m \in T : \A k \in T : k <= m
<1> DEFINE D == {n - k : k \in T}
           R == OpToRel(<, Nat)
<1>1. D \subseteq Nat /\ D # {}
  <2>1. D \subseteq Nat  OBVIOUS
  <2>2. PICK k \in T : TRUE  OBVIOUS
  <2>3. n - k \in D  BY <2>2
  <2> HIDE DEF D
  <2> QED BY <2>1, <2>3
<1>2. IsWellFoundedOn(R, Nat)  BY NatLessThanWellFounded, Zenon
<1>3. \A i, j \in Nat : i < j => <<i, j>> \in R  BY DEF OpToRel
<1> HIDE DEF D, R
<1>4. PICK x \in D : \A y \in D : ~ (<<y, x>> \in R)
  BY <1>1, <1>2, WFMin, Zenon
<1>5. PICK m \in T : x = n - m  BY DEF D
<1>6. ASSUME NEW k \in T PROVE k <= m
  <2>1. n - k \in D  BY DEF D
  <2>2. n - k \in Nat /\ x \in Nat  BY <1>1, <2>1
  <2>3. ~(n - k < x)  BY <1>3, <1>4, <2>1, <2>2
  <2>4. k \in Int /\ m \in Int  OBVIOUS
  <2> QED BY <1>5, <2>2, <2>3, <2>4
<1> QED BY <1>6

\* A set of numbers that is closed downward is counted by its largest number.
LEMMA CountOfInitial ==
  ASSUME NEW n \in Nat, NEW S, S \subseteq 1 .. n,
         \A i \in S, j \in 1 .. n : j < i => j \in S
  PROVE  /\ Cardinality(S) \in 0 .. n
         /\ \A i \in 1 .. n : i \in S <=> i <= Cardinality(S)
<1>1. CASE S = {}
  <2>1. Cardinality(S) = 0  BY <1>1, FS_EmptySet
  <2> QED BY <1>1, <2>1
<1>2. CASE S # {}
  <2>1. PICK m \in S : \A k \in S : k <= m  BY <1>2, LargestBelow
  <2>2. m \in 1 .. n  BY <2>1
  <2>3. S = 1 .. m
    <3>1. ASSUME NEW i \in S PROVE i \in 1 .. m
      <4>1. i \in 1 .. n /\ i <= m  BY <2>1
      <4> QED BY <4>1, <2>2
    <3>2. ASSUME NEW i \in 1 .. m PROVE i \in S
      <4>1. i \in 1 .. n  BY <2>2
      <4>2. i = m \/ i < m  BY <2>2
      <4> QED BY <4>1, <4>2, <2>1
    <3> QED BY <3>1, <3>2
  <2>4. Cardinality(1 .. m) = m
    <3>1. Cardinality(1 .. m) = IF 1 > m THEN 0 ELSE m - 1 + 1  BY <2>2, FS_Interval
    <3> QED BY <3>1, <2>2
  <2> QED BY <2>2, <2>3, <2>4
<1> QED BY <1>1, <1>2
-----------------------------------------------------------------------------
(* The searches of one node.                                                *)

LEMMA KeysFacts ==
  ASSUME keys \in KeyLists
  PROVE  /\ keys \in Seq(Words) /\ Len(keys) \in Nat /\ Len(keys) > 0
         /\ \A i \in 1 .. Len(keys) : keys[i] \in Words /\ keys[i] \in Int
         /\ \A i, j \in 1 .. Len(keys) : i < j => keys[i] < keys[j]
<1>1. /\ keys \in Seq(Words) /\ keys # <<>>
      /\ \A i, j \in 1 .. Len(keys) : i < j => keys[i] < keys[j]
  BY KeysAssumption
<1>2. Len(keys) \in Nat /\ Len(keys) > 0  BY <1>1
<1>3. \A i \in 1 .. Len(keys) : keys[i] \in Words  BY <1>1
<1>4. Words \subseteq Int  BY IndexAssumption DEF Words
<1> QED BY <1>1, <1>2, <1>3, <1>4

LEMMA NodeFacts ==
  ASSUME NEW lo \in Spans, NEW hi \in Spans, NEW st \in Spans, BuildInv(lo, hi, st),
         NEW p \in 1 .. Len(nodes)
  PROVE  /\ p \in Nat /\ nodes[p] \in Node /\ nodes[p].next \in Nat
         /\ nodes[p].kind = "leaf" \/ nodes[p].kind = "inner"
         /\ nodes[p].keys \in Seq(Words) /\ nodes[p].children \in Seq(Nat)
         /\ lo[p] \in Nat /\ hi[p] \in Nat /\ lo[p] < hi[p] /\ hi[p] <= Len(keys)
         /\ nodes[p].kind = "leaf" => LeafSound(nodes, p, lo, hi, lastLeaf)
         /\ nodes[p].kind = "inner" => InnerSound(nodes, p, lo, hi)
<1>1. nodes \in Seq(Node) /\ NodesSound(nodes, lo, hi, lastLeaf)  BY Building
<1>2. p \in Nat  OBVIOUS
<1>3. nodes[p] \in Node  BY <1>1
<1>4. lo[p] \in Nat /\ hi[p] \in Nat  BY <1>2 DEF Spans
<1>5. NodeSound(nodes, p, lo, hi, lastLeaf)  BY <1>1 DEF NodesSound
<1>6. /\ nodes[p].next \in Nat /\ nodes[p].kind \in {"leaf", "inner"}
      /\ nodes[p].keys \in Seq(Words) /\ nodes[p].children \in Seq(Nat)
  BY <1>3 DEF Node
<1> QED BY <1>2, <1>3, <1>4, <1>5, <1>6 DEF NodeSound

\* search_leaf_node ends at the first entry that is not below w.
LEMMA LowerBoundIs ==
  ASSUME NEW es \in Seq(Words), NEW w \in Words,
         \A i, j \in 1 .. Len(es) : i < j => es[i] < es[j]
  PROVE  /\ LowerBound(es, w) \in 1 .. Len(es) + 1
         /\ \A i \in 1 .. Len(es) : es[i] < w <=> i < LowerBound(es, w)
<1> DEFINE n == Len(es)
           S == {i \in 1 .. n : es[i] < w}
<1>1. n \in Nat /\ S \subseteq 1 .. n  OBVIOUS
<1>2. Words \subseteq Int  BY IndexAssumption DEF Words
<1>3. \A i \in 1 .. n : es[i] \in Words  OBVIOUS
<1>4. ASSUME NEW i \in S, NEW j \in 1 .. n, j < i PROVE j \in S
  <2>1. es[j] < es[i] /\ es[i] < w  BY <1>4
  <2>2. es[i] \in Int /\ es[j] \in Int /\ w \in Int  BY <1>2, <1>3
  <2> QED BY <2>1, <2>2
<1>5. LowerBound(es, w) = 1 + Cardinality(S)  BY DEF LowerBound
<1>6. \A i \in 1 .. n : i \in S <=> es[i] < w  OBVIOUS
<1> HIDE DEF S
<1>7. /\ Cardinality(S) \in 0 .. n
      /\ \A i \in 1 .. n : i \in S <=> i <= Cardinality(S)
  BY <1>1, <1>4, CountOfInitial
<1> QED BY <1>1, <1>5, <1>6, <1>7

\* The entries of a leaf are keys in their order.
LEMMA LeafEntries ==
  ASSUME NEW lo \in Spans, NEW hi \in Spans, NEW st \in Spans, BuildInv(lo, hi, st),
         NEW p, IsLeafOf(nodes, p)
  PROVE  LET es == nodes[p].keys IN
         /\ es \in Seq(Words) /\ Len(es) \in Nat /\ Len(es) > 0
         /\ hi[p] = lo[p] + Len(es)
         /\ \A i \in 1 .. Len(es) :
              /\ lo[p] + i \in 1 .. Len(keys) /\ es[i] = keys[lo[p] + i]
              /\ es[i] \in KeySet
         /\ \A i, j \in 1 .. Len(es) : i < j => es[i] < es[j]
<1> DEFINE es == nodes[p].keys
<1>1. p \in 1 .. Len(nodes) /\ nodes[p].kind = "leaf"  BY DEF IsLeafOf
<1>2. /\ es \in Seq(Words) /\ LeafSound(nodes, p, lo, hi, lastLeaf)
      /\ lo[p] \in Nat /\ hi[p] \in Nat /\ lo[p] < hi[p] /\ hi[p] <= Len(keys)
  BY <1>1, NodeFacts
<1>3. keys \in KeyLists  BY Building
<1>4. Len(es) \in Nat /\ Len(keys) \in Nat  BY <1>2, <1>3, KeysFacts
<1>5. hi[p] = lo[p] + Len(es) /\ \A i \in 1 .. Len(es) : es[i] = keys[lo[p] + i]
  BY <1>2 DEF LeafSound
<1>6. \A i \in 1 .. Len(es) : lo[p] + i \in 1 .. Len(keys)  BY <1>2, <1>4, <1>5
<1>7. \A i \in 1 .. Len(es) : es[i] \in KeySet  BY <1>5, <1>6 DEF KeySet
<1>8. ASSUME NEW i \in 1 .. Len(es), NEW j \in 1 .. Len(es), i < j PROVE es[i] < es[j]
  <2>1. lo[p] + i < lo[p] + j  BY <1>2, <1>8
  <2>2. keys[lo[p] + i] < keys[lo[p] + j]  BY <2>1, <1>3, <1>6, KeysFacts
  <2> QED BY <2>2, <1>5
<1> QED BY <1>2, <1>4, <1>5, <1>6, <1>7, <1>8

\* The children of an inner node share its span between them.
LEMMA InnerFacts ==
  ASSUME NEW lo \in Spans, NEW hi \in Spans, NEW st \in Spans, BuildInv(lo, hi, st),
         NEW p \in 1 .. Len(nodes), nodes[p].kind = "inner"
  PROVE  LET cs == nodes[p].children
             seps == nodes[p].keys
         IN  /\ Len(cs) = M + 1 /\ Len(seps) = M
             /\ \A i \in 1 .. M + 1 : cs[i] \in 1 .. p - 1 /\ cs[i] \in 1 .. Len(nodes)
             /\ lo[cs[1]] = lo[p] /\ hi[cs[M + 1]] = hi[p]
             /\ \A i \in 1 .. M : hi[cs[i]] = lo[cs[i + 1]]
             /\ \A i, j \in 1 .. M + 1 : i < j => hi[cs[i]] <= lo[cs[j]]
             /\ \A i \in 1 .. M : seps[i] = keys[hi[cs[i]]]
             /\ \A i \in 1 .. M + 1 :
                  /\ lo[cs[i]] \in Nat /\ hi[cs[i]] \in 1 .. Len(keys)
                  /\ lo[cs[i]] < hi[cs[i]]
<1> DEFINE n    == Len(nodes)
           cs   == nodes[p].children
           seps == nodes[p].keys
<1>1. InnerSound(nodes, p, lo, hi) /\ p \in Nat  BY NodeFacts
<1>2. keys \in KeyLists /\ Len(nodes) \in Nat  BY Building
<1>3. M \in Nat \ {0}  BY IndexAssumption DEF M
<1>4. /\ Len(cs) = M + 1 /\ Len(seps) = M
      /\ \A i \in 1 .. M + 1 : cs[i] \in 1 .. p - 1 /\ cs[i] \in 1 .. n
      /\ lo[cs[1]] = lo[p] /\ hi[cs[M + 1]] = hi[p]
      /\ \A i \in 1 .. M : hi[cs[i]] = lo[cs[i + 1]]
      /\ \A i, j \in 1 .. M + 1 : i < j => hi[cs[i]] <= lo[cs[j]]
      /\ \A i \in 1 .. M : seps[i] = keys[hi[cs[i]]]
  <2>1. /\ Len(cs) = M + 1 /\ Len(seps) = M
        /\ \A i \in 1 .. M + 1 : cs[i] \in 1 .. p - 1
        /\ Row(cs, seps, lo[p], hi[p], lo, hi)
    BY <1>1 DEF InnerSound
  <2>2. cs # <<>>
    <3>1. Len(<<>>) = 0  OBVIOUS
    <3>2. Len(cs) # 0  BY <2>1, <1>3
    <3> QED BY <3>1, <3>2, Zenon
  <2>3. 1 .. M + 1 - 1 = 1 .. M  BY <1>3
  <2>4. \A i \in 1 .. M + 1 : cs[i] \in 1 .. n  BY <2>1, <1>2
  <2> QED BY <2>1, <2>2, <2>3, <2>4 DEF Row
<1>5. \A i \in 1 .. M + 1 :
        /\ lo[cs[i]] \in Nat /\ hi[cs[i]] \in 1 .. Len(keys) /\ lo[cs[i]] < hi[cs[i]]
  <2> SUFFICES ASSUME NEW i \in 1 .. M + 1
               PROVE  /\ lo[cs[i]] \in Nat /\ hi[cs[i]] \in 1 .. Len(keys)
                      /\ lo[cs[i]] < hi[cs[i]]
    OBVIOUS
  <2> DEFINE q == cs[i]
  <2>1. q \in 1 .. Len(nodes)  BY <1>4
  <2> HIDE DEF q
  <2>2. /\ lo[q] \in Nat /\ hi[q] \in Nat /\ lo[q] < hi[q] /\ hi[q] <= Len(keys)
    BY <2>1, NodeFacts
  <2>3. Len(keys) \in Nat  BY <1>2, KeysFacts
  <2>4. hi[q] \in 1 .. Len(keys)  BY <2>2, <2>3
  <2> QED BY <2>2, <2>4 DEF q
<1> QED BY <1>4, <1>5

\* find_child_offset leads to a node that exists, and not away from a key that
\* is no separator.
LEMMA ChildFound ==
  ASSUME NEW lo \in Spans, NEW hi \in Spans, NEW st \in Spans, BuildInv(lo, hi, st),
         NEW p \in 1 .. Len(nodes), nodes[p].kind = "inner", NEW w \in Words
  PROVE  /\ FindChild(nodes[p], w) \in 1 .. Len(nodes)
         /\ Covered(w, p, lo, hi) => Covered(w, FindChild(nodes[p], w), lo, hi)
<1> DEFINE n    == Len(nodes)
           cs   == nodes[p].children
           seps == nodes[p].keys
           S    == Passed(nodes[p], w)
           c    == Cardinality(S)
<1>1. /\ seps \in Seq(Words) /\ cs \in Seq(Nat) /\ InnerSound(nodes, p, lo, hi)
      /\ p \in Nat /\ hi[p] \in Nat /\ lo[p] \in Nat
  BY NodeFacts
<1>2. keys \in KeyLists /\ Len(nodes) \in Nat  BY Building
<1>3. M \in Nat \ {0}  BY IndexAssumption DEF M
<1>4. /\ Len(cs) = M + 1 /\ Len(seps) = M
      /\ \A i \in 1 .. M + 1 : cs[i] \in 1 .. n
      /\ lo[cs[1]] = lo[p] /\ hi[cs[M + 1]] = hi[p]
      /\ \A i \in 1 .. M : hi[cs[i]] = lo[cs[i + 1]]
      /\ \A i, j \in 1 .. M + 1 : i < j => hi[cs[i]] <= lo[cs[j]]
      /\ \A i \in 1 .. M : seps[i] = keys[hi[cs[i]]]
  BY InnerFacts
<1>5. \A i \in 1 .. M + 1 :
        /\ lo[cs[i]] \in Nat /\ hi[cs[i]] \in 1 .. Len(keys) /\ lo[cs[i]] < hi[cs[i]]
  BY InnerFacts
<1>6. Words \subseteq Int  BY IndexAssumption DEF Words
<1>7. \A i \in 1 .. M : seps[i] \in Words /\ seps[i] \in Int
  <2>1. seps \in Seq(Words) /\ Len(seps) = M  BY <1>1, <1>4
  <2> HIDE DEF seps
  <2>2. \A i \in 1 .. M : seps[i] \in Words  BY <2>1
  <2> QED BY <2>2, <1>6
<1>8. S = {i \in 1 .. M : seps[i] <= w}  BY <1>4 DEF Passed
<1> HIDE DEF S, cs, seps
<1>9. ASSUME NEW i \in S, NEW j \in 1 .. M, j < i PROVE j \in S
  <2>1. i \in 1 .. M /\ seps[i] <= w  BY <1>8
  <2>2. i \in 1 .. M + 1 /\ j \in 1 .. M + 1  BY <2>1, <1>3
  <2>3. hi[cs[j]] < hi[cs[i]]
    <3>1. hi[cs[j]] <= lo[cs[i]]  BY <2>2, <1>4, <1>9
    <3>2. lo[cs[i]] < hi[cs[i]] /\ lo[cs[i]] \in Nat /\ hi[cs[i]] \in Nat /\ hi[cs[j]] \in Nat
      BY <2>2, <1>5
    <3> QED BY <3>1, <3>2
  <2>4. keys[hi[cs[j]]] < keys[hi[cs[i]]]  BY <2>2, <2>3, <1>2, <1>5, KeysFacts
  <2>5. seps[j] < seps[i]  BY <2>1, <2>4, <1>4
  <2>6. seps[j] \in Int /\ seps[i] \in Int /\ w \in Int  BY <2>1, <1>6, <1>7
  <2> QED BY <2>1, <2>5, <2>6, <1>8
<1>10. c \in 0 .. M /\ \A i \in 1 .. M : i \in S <=> i <= c
  <2>1. S \subseteq 1 .. M /\ M \in Nat  BY <1>3, <1>8
  <2> QED BY <2>1, <1>9, CountOfInitial
<1> HIDE DEF c
<1>11. FindChild(nodes[p], w) = cs[c + 1] /\ c + 1 \in 1 .. M + 1
  BY <1>3, <1>10 DEF FindChild, c, S, cs
<1>12. FindChild(nodes[p], w) \in 1 .. Len(nodes)  BY <1>4, <1>11
<1>13. ASSUME Covered(w, p, lo, hi), NEW k \in 1 .. Len(keys), keys[k] = w, w \notin Separators
       PROVE  lo[cs[c + 1]] < k /\ k <= hi[cs[c + 1]]
  <2>1. lo[p] < k /\ k <= hi[p]  BY <1>13 DEF Covered
  <2>2. k \in Nat /\ w \in Int  BY <1>2, <1>6, KeysFacts
  <2>3. \A i \in 1 .. M : seps[i] # w
    <3>1. p \in {q \in 1 .. Len(nodes) : ~IsLeaf(q)}  BY DEF IsLeaf
    <3>2. ToSet(nodes[p].keys) \subseteq Separators  BY <3>1 DEF Separators
    <3>3. \A i \in 1 .. M : seps[i] \in {seps[j] : j \in 1 .. Len(seps)}  BY <1>4
    <3>4. ToSet(nodes[p].keys) = {seps[j] : j \in 1 .. Len(seps)}  BY DEF ToSet, seps
    <3> QED BY <3>2, <3>3, <3>4, <1>13
  <2>4. lo[cs[c + 1]] < k
    <3>1. CASE c = 0  BY <3>1, <2>1, <1>4
    <3>2. CASE c # 0
      <4>1. c \in 1 .. M /\ c \in 1 .. M + 1  BY <3>2, <1>3, <1>10
      <4>2. seps[c] <= w /\ seps[c] # w  BY <4>1, <2>3, <1>8, <1>10
      <4>3. seps[c] = keys[hi[cs[c]]] /\ lo[cs[c + 1]] = hi[cs[c]]  BY <4>1, <1>4
      <4>4. hi[cs[c]] \in 1 .. Len(keys)  BY <4>1, <1>5
      <4>5. ~(k <= hi[cs[c]])
        <5> SUFFICES ASSUME k <= hi[cs[c]] PROVE FALSE  OBVIOUS
        <5> DEFINE h == hi[cs[c]]
        <5>1. h \in 1 .. Len(keys) /\ k <= h  BY <4>4
        <5> HIDE DEF h
        <5>2. k < h \/ k = h  BY <5>1, <2>2
        <5>3. k = h \/ keys[k] < keys[h]  BY <5>1, <5>2, <1>2, KeysFacts
        <5>4. w = seps[c] \/ w < seps[c]  BY <5>3, <4>3, <1>13 DEF h
        <5> QED BY <5>4, <4>1, <4>2, <2>2, <1>7
      <4> QED BY <4>3, <4>4, <4>5, <2>2
    <3> QED BY <3>1, <3>2
  <2>5. k <= hi[cs[c + 1]]
    <3>1. CASE c = M  BY <3>1, <2>1, <1>4
    <3>2. CASE c # M
      <4>1. c + 1 \in 1 .. M /\ c + 1 \in 1 .. M + 1  BY <3>2, <1>3, <1>10
      <4>2. ~(c + 1 <= c)  BY <1>10
      <4>3. ~(seps[c + 1] <= w)  BY <4>1, <4>2, <1>8, <1>10
      <4>4. seps[c + 1] = keys[hi[cs[c + 1]]] /\ hi[cs[c + 1]] \in 1 .. Len(keys)
        BY <4>1, <1>4, <1>5
      <4>5. ~(hi[cs[c + 1]] < k)
        <5> SUFFICES ASSUME hi[cs[c + 1]] < k PROVE FALSE  OBVIOUS
        <5>1. keys[hi[cs[c + 1]]] < keys[k]  BY <4>4, <1>2, KeysFacts
        <5>2. seps[c + 1] < w /\ seps[c + 1] \in Int  BY <5>1, <4>1, <4>4, <1>7, <1>13
        <5> QED BY <5>2, <4>3, <2>2
      <4> QED BY <4>4, <4>5, <2>2
    <3> QED BY <3>1, <3>2
  <2> QED BY <2>4, <2>5
<1>14. Covered(w, p, lo, hi) => Covered(w, FindChild(nodes[p], w), lo, hi)
  BY <1>11, <1>13 DEF Covered
<1> QED BY <1>12, <1>14

-----------------------------------------------------------------------------
(* The index that was built.                                                *)

LEMMA BuiltFacts ==
  ASSUME NEW lo \in Spans, NEW hi \in Spans, NEW st \in Spans, BuildInv(lo, hi, st),
         phase = "built"
  PROVE  /\ root \in 1 .. Len(nodes) /\ lo[root] = 0 /\ hi[root] = Len(keys)
         /\ IsLeafOf(nodes, first) /\ lo[first] = 0
         /\ lastLeaf # 0 /\ hi[lastLeaf] = Len(keys)
<1>1. keys \in KeyLists /\ EndsSound(nodes, lo, hi) /\ Progress(lo, hi, st)
  BY Building
<1>2. /\ taken = Len(keys) /\ root \in 1 .. Len(nodes)
      /\ lo[root] = 0 /\ hi[root] = Len(keys)
  BY <1>1 DEF Progress
<1>3. Len(keys) \in Nat /\ Len(keys) > 0  BY <1>1, KeysFacts
<1>4. lastLeaf # 0  BY <1>1, <1>2, <1>3 DEF EndsSound
<1> QED BY <1>1, <1>2, <1>4 DEF EndsSound, IsLeafOf

\* The link of a leaf leads to the leaf with the keys that follow.
LEMMA LinkLeads ==
  ASSUME NEW lo \in Spans, NEW hi \in Spans, NEW st \in Spans, BuildInv(lo, hi, st),
         phase = "built", NEW p, IsLeafOf(nodes, p)
  PROVE  /\ nodes[p].next \in Nat
         /\ nodes[p].next = 0 => hi[p] = Len(keys)
         /\ nodes[p].next # 0 => /\ IsLeafOf(nodes, nodes[p].next)
                                 /\ lo[nodes[p].next] = hi[p]
<1>1. p \in 1 .. Len(nodes) /\ nodes[p].kind = "leaf"  BY DEF IsLeafOf
<1>2. LeafSound(nodes, p, lo, hi, lastLeaf) /\ nodes[p].next \in Nat
  BY <1>1, NodeFacts
<1> QED BY <1>2, BuiltFacts DEF LeafSound, IsLeafOf

\* Nobody but the builder touches what the reader's invariant speaks of.
LEMMA ReadInvPrimed ==
  ASSUME NEW lo, NEW hi, phase = "built", UNCHANGED buildVars, db' \in BOOLEAN,
         CallSound(call', lo, hi), AnswerSound(ret'), IterSound(iter', lo, hi)
  PROVE  ReadInv(lo, hi)'
<1>1. UNCHANGED <<keys, nodes, phase>>  BY DEF buildVars
<1>2. KeySet' = KeySet  BY <1>1 DEF KeySet
<1>3. Separators' = Separators  BY <1>1 DEF Separators, IsLeaf
<1>4. CallSound(call, lo, hi)'  BY <1>1, <1>3 DEF CallSound, Covered, IsLeafOf
<1>5. AnswerSound(ret)'  BY <1>2, <1>3 DEF AnswerSound
<1>6. IterSound(iter, lo, hi)'  BY <1>1 DEF IterSound, IsLeafOf
<1>7. Idle'  BY <1>1 DEF Idle
<1> QED BY <1>4, <1>5, <1>6, <1>7 DEF ReadInv

LEMMA NothingSound ==
  ASSUME NEW lo, NEW hi
  PROVE  CallSound(NoCall, lo, hi) /\ AnswerSound(NoRet) /\ IterSound(NoIter, lo, hi)
<1>1. 0 \in Words  BY IndexAssumption DEF Words
<1>2. <<>> \in Seq(Words)  OBVIOUS
<1>3. NoCall \in Calls /\ NoCall.op = "none"  BY <1>1, <1>2 DEF NoCall, Calls
<1>4. NoRet \in Answers /\ NoRet.op = "none"  BY <1>1, <1>2 DEF NoRet, Answers, Status
<1>5. NoIter \in Iters /\ ~NoIter.open  BY <1>2 DEF NoIter, Iters, Status
<1> QED BY <1>3, <1>4, <1>5 DEF CallSound, AnswerSound, IterSound

\* What a call returns is sound as soon as it is typed, but for what a lookup
\* says of the keys.
LEMMA Returned ==
  ASSUME NEW lo, NEW hi, CallSound(call, lo, hi), NEW status \in Status, NEW out \in Seq(Words),
         NEW fault \in BOOLEAN, Return(status, out, fault),
         call.op = "lookup" =>
           /\ status = "OK" => out = <<call.arg>> /\ call.arg \in KeySet
           /\ status = "NOT_FOUND" /\ ~fault => call.arg \notin KeySet \ Separators
  PROVE  CallSound(call', lo, hi) /\ AnswerSound(ret')
<1>1. /\ call' = NoCall
      /\ ret' = [op |-> call.op, arg |-> call.arg, limit |-> call.limit,
                 status |-> status, out |-> out, fault |-> fault]
  BY DEF Return
<1>2. call \in Calls  BY DEF CallSound
<1>3. /\ call.op \in {"none", "lookup", "prefix"} /\ call.arg \in Words /\ call.limit \in Nat
  BY <1>2 DEF Calls
<1>4. ret' \in Answers  BY <1>1, <1>3 DEF Answers
<1>5. AnswerSound(ret')  BY <1>1, <1>4 DEF AnswerSound
<1> QED BY <1>1, <1>5, NothingSound

-----------------------------------------------------------------------------
(* The steps of the readers.                                                *)

\* Readers find the index built.
LEMMA Reading ==
  ASSUME NEW lo, NEW hi, ReadInv(lo, hi)
  PROVE  /\ db \in BOOLEAN
         /\ CallSound(call, lo, hi) /\ AnswerSound(ret) /\ IterSound(iter, lo, hi)
         /\ call \in Calls /\ iter \in Iters
         /\ call.op # "none" \/ db = TRUE \/ iter.open => phase = "built"
<1>1. /\ db \in BOOLEAN /\ Idle
      /\ CallSound(call, lo, hi) /\ AnswerSound(ret) /\ IterSound(iter, lo, hi)
  BY DEF ReadInv
<1>2. call \in Calls /\ iter \in Iters  BY <1>1 DEF CallSound, IterSound
<1>3. NoCall.op = "none" /\ NoIter.open = FALSE  BY DEF NoCall, NoIter
<1>4. call.op # "none" \/ db = TRUE \/ iter.open => phase = "built"  BY <1>1, <1>3 DEF Idle
<1> QED BY <1>1, <1>2, <1>4

LEMMA DbStepInv ==
  ASSUME NEW lo \in Spans, NEW hi \in Spans, NEW st \in Spans, BuildInv(lo, hi, st),
         ReadInv(lo, hi), UNCHANGED buildVars, DbOpen \/ DbClose
  PROVE  ReadInv(lo, hi)'
<1>1. CASE DbOpen
  <2>1. phase = "built" /\ db' = TRUE /\ UNCHANGED <<call, ret, iter>>
    BY <1>1 DEF DbOpen
  <2> QED BY <2>1, Reading, ReadInvPrimed
<1>2. CASE DbClose
  <2>1. db /\ db' = FALSE /\ ret' = NoRet /\ UNCHANGED <<call, iter>>
    BY <1>2 DEF DbClose
  <2>2. db = TRUE  BY <2>1, Reading
  <2> QED BY <2>1, <2>2, Reading, NothingSound, ReadInvPrimed
<1> QED BY <1>1, <1>2

LEMMA StartInv ==
  ASSUME NEW lo \in Spans, NEW hi \in Spans, NEW st \in Spans, BuildInv(lo, hi, st),
         ReadInv(lo, hi), UNCHANGED buildVars, NEW op \in {"lookup", "prefix"}, NEW w \in Words,
         NEW limit \in Nat, Start(op, w, limit)
  PROVE  ReadInv(lo, hi)'
<1>1. /\ db /\ UNCHANGED <<db, iter>>
      /\ \/ /\ call' = [NoCall EXCEPT !.op = op, !.arg = w, !.limit = limit, !.node = root]
            /\ ret' = NoRet
         \/ /\ call' = NoCall
            /\ ret' = [op |-> op, arg |-> w, limit |-> limit,
                       status |-> "ERR_MEMORY", out |-> <<>>, fault |-> TRUE]
  BY DEF Start
<1>2. phase = "built" /\ db = TRUE  BY <1>1, Reading
<1>3. root \in 1 .. Len(nodes) /\ root \in Nat /\ lo[root] = 0 /\ hi[root] = Len(keys)
  BY <1>2, BuiltFacts
<1>4. CASE call' = NoCall
  <2>1. ret' = [op |-> op, arg |-> w, limit |-> limit,
               status |-> "ERR_MEMORY", out |-> <<>>, fault |-> TRUE]
    BY <1>1, <1>4, <1>3 DEF NoCall
  <2>2. AnswerSound(ret')  BY <2>1 DEF AnswerSound, Answers, Status
  <2> QED BY <1>1, <1>2, <1>4, <2>2, Reading, NothingSound, ReadInvPrimed
<1>5. CASE call' = [NoCall EXCEPT !.op = op, !.arg = w, !.limit = limit, !.node = root] /\ ret' = NoRet
  <2>1. call' = [op |-> op, arg |-> w, limit |-> limit, node |-> root, next |-> 0,
                at |-> 0, out |-> <<>>, cap |-> 0, fault |-> FALSE]
    BY <1>5 DEF NoCall
  <2>2. call' \in Calls  BY <2>1, <1>3 DEF Calls
  <2>3. Len(keys) \in Nat  BY Building
  <2>4. Covered(w, root, lo, hi)  BY <1>3, <2>3 DEF Covered
  <2>5. CallSound(call', lo, hi)  BY <1>3, <2>1, <2>2, <2>4 DEF CallSound
  <2> QED BY <1>1, <1>2, <1>5, <2>5, Reading, NothingSound, ReadInvPrimed
<1> QED BY <1>1, <1>4, <1>5

LEMMA DescendInv ==
  ASSUME NEW lo \in Spans, NEW hi \in Spans, NEW st \in Spans, BuildInv(lo, hi, st),
         ReadInv(lo, hi), UNCHANGED buildVars, Descend
  PROVE  ReadInv(lo, hi)'
<1>1. /\ call.op # "none" /\ call.at = 0 /\ nodes[call.node].kind = "inner"
      /\ UNCHANGED <<db, iter>>
  BY DEF Descend
<1>2. /\ phase = "built" /\ call \in Calls /\ CallSound(call, lo, hi)
      /\ AnswerSound(ret) /\ IterSound(iter, lo, hi) /\ db' \in BOOLEAN
      /\ IterSound(iter', lo, hi)
  BY <1>1, Reading
<1> DEFINE child == FindChild(nodes[call.node], call.arg)
<1>3. call.node \in 1 .. Len(nodes) /\ call.arg \in Words
  BY <1>1, <1>2 DEF CallSound, Calls
<1>4. /\ child \in 1 .. Len(nodes)
      /\ Covered(call.arg, call.node, lo, hi) => Covered(call.arg, child, lo, hi)
  BY <1>1, <1>3, ChildFound
<1>5. \/ call' = [call EXCEPT !.node = child] /\ UNCHANGED ret
      \/ Return("ERR_FORMAT", <<>>, TRUE)
  BY DEF Descend
<1> HIDE DEF child
<1>6. CASE call' = [call EXCEPT !.node = child] /\ UNCHANGED ret
  <2>1. child \in Nat  BY <1>4
  <2>2. /\ call' \in Calls /\ call'.op = call.op /\ call'.arg = call.arg
        /\ call'.node = child /\ call'.next = call.next /\ call'.at = 0
    BY <1>1, <1>2, <1>6, <2>1 DEF Calls
  <2>3. CallSound(call', lo, hi)  BY <1>1, <1>2, <1>4, <2>2 DEF CallSound
  <2> QED BY <1>2, <1>6, <2>3, ReadInvPrimed
<1>7. CASE Return("ERR_FORMAT", <<>>, TRUE)
  <2>1. "ERR_FORMAT" \in Status /\ <<>> \in Seq(Words) /\ TRUE \in BOOLEAN  BY DEF Status
  <2>2. CallSound(call', lo, hi) /\ AnswerSound(ret')
    BY <1>2, <1>7, <2>1, Returned
  <2> QED BY <1>2, <2>2, ReadInvPrimed
<1> QED BY <1>5, <1>6, <1>7

\* At the leaf: a key that the way down covered is there or nowhere.
LEMMA LeafDecides ==
  ASSUME NEW lo \in Spans, NEW hi \in Spans, NEW st \in Spans, BuildInv(lo, hi, st),
         NEW p, IsLeafOf(nodes, p), NEW w \in Words, Covered(w, p, lo, hi)
  PROVE  LET es == nodes[p].keys
             lb == LowerBound(es, w)
             hit == lb <= Len(es) /\ es[lb] = w
         IN  /\ hit => w \in KeySet
             /\ ~hit => w \notin KeySet \ Separators
<1> DEFINE es == nodes[p].keys
           lb == LowerBound(es, w)
           hit == lb <= Len(es) /\ es[lb] = w
<1>1. /\ es \in Seq(Words) /\ Len(es) \in Nat /\ hi[p] = lo[p] + Len(es)
      /\ \A i \in 1 .. Len(es) :
           /\ lo[p] + i \in 1 .. Len(keys) /\ es[i] = keys[lo[p] + i]
           /\ es[i] \in KeySet
      /\ \A i, j \in 1 .. Len(es) : i < j => es[i] < es[j]
  BY LeafEntries
<1>2. p \in Nat /\ lo[p] \in Nat  BY DEF IsLeafOf, Spans
<1> HIDE DEF es
<1>3. lb \in 1 .. Len(es) + 1 /\ \A i \in 1 .. Len(es) : es[i] < w <=> i < lb
  BY <1>1, LowerBoundIs
<1> HIDE DEF lb
<1>4. hit => w \in KeySet
  <2>1. hit => lb \in 1 .. Len(es)  BY <1>1, <1>3
  <2> QED BY <2>1, <1>1
<1>5. ASSUME ~hit PROVE w \notin KeySet \ Separators
  <2> SUFFICES ASSUME w \in KeySet, w \notin Separators PROVE FALSE  OBVIOUS
  <2>1. PICK k \in 1 .. Len(keys) : keys[k] = w  BY DEF KeySet
  <2>2. lo[p] < k /\ k <= hi[p]  BY <2>1 DEF Covered
  <2>3. PICK i \in 1 .. Len(es) : k = lo[p] + i
    <3>1. k - lo[p] \in 1 .. Len(es) /\ k = lo[p] + (k - lo[p])  BY <1>1, <1>2, <2>2
    <3> QED BY <3>1
  <2>4. es[i] = w  BY <1>1, <2>1, <2>3
  <2>5. Words \subseteq Int  BY IndexAssumption DEF Words
  <2>6. w \in Int /\ \A j \in 1 .. Len(es) : es[j] \in Words  BY <1>1, <2>5
  <2>7. ~(i < lb)  BY <1>3, <2>4, <2>6
  <2>8. i # lb  BY <1>5, <2>4
  <2>9. lb < i /\ lb \in 1 .. Len(es)  BY <1>1, <1>3, <2>7, <2>8
  <2>10. es[lb] < es[i]  BY <2>9, <1>1
  <2>11. lb < lb  BY <2>4, <2>9, <2>10, <1>3
  <2> QED BY <2>9, <2>11
<1> QED BY <1>4, <1>5 DEF es, lb

LEMMA SearchLeafInv ==
  ASSUME NEW lo \in Spans, NEW hi \in Spans, NEW st \in Spans, BuildInv(lo, hi, st),
         ReadInv(lo, hi), UNCHANGED buildVars, SearchLeaf
  PROVE  ReadInv(lo, hi)'
<1> DEFINE es  == nodes[call.node].keys
           lb  == LowerBound(es, call.arg)
           hit == lb <= Len(es) /\ es[lb] = call.arg
<1>1. /\ call.op = "lookup" /\ nodes[call.node].kind = "leaf" /\ UNCHANGED <<db, iter>>
      /\ \/ hit /\ Return("OK", <<call.arg>>, FALSE)
         \/ ~hit /\ Return("NOT_FOUND", <<>>, FALSE)
         \/ Return("NOT_FOUND", <<>>, TRUE)
         \/ hit /\ Return("ERR_MEMORY", <<>>, TRUE)
  BY DEF SearchLeaf
<1>2. /\ phase = "built" /\ call \in Calls /\ CallSound(call, lo, hi)
      /\ db' \in BOOLEAN /\ IterSound(iter', lo, hi)
  BY <1>1, Reading
<1>3. /\ IsLeafOf(nodes, call.node) /\ call.arg \in Words
      /\ Covered(call.arg, call.node, lo, hi)
  BY <1>1, <1>2 DEF CallSound, Calls, IsLeafOf
<1>4. hit => call.arg \in KeySet  BY <1>3, LeafDecides
<1>5. ~hit => call.arg \notin KeySet \ Separators  BY <1>3, LeafDecides
<1> HIDE DEF hit
<1>6. /\ <<call.arg>> \in Seq(Words) /\ <<>> \in Seq(Words)
      /\ "OK" \in Status /\ "NOT_FOUND" \in Status /\ "ERR_MEMORY" \in Status
      /\ TRUE \in BOOLEAN /\ FALSE \in BOOLEAN
  BY <1>3 DEF Status
<1>7. CallSound(call', lo, hi) /\ AnswerSound(ret')
  BY <1>1, <1>2, <1>4, <1>5, <1>6, Returned
<1> QED BY <1>2, <1>7, ReadInvPrimed

LEMMA EnterLeafInv ==
  ASSUME NEW lo \in Spans, NEW hi \in Spans, NEW st \in Spans, BuildInv(lo, hi, st),
         ReadInv(lo, hi), UNCHANGED buildVars, EnterLeaf
  PROVE  ReadInv(lo, hi)'
<1> DEFINE es  == nodes[call.node].keys
           lb  == LowerBound(es, call.arg)
           new == [call EXCEPT !.next = NextOf(call.node), !.at = lb,
                               !.cap = FirstCapFor(call.limit)]
<1>1. /\ call.op = "prefix" /\ nodes[call.node].kind = "leaf" /\ UNCHANGED <<db, iter>>
      /\ \/ call' = new /\ UNCHANGED ret
         \/ Return("NOT_FOUND", <<>>, FALSE)
         \/ Return("NOT_FOUND", <<>>, TRUE)
         \/ Return("ERR_MEMORY", <<>>, TRUE)
         \/ Return("ERR_IO", <<>>, TRUE)
  BY DEF EnterLeaf
<1>2. /\ phase = "built" /\ call \in Calls /\ CallSound(call, lo, hi)
      /\ AnswerSound(ret) /\ db' \in BOOLEAN /\ IterSound(iter', lo, hi)
  BY <1>1, Reading
<1>3. IsLeafOf(nodes, call.node) /\ call.arg \in Words /\ call.limit \in Nat
  BY <1>1, <1>2 DEF CallSound, Calls, IsLeafOf
<1>4. CASE call' = new /\ UNCHANGED ret
  <2>1. lb \in Nat
    <3>1. es \in Seq(Words) /\ Len(es) \in Nat
          /\ \A i, j \in 1 .. Len(es) : i < j => es[i] < es[j]
      BY <1>3, LeafEntries
    <3> HIDE DEF es
    <3>2. lb \in 1 .. Len(es) + 1  BY <1>3, <3>1, LowerBoundIs
    <3> QED BY <3>1, <3>2
  <2>2. /\ NextOf(call.node) \in Nat
        /\ NextOf(call.node) # 0 => IsLeafOf(nodes, NextOf(call.node))
    BY <1>2, <1>3, LinkLeads DEF NextOf
  <2>3. FirstCapFor(call.limit) \in Nat  BY <1>3, ReadAssumption DEF FirstCapFor
  <2> HIDE DEF lb
  <2>4. /\ call' \in Calls /\ call'.op = "prefix" /\ call'.node = call.node
        /\ call'.next = NextOf(call.node)
    BY <1>1, <1>2, <1>4, <2>1, <2>2, <2>3 DEF Calls
  <2>5. CallSound(call', lo, hi)  BY <1>3, <2>2, <2>4 DEF CallSound, IsLeafOf
  <2> QED BY <1>2, <1>4, <2>5, ReadInvPrimed
<1>5. ASSUME NEW status \in {"NOT_FOUND", "ERR_MEMORY", "ERR_IO"}, NEW fault \in BOOLEAN,
             Return(status, <<>>, fault)
      PROVE  ReadInv(lo, hi)'
  <2>1. status \in Status /\ <<>> \in Seq(Words)  BY DEF Status
  <2>2. CallSound(call', lo, hi) /\ AnswerSound(ret')
    BY <1>1, <1>2, <1>5, <2>1, Returned
  <2> QED BY <1>2, <2>2, ReadInvPrimed
<1> HIDE DEF new
<1> QED BY <1>1, <1>4, <1>5

\* What a prefix match found so far is delivered.
LEMMA DeliverInv ==
  ASSUME NEW lo \in Spans, NEW hi \in Spans, NEW st \in Spans, BuildInv(lo, hi, st),
         ReadInv(lo, hi), UNCHANGED buildVars, call.op = "prefix", NEW out \in Seq(Words),
         NEW fault \in BOOLEAN, Deliver(out, fault), UNCHANGED <<db, iter>>
  PROVE  ReadInv(lo, hi)'
<1> DEFINE status == IF out = <<>> THEN "NOT_FOUND" ELSE "OK"
<1>1. /\ phase = "built" /\ CallSound(call, lo, hi)
      /\ db' \in BOOLEAN /\ IterSound(iter', lo, hi)
  BY Reading
<1>2. status \in Status /\ Return(status, out, fault)  BY DEF Deliver, Status
<1> HIDE DEF status
<1>3. CallSound(call', lo, hi) /\ AnswerSound(ret')  BY <1>1, <1>2, Returned
<1> QED BY <1>1, <1>3, ReadInvPrimed

\* Or it goes on behind the entry.
LEMMA AdvanceInv ==
  ASSUME NEW lo \in Spans, NEW hi \in Spans, NEW st \in Spans, BuildInv(lo, hi, st),
         ReadInv(lo, hi), UNCHANGED buildVars, Scanning, NEW out \in Seq(Words), NEW cap \in Nat,
         NEW fault \in BOOLEAN, Advance(out, cap, fault), UNCHANGED <<db, iter>>
  PROVE  ReadInv(lo, hi)'
<1>1. call.op = "prefix" /\ call.at # 0  BY DEF Scanning
<1>2. /\ phase = "built" /\ call \in Calls /\ CallSound(call, lo, hi)
      /\ AnswerSound(ret) /\ db' \in BOOLEAN /\ IterSound(iter', lo, hi)
  BY <1>1, Reading
<1>3. CASE LimitReached(out)
  <2>1. Deliver(out, fault)  BY <1>3 DEF Advance
  <2> QED BY <1>1, <2>1, DeliverInv
<1>4. CASE ~LimitReached(out)
  <2>1. /\ call' = [call EXCEPT !.at = @ + 1, !.out = out, !.cap = cap, !.fault = fault]
        /\ UNCHANGED ret
    BY <1>4 DEF Advance
  <2>2. call.at \in Nat /\ call.at + 1 \in Nat  BY <1>2 DEF Calls
  <2>3. call' = [op |-> call.op, arg |-> call.arg, limit |-> call.limit, node |-> call.node,
                 next |-> call.next, at |-> call.at + 1, out |-> out, cap |-> cap,
                 fault |-> fault]
    BY <1>2, <2>1 DEF Calls
  <2>4. /\ call' \in Calls /\ call'.op = "prefix" /\ call'.node = call.node
        /\ call'.next = call.next
    BY <1>1, <1>2, <2>2, <2>3 DEF Calls
  <2>5. CallSound(call', lo, hi)  BY <1>1, <1>2, <2>4 DEF CallSound
  <2> QED BY <1>2, <2>1, <2>5, ReadInvPrimed
<1> QED BY <1>3, <1>4

LEMMA ScanEntryInv ==
  ASSUME NEW lo \in Spans, NEW hi \in Spans, NEW st \in Spans, BuildInv(lo, hi, st),
         ReadInv(lo, hi), UNCHANGED buildVars, ScanEntry
  PROVE  ReadInv(lo, hi)'
<1> DEFINE w    == nodes[call.node].keys[call.at]
           full == Len(call.out) >= call.cap
<1>1. /\ Scanning /\ call.op = "prefix" /\ call.at # 0
      /\ call.at <= Len(nodes[call.node].keys) /\ UNCHANGED <<db, iter>>
      /\ \/ Deliver(call.out, call.fault)
         \/ Advance(Append(call.out, w), IF full THEN 2 * call.cap ELSE call.cap, call.fault)
         \/ Advance(call.out, call.cap, TRUE)
         \/ Return("ERR_FORMAT", <<>>, TRUE)
  BY DEF ScanEntry, Scanning
<1>2. /\ phase = "built" /\ call \in Calls /\ CallSound(call, lo, hi)
      /\ db' \in BOOLEAN /\ IterSound(iter', lo, hi)
  BY <1>1, Reading
<1>3. /\ call.out \in Seq(Words) /\ call.fault \in BOOLEAN /\ call.cap \in Nat
      /\ call.at \in Nat
  BY <1>2 DEF Calls
<1>4. w \in Words
  <2>1. IsLeafOf(nodes, call.node)  BY <1>1, <1>2 DEF CallSound
  <2>2. /\ nodes[call.node].keys \in Seq(Words)
        /\ Len(nodes[call.node].keys) \in Nat
    BY <2>1, LeafEntries
  <2>3. call.at \in 1 .. Len(nodes[call.node].keys)  BY <1>1, <1>3, <2>2
  <2> QED BY <2>2, <2>3
<1> HIDE DEF w
<1>5. CASE Deliver(call.out, call.fault)  BY <1>1, <1>3, <1>5, DeliverInv
<1>6. CASE Advance(Append(call.out, w), IF full THEN 2 * call.cap ELSE call.cap, call.fault)
  <2> DEFINE cap == IF full THEN 2 * call.cap ELSE call.cap
             out == Append(call.out, w)
  <2>1. cap \in Nat /\ out \in Seq(Words)  BY <1>3, <1>4
  <2>2. Advance(out, cap, call.fault)  BY <1>6
  <2> HIDE DEF cap, out
  <2> QED BY <1>1, <1>3, <2>1, <2>2, AdvanceInv
<1>7. CASE Advance(call.out, call.cap, TRUE)
  <2>1. TRUE \in BOOLEAN  OBVIOUS
  <2> QED BY <1>1, <1>3, <1>7, <2>1, AdvanceInv
<1>8. CASE Return("ERR_FORMAT", <<>>, TRUE)
  <2>1. "ERR_FORMAT" \in Status /\ <<>> \in Seq(Words) /\ TRUE \in BOOLEAN  BY DEF Status
  <2>2. CallSound(call', lo, hi) /\ AnswerSound(ret')
    BY <1>1, <1>2, <1>8, <2>1, Returned
  <2> QED BY <1>2, <2>2, ReadInvPrimed
<1> QED BY <1>1, <1>5, <1>6, <1>7, <1>8

LEMMA ScanLeafInv ==
  ASSUME NEW lo \in Spans, NEW hi \in Spans, NEW st \in Spans, BuildInv(lo, hi, st),
         ReadInv(lo, hi), UNCHANGED buildVars, ScanLeaf
  PROVE  ReadInv(lo, hi)'
<1>1. /\ Scanning /\ call.op = "prefix" /\ call.at # 0 /\ UNCHANGED <<db, iter>>
      /\ \/ Deliver(call.out, call.fault)
         \/ /\ call.next # 0
            /\ call' = [call EXCEPT !.node = call.next, !.at = 1,
                                    !.next = LinkRead(call.next)]
            /\ UNCHANGED ret
         \/ Deliver(call.out, TRUE)
  BY DEF ScanLeaf, Scanning
<1>2. /\ phase = "built" /\ call \in Calls /\ CallSound(call, lo, hi)
      /\ AnswerSound(ret) /\ db' \in BOOLEAN /\ IterSound(iter', lo, hi)
  BY <1>1, Reading
<1>3. call.out \in Seq(Words) /\ call.fault \in BOOLEAN /\ TRUE \in BOOLEAN
      /\ call.next \in Nat
  BY <1>2 DEF Calls
<1>4. CASE Deliver(call.out, call.fault)  BY <1>1, <1>3, <1>4, DeliverInv
<1>5. CASE Deliver(call.out, TRUE)  BY <1>1, <1>3, <1>5, DeliverInv
<1>6. CASE /\ call.next # 0
           /\ call' = [call EXCEPT !.node = call.next, !.at = 1,
                                   !.next = LinkRead(call.next)]
           /\ UNCHANGED ret
  <2>1. IsLeafOf(nodes, call.next)  BY <1>1, <1>2, <1>6 DEF CallSound
  <2>2. /\ LinkRead(call.next) \in Nat
        /\ LinkRead(call.next) # 0 => IsLeafOf(nodes, LinkRead(call.next))
    BY <1>2, <2>1, LinkLeads DEF LinkRead
  <2>3. /\ call' \in Calls /\ call'.op = "prefix" /\ call'.node = call.next
        /\ call'.next = LinkRead(call.next)
    BY <1>1, <1>2, <1>3, <1>6, <2>2 DEF Calls
  <2>4. CallSound(call', lo, hi)  BY <2>1, <2>2, <2>3 DEF CallSound, IsLeafOf
  <2> QED BY <1>2, <1>6, <2>4, ReadInvPrimed
<1> QED BY <1>1, <1>4, <1>5, <1>6

LEMMA IterCreateInv ==
  ASSUME NEW lo \in Spans, NEW hi \in Spans, NEW st \in Spans, BuildInv(lo, hi, st),
         ReadInv(lo, hi), UNCHANGED buildVars, IterCreate
  PROVE  ReadInv(lo, hi)'
<1>1. /\ db /\ UNCHANGED <<db, call, ret>>
      /\ iter' = [NoIter EXCEPT !.open = TRUE, !.leaf = first, !.at = 1,
                                !.next = nodes[first].next]
  BY DEF IterCreate
<1>2. db = TRUE /\ phase = "built" /\ CallSound(call, lo, hi) /\ AnswerSound(ret)
  BY <1>1, Reading
<1>3. IsLeafOf(nodes, first) /\ lo[first] = 0  BY <1>2, BuiltFacts
<1>4. nodes[first].next \in Nat /\ first \in Nat  BY <1>2, <1>3, LinkLeads DEF IsLeafOf
<1>5. iter' = [open |-> TRUE, leaf |-> first, at |-> 1, next |-> nodes[first].next,
               got |-> <<>>, status |-> "OK"]
  BY <1>1 DEF NoIter
<1>6. <<>> \in Seq(Words) /\ Len(<<>>) = 0  OBVIOUS
<1>7. iter' \in Iters  BY <1>4, <1>5, <1>6 DEF Iters, Status
<1>8. 1 \in 1 .. Len(nodes[first].keys) + 1
  <2>1. Len(nodes[first].keys) \in Nat  BY <1>3, LeafEntries
  <2> QED BY <2>1
<1>9. IterSound(iter', lo, hi)  BY <1>3, <1>5, <1>6, <1>7, <1>8 DEF IterSound
<1> QED BY <1>1, <1>2, <1>9, ReadInvPrimed

LEMMA IterDestroyInv ==
  ASSUME NEW lo \in Spans, NEW hi \in Spans, NEW st \in Spans, BuildInv(lo, hi, st),
         ReadInv(lo, hi), UNCHANGED buildVars, IterDestroy
  PROVE  ReadInv(lo, hi)'
<1>1. iter.open /\ iter' = NoIter /\ UNCHANGED <<db, call, ret>>  BY DEF IterDestroy
<1> QED BY <1>1, Reading, NothingSound, ReadInvPrimed

\* An entry taken is the key that follows those delivered.
LEMMA Taken ==
  ASSUME NEW lo \in Spans, NEW hi \in Spans, NEW st \in Spans, BuildInv(lo, hi, st),
         phase = "built", iter \in Iters, iter.open,
         \A i \in 1 .. Len(iter.got) : iter.got[i] = keys[i],
         NEW leaf, IsLeafOf(nodes, leaf), NEW at \in 1 .. Len(nodes[leaf].keys),
         Len(iter.got) = lo[leaf] + at - 1,
         NEW next, next = nodes[leaf].next, IterTakes(leaf, at, next)
  PROVE  IterSound(iter', lo, hi)
<1> DEFINE w == nodes[leaf].keys[at]
<1>1. /\ Len(nodes[leaf].keys) \in Nat /\ nodes[leaf].keys \in Seq(Words)
      /\ lo[leaf] + at \in 1 .. Len(keys) /\ w = keys[lo[leaf] + at]
  BY LeafEntries
<1>2. w \in Words /\ at \in Nat  BY <1>1
<1>3. leaf \in Nat /\ next \in Nat  BY LinkLeads DEF IsLeafOf
<1>4. lo[leaf] \in Nat  BY <1>3 DEF Spans
<1>5. iter.got \in Seq(Words)  BY DEF Iters
<1> HIDE DEF w
<1> DEFINE got == Append(iter.got, w)
<1>6. /\ got \in Seq(Words) /\ Len(got) = Len(iter.got) + 1 /\ Len(iter.got) \in Nat
      /\ \A i \in 1 .. Len(iter.got) : got[i] = iter.got[i]
      /\ got[Len(iter.got) + 1] = w
  BY <1>2, <1>5
<1>7. iter' = [iter EXCEPT !.leaf = leaf, !.at = at + 1, !.next = next,
                           !.got = got, !.status = "OK"]
  BY DEF IterTakes, w
<1> HIDE DEF got
<1>8. /\ iter' \in Iters /\ iter'.leaf = leaf /\ iter'.at = at + 1 /\ iter'.next = next
      /\ iter'.got = got /\ iter'.status = "OK"
  <2>1. iter' = [open |-> iter.open, leaf |-> leaf, at |-> at + 1, next |-> next,
                 got |-> got, status |-> "OK"]
    BY <1>7 DEF Iters
  <2>2. iter.open \in BOOLEAN /\ at + 1 \in Nat /\ "OK" \in Status
    BY <1>2 DEF Iters, Status
  <2> QED BY <1>3, <1>6, <2>1, <2>2 DEF Iters
<1>9. Len(got) = lo[leaf] + (at + 1) - 1  BY <1>2, <1>4, <1>6
<1>10. at + 1 \in 1 .. Len(nodes[leaf].keys) + 1  BY <1>1
<1>11. ASSUME NEW i \in 1 .. Len(got) PROVE got[i] = keys[i]
  <2>1. CASE i \in 1 .. Len(iter.got)  BY <2>1, <1>6
  <2>2. CASE i = Len(iter.got) + 1
    <3>1. i = lo[leaf] + at  BY <2>2, <1>2, <1>4
    <3> QED BY <3>1, <2>2, <1>1, <1>6
  <2> QED BY <2>1, <2>2, <1>6
<1> QED BY <1>8, <1>9, <1>10, <1>11 DEF IterSound

LEMMA IterNextInv ==
  ASSUME NEW lo \in Spans, NEW hi \in Spans, NEW st \in Spans, BuildInv(lo, hi, st),
         ReadInv(lo, hi), UNCHANGED buildVars, IterNext
  PROVE  ReadInv(lo, hi)'
<1> DEFINE es == nodes[iter.leaf].keys
<1>1. iter.open /\ UNCHANGED <<db, call, ret>>  BY DEF IterNext
<1>2. /\ phase = "built" /\ iter \in Iters /\ IterSound(iter, lo, hi)
      /\ db' \in BOOLEAN /\ CallSound(call', lo, hi) /\ AnswerSound(ret')
  BY <1>1, Reading
<1>3. /\ IsLeafOf(nodes, iter.leaf) /\ iter.at \in 1 .. Len(es) + 1
      /\ iter.next = nodes[iter.leaf].next
      /\ Len(iter.got) = lo[iter.leaf] + iter.at - 1
      /\ \A i \in 1 .. Len(iter.got) : iter.got[i] = keys[i]
  BY <1>1, <1>2 DEF IterSound
<1>4. Len(es) \in Nat /\ hi[iter.leaf] = lo[iter.leaf] + Len(es)  BY <1>3, LeafEntries
<1>5. iter.leaf \in Nat  BY <1>3 DEF IsLeafOf
<1>6. lo[iter.leaf] \in Nat  BY <1>5 DEF Spans
<1>7. SUFFICES IterSound(iter', lo, hi)  BY <1>1, <1>2, ReadInvPrimed
<1>8. ASSUME NEW status \in {"ERR_FORMAT", "ERR_IO"}, iter' = IterFailed(status)
      PROVE  IterSound(iter', lo, hi)
  <2>1. /\ iter' \in Iters /\ iter'.leaf = iter.leaf /\ iter'.at = iter.at
        /\ iter'.next = iter.next /\ iter'.got = iter.got /\ iter'.status = status
    BY <1>2, <1>8 DEF Iters, Status, IterFailed
  <2> QED BY <1>3, <2>1 DEF IterSound
<1>9. CASE iter.at <= Len(es)
  <2>1. iter.at \in 1 .. Len(es)  BY <1>3, <1>4, <1>9
  <2>2. \/ IterTakes(iter.leaf, iter.at, iter.next)
        \/ iter' = IterFailed("ERR_FORMAT")
    BY <1>9 DEF IterNext
  <2>3. CASE IterTakes(iter.leaf, iter.at, iter.next)
    BY <1>1, <1>2, <1>3, <2>1, <2>3, Taken
  <2> QED BY <2>2, <2>3, <1>8
<1>10. CASE ~(iter.at <= Len(es)) /\ iter.next = 0
  <2>1. iter' = [iter EXCEPT !.status = "DONE"]  BY <1>10 DEF IterNext
  <2>2. /\ iter' \in Iters /\ iter'.leaf = iter.leaf /\ iter'.at = iter.at
        /\ iter'.next = iter.next /\ iter'.got = iter.got
    BY <1>2, <2>1 DEF Iters, Status
  <2>3. hi[iter.leaf] = Len(keys)
    <3>1. nodes[iter.leaf].next = 0  BY <1>3, <1>10
    <3> QED BY <3>1, <1>2, <1>3, LinkLeads
  <2>4. Len(iter.got) = Len(keys)
    <3>1. iter.at = Len(es) + 1  BY <1>3, <1>4, <1>10
    <3> HIDE DEF es
    <3> QED BY <2>3, <3>1, <1>3, <1>4, <1>6
  <2> QED BY <1>3, <2>2, <2>4 DEF IterSound
<1>11. CASE ~(iter.at <= Len(es)) /\ iter.next # 0
  <2> DEFINE q == iter.next
  <2>1. \/ IterTakes(q, 1, nodes[q].next)
        \/ iter' = [iter EXCEPT !.leaf = q, !.at = 1, !.next = nodes[q].next,
                                !.status = "ERR_FORMAT"]
        \/ \E status \in {"ERR_FORMAT", "ERR_IO"} : iter' = IterFailed(status)
    BY <1>11 DEF IterNext
  <2>2. IsLeafOf(nodes, q) /\ lo[q] = hi[iter.leaf] /\ q \in Nat
    BY <1>2, <1>3, <1>11, LinkLeads
  <2> HIDE DEF q
  <2>3. Len(iter.got) = lo[q] + 1 - 1
    <3>1. iter.at = Len(es) + 1  BY <1>3, <1>4, <1>11
    <3> HIDE DEF es
    <3> QED BY <2>2, <3>1, <1>3, <1>4, <1>6
  <2>4. 1 \in 1 .. Len(nodes[q].keys) /\ 1 \in 1 .. Len(nodes[q].keys) + 1
    <3>1. Len(nodes[q].keys) \in Nat /\ Len(nodes[q].keys) > 0  BY <2>2, LeafEntries
    <3> QED BY <3>1
  <2>5. CASE IterTakes(q, 1, nodes[q].next)
    BY <1>1, <1>2, <1>3, <2>2, <2>3, <2>4, <2>5, Taken
  <2>6. CASE iter' = [iter EXCEPT !.leaf = q, !.at = 1, !.next = nodes[q].next,
                                  !.status = "ERR_FORMAT"]
    <3>1. nodes[q].next \in Nat  BY <1>2, <2>2, LinkLeads
    <3>2. /\ iter' \in Iters /\ iter'.leaf = q /\ iter'.at = 1
          /\ iter'.next = nodes[q].next /\ iter'.got = iter.got
          /\ iter'.status = "ERR_FORMAT"
      BY <1>2, <2>2, <2>6, <3>1 DEF Iters, Status
    <3> QED BY <1>3, <2>2, <2>3, <2>4, <3>2 DEF IterSound
  <2> QED BY <2>1, <2>5, <2>6, <1>8
<1> QED BY <1>9, <1>10, <1>11

-----------------------------------------------------------------------------
(* The invariant and what it implies.                                       *)

LEMMA TreeInvInit == Init => TreeInv
<1> SUFFICES ASSUME Init PROVE TreeInv  OBVIOUS
<1>1. PICK lo \in Spans, hi \in Spans, st \in Spans : BuildInv(lo, hi, st)
  BY IndexInvInit DEF IndexInv
<1>2. db = FALSE /\ call = NoCall /\ ret = NoRet /\ iter = NoIter
  BY DEF Init, ReadInit
<1>3. ReadInv(lo, hi)  BY <1>2, NothingSound DEF ReadInv, Idle
<1> QED BY <1>1, <1>3 DEF TreeInv

\* Whatever is built, nobody reads yet.
LEMMA BuildStepInv ==
  ASSUME TreeInv, BuildStep
  PROVE  TreeInv'
<1>1. IndexInv /\ Next  BY DEF TreeInv, IndexInv, Next
<1>2. PICK lo \in Spans, hi \in Spans, st \in Spans : BuildInv(lo, hi, st)'
  BY <1>1, IndexInvStep DEF IndexInv
<1>3. phase \in {"call", "return"}
  BY DEF BuildStep, BuildNext, BuildLeaf, OpenNode, NextChild, CloseNode, BuildDone, BuildFails
<1>4. Idle  BY DEF TreeInv, ReadInv
<1>5. db' = FALSE /\ call' = NoCall /\ ret' = NoRet /\ iter' = NoIter
  BY <1>3, <1>4 DEF Idle, BuildStep, readVars
<1>6. /\ NoCall \in Calls /\ NoCall.op = "none" /\ NoRet \in Answers /\ NoRet.op = "none"
      /\ NoIter \in Iters /\ ~NoIter.open
  <2>1. 0 \in Words /\ <<>> \in Seq(Words)  BY IndexAssumption DEF Words
  <2> QED BY <2>1 DEF NoCall, NoRet, NoIter, Calls, Answers, Iters, Status
<1>7. CallSound(call, lo, hi)'  BY <1>5, <1>6 DEF CallSound
<1>8. AnswerSound(ret)'  BY <1>5, <1>6 DEF AnswerSound
<1>9. IterSound(iter, lo, hi)'  BY <1>5, <1>6 DEF IterSound
<1>10. ReadInv(lo, hi)'  BY <1>5, <1>7, <1>8, <1>9 DEF ReadInv, Idle
<1> QED BY <1>2, <1>10 DEF TreeInv

\* A reader's step keeps what the invariant says with the spans it has.
LEMMA ReadStepKept ==
  ASSUME NEW lo \in Spans, NEW hi \in Spans, NEW st \in Spans, BuildInv(lo, hi, st),
         ReadInv(lo, hi), ReadStep
  PROVE  BuildInv(lo, hi, st)' /\ ReadInv(lo, hi)'
<1>1. UNCHANGED buildVars  BY ReadsOnly
<1>2. BuildInv(lo, hi, st)'  BY <1>1, BuildKept
<1> SUFFICES ReadInv(lo, hi)'  BY <1>2
<1>3. CASE DbOpen \/ DbClose  BY <1>1, <1>3, DbStepInv
<1>4. CASE StartLookup
  <2>1. PICK w \in Words : Start("lookup", w, 0)  BY <1>4 DEF StartLookup
  <2> QED BY <1>1, <2>1, StartInv
<1>5. CASE StartPrefix
  <2>1. PICK w \in Words, limit \in Limits : Start("prefix", w, limit)
    BY <1>5 DEF StartPrefix
  <2>2. limit \in Nat  BY ReadAssumption
  <2> QED BY <1>1, <2>1, <2>2, StartInv
<1>6. CASE Descend      BY <1>1, <1>6, DescendInv
<1>7. CASE SearchLeaf   BY <1>1, <1>7, SearchLeafInv
<1>8. CASE EnterLeaf    BY <1>1, <1>8, EnterLeafInv
<1>9. CASE ScanEntry    BY <1>1, <1>9, ScanEntryInv
<1>10. CASE ScanLeaf    BY <1>1, <1>10, ScanLeafInv
<1>11. CASE IterCreate  BY <1>1, <1>11, IterCreateInv
<1>12. CASE IterNext    BY <1>1, <1>12, IterNextInv
<1>13. CASE IterDestroy BY <1>1, <1>13, IterDestroyInv
<1> QED
  BY <1>3, <1>4, <1>5, <1>6, <1>7, <1>8, <1>9, <1>10, <1>11, <1>12, <1>13
     DEF ReadStep, ReadNext, CallNext

LEMMA ReadStepInv ==
  ASSUME TreeInv, ReadStep
  PROVE  TreeInv'
<1> PICK lo \in Spans, hi \in Spans, st \in Spans : BuildInv(lo, hi, st) /\ ReadInv(lo, hi)
  BY DEF TreeInv
<1> QED BY ReadStepKept DEF TreeInv

LEMMA ReadInvStutters ==
  ASSUME NEW lo, NEW hi, ReadInv(lo, hi), UNCHANGED buildVars,
         UNCHANGED <<db, call, ret, iter>>
  PROVE  ReadInv(lo, hi)'
<1>1. CASE phase = "built"  BY <1>1, Reading, ReadInvPrimed
<1>2. CASE phase # "built"
  <2>1. UNCHANGED <<keys, nodes, phase>>  BY DEF buildVars
  <2>2. KeySet' = KeySet  BY <2>1 DEF KeySet
  <2>3. Separators' = Separators  BY <2>1 DEF Separators, IsLeaf
  <2> QED BY <2>1, <2>2, <2>3
          DEF ReadInv, Idle, CallSound, AnswerSound, IterSound, Covered
<1> QED BY <1>1, <1>2

LEMMA TreeInvStep == TreeInv /\ [Next]_vars => TreeInv'
<1> SUFFICES ASSUME TreeInv, [Next]_vars PROVE TreeInv'  OBVIOUS
<1>1. CASE UNCHANGED vars
  <2> PICK lo \in Spans, hi \in Spans, st \in Spans : BuildInv(lo, hi, st) /\ ReadInv(lo, hi)
    BY DEF TreeInv
  <2>1. UNCHANGED buildVars /\ UNCHANGED <<db, call, ret, iter>>
    BY <1>1 DEF vars, readVars
  <2>2. BuildInv(lo, hi, st)'  BY <2>1, BuildKept
  <2>3. ReadInv(lo, hi)'  BY <2>1, ReadInvStutters
  <2> QED BY <2>2, <2>3 DEF TreeInv
<1> QED BY <1>1, BuildStepInv, ReadStepInv DEF Next

LEMMA TreeInvariance == Spec => []TreeInv
BY TreeInvInit, TreeInvStep, PTL DEF Spec

\* Every variable of the builder, of the calls and of the iterator holds a
\* value of its kind.
THEOREM TypeCorrect == Spec => []TypeOK
<1>1. TreeInv => TypeOK
  <2> SUFFICES ASSUME TreeInv PROVE TypeOK  OBVIOUS
  <2> PICK lo \in Spans, hi \in Spans, st \in Spans : BuildInv(lo, hi, st) /\ ReadInv(lo, hi)
    BY DEF TreeInv
  <2>1. BuildTyped /\ keys \in Seq(Words)  BY Building DEF BuildInv
  <2>2. db \in BOOLEAN /\ call \in Calls /\ ret \in Answers /\ iter \in Iters
    BY DEF ReadInv, CallSound, AnswerSound, IterSound
  <2> QED BY <2>1, <2>2 DEF TypeOK, BuildTyped, Calls, Answers, Iters
<1> QED BY <1>1, TreeInvariance, PTL

\* A lookup that says UDX_OK returns the key it was asked for, a key of the
\* database; one that met no failure and says UDX_NOT_FOUND is right, for keys
\* that are not separators: the way down through find_child_offset never
\* leaves such a key behind.
THEOREM LookupsAnswer == Spec => []LookupAnswers
<1>1. TreeInv => LookupAnswers
  BY DEF TreeInv, ReadInv, AnswerSound, LookupAnswers
<1> QED BY <1>1, TreeInvariance, PTL

\* An iterator delivers the keys of the database in their order from the
\* first, whatever reads fail and are repeated in between, and says that it is
\* done only when it delivered them all.
THEOREM IteratorsExact == Spec => []IteratorExact
<1>1. TreeInv => IteratorExact
  <2> SUFFICES ASSUME TreeInv, iter.open
               PROVE  IsPrefix(iter.got, keys) /\ (iter.status = "DONE" => iter.got = keys)
    BY DEF IteratorExact
  <2> PICK lo \in Spans, hi \in Spans, st \in Spans : BuildInv(lo, hi, st) /\ ReadInv(lo, hi)
    BY DEF TreeInv
  <2>1. /\ phase = "built" /\ iter \in Iters /\ IterSound(iter, lo, hi)
        /\ keys \in KeyLists
    BY Reading, Building
  <2> DEFINE got == iter.got
             p   == iter.leaf
  <2>2. keys \in Seq(Words) /\ Len(keys) \in Nat /\ got \in Seq(Words)
    BY <2>1, KeysFacts DEF Iters
  <2>3. /\ IsLeafOf(nodes, p) /\ iter.at \in 1 .. Len(nodes[p].keys) + 1
        /\ Len(got) = lo[p] + iter.at - 1
        /\ \A i \in 1 .. Len(got) : got[i] = keys[i]
        /\ iter.status = "DONE" => Len(got) = Len(keys)
    BY <2>1 DEF IterSound
  <2>4. Len(got) <= Len(keys)
    <3>1. hi[p] = lo[p] + Len(nodes[p].keys) /\ Len(nodes[p].keys) \in Nat
      BY <2>3, LeafEntries
    <3>2. lo[p] \in Nat /\ hi[p] <= Len(keys)  BY <2>3, NodeFacts DEF IsLeafOf
    <3>3. iter.at - 1 <= Len(nodes[p].keys) /\ iter.at \in Nat  BY <2>3, <3>1
    <3>4. hi[p] \in Nat  BY <3>1, <3>2
    <3>5. Len(got) = lo[p] + (iter.at - 1)  BY <2>3, <3>2, <3>3
    <3> HIDE DEF p, got
    <3>6. Len(got) <= hi[p]  BY <3>1, <3>2, <3>3, <3>5
    <3> QED BY <2>2, <3>2, <3>4, <3>6
  <2> HIDE DEF got
  <2>5. iter.status = "DONE" => got = keys  BY <2>2, <2>3, SeqEqual
  <2>6. IsPrefix(got, keys)
    <3>1. Len(got) \in Nat  BY <2>2
    <3>2. /\ SubSeq(keys, 1, Len(got)) \in Seq(Words)
          /\ Len(SubSeq(keys, 1, Len(got))) = Len(got)
          /\ \A i \in 1 .. Len(got) : SubSeq(keys, 1, Len(got))[i] = keys[i]
      BY <2>2, <2>4, <3>1
    <3>3. got = SubSeq(keys, 1, Len(got))  BY <2>2, <2>3, <3>2, SeqEqual
    <3> QED BY <2>4, <3>3 DEF IsPrefix
  <2> QED BY <2>5, <2>6 DEF got
<1> QED BY <1>1, TreeInvariance, PTL
=============================================================================
