------------------------------ MODULE KeysProofs ------------------------------
(***************************************************************************)
(* The container and its B-tree: the shape of the tree through every split, *)
(* what it holds and counts, the walk over it, and the map it implements.   *)
(*                                                                         *)
(* The invariant gives each node a level, counted from the leaves, and two  *)
(* keys that it lies between (Shape).  A split changes them for two nodes;  *)
(* the levels from the root down, which the properties are stated with,     *)
(* follow (LevelsOf).                                                       *)
(***************************************************************************)
EXTENDS Keys, SequenceTheorems, FiniteSetTheorems, WellFoundedInduction, TLAPS

-----------------------------------------------------------------------------
(* Induction over positions.                                                *)

LEMMA LeastOf ==
  ASSUME NEW T, T \subseteq Nat, T # {}
  PROVE  \E m \in T : \A k \in T : m <= k
<1> DEFINE R == OpToRel(<, Nat)
<1>1. IsWellFoundedOn(R, Nat)  BY NatLessThanWellFounded, Zenon
<1>2. \A i, j \in Nat : i < j => <<i, j>> \in R  BY DEF OpToRel
<1> HIDE DEF R
<1>3. PICK m \in T : \A k \in T : ~(<<k, m>> \in R)  BY <1>1, WFMin, Zenon
<1>4. ASSUME NEW k \in T PROVE m <= k
  <2>1. k \in Nat /\ m \in Nat  OBVIOUS
  <2>2. ~(k < m)  BY <1>2, <1>3, <2>1
  <2> QED BY <2>1, <2>2
<1> QED BY <1>4

\* A set holds the numbers from 1 to n when it holds each whose predecessors it holds.
LEMMA UpTo ==
  ASSUME NEW n \in Nat, NEW S,
         \A p \in 1 .. n : (\A q \in 1 .. p - 1 : q \in S) => p \in S
  PROVE  \A p \in 1 .. n : p \in S
<1> DEFINE T == {p \in 1 .. n : p \notin S}
<1> SUFFICES ASSUME T # {} PROVE FALSE  OBVIOUS
<1>1. T \subseteq Nat  OBVIOUS
<1> HIDE DEF T
<1>2. PICK m \in T : \A k \in T : m <= k  BY <1>1, LeastOf
<1>3. m \in 1 .. n /\ m \notin S /\ m \in Nat  BY <1>1 DEF T
<1>4. ASSUME NEW q \in 1 .. m - 1 PROVE q \in S
  <2>1. q \in 1 .. n /\ ~(m <= q)  BY <1>3
  <2> QED BY <2>1, <1>2 DEF T
<1> QED BY <1>3, <1>4

-----------------------------------------------------------------------------
(* Sequences.                                                               *)

LEMMA SubSeqOf ==
  ASSUME NEW S, NEW s \in Seq(S), NEW a \in Nat \ {0}, NEW b \in 0 .. Len(s), a <= b + 1
  PROVE  /\ SubSeq(s, a, b) \in Seq(S)
         /\ Len(SubSeq(s, a, b)) = b - a + 1
         /\ \A i \in 1 .. b - a + 1 : SubSeq(s, a, b)[i] = s[a + i - 1]
<1>1. Len(s) \in Nat  OBVIOUS
<1>2. \A i \in a .. b : s[i] \in S  BY <1>1
<1> QED BY <1>1, <1>2, SubSeqProperties

LEMMA Inserted ==
  ASSUME NEW S, NEW s \in Seq(S), NEW i \in 1 .. Len(s) + 1, NEW e \in S
  PROVE  /\ InsertAt(s, i, e) \in Seq(S)
         /\ Len(InsertAt(s, i, e)) = Len(s) + 1
         /\ \A j \in 1 .. i - 1 : InsertAt(s, i, e)[j] = s[j]
         /\ InsertAt(s, i, e)[i] = e
         /\ \A j \in i .. Len(s) : InsertAt(s, i, e)[j + 1] = s[j]
<1> DEFINE u == SubSeq(s, 1, i - 1)
           v == SubSeq(s, i, Len(s))
           w == <<e>>
<1>1. Len(s) \in Nat  OBVIOUS
<1>2. u \in Seq(S) /\ Len(u) = i - 1 /\ \A j \in 1 .. i - 1 : u[j] = s[j]
  <2>1. /\ u \in Seq(S) /\ Len(u) = (i - 1) - 1 + 1
        /\ \A j \in 1 .. (i - 1) - 1 + 1 : u[j] = s[1 + j - 1]
    BY <1>1, SubSeqOf
  <2> QED BY <2>1, <1>1
<1>3. /\ v \in Seq(S) /\ Len(v) = Len(s) - i + 1
      /\ \A j \in 1 .. Len(s) - i + 1 : v[j] = s[i + j - 1]
  BY <1>1, SubSeqOf
<1>4. w \in Seq(S) /\ Len(w) = 1 /\ w[1] = e  OBVIOUS
<1>5. InsertAt(s, i, e) = u \o w \o v  BY DEF InsertAt
<1> HIDE DEF u, v, w
<1>6. /\ u \o w \in Seq(S) /\ Len(u \o w) = i
      /\ \A j \in 1 .. i : (u \o w)[j] = IF j <= i - 1 THEN u[j] ELSE w[j - (i - 1)]
  <2>1. Len(u) + Len(w) = i  BY <1>1, <1>2, <1>4
  <2>2. /\ u \o w \in Seq(S) /\ Len(u \o w) = Len(u) + Len(w)
        /\ \A j \in 1 .. Len(u) + Len(w) :
             (u \o w)[j] = IF j <= Len(u) THEN u[j] ELSE w[j - Len(u)]
    BY <1>2, <1>4, ConcatProperties
  <2> QED BY <2>1, <2>2, <1>2, <1>4
<1> DEFINE x == u \o w
<1>7. x \in Seq(S) /\ Len(x) = i /\ x[i] = e /\ \A j \in 1 .. i - 1 : x[j] = s[j]
  <2>1. i \in 1 .. i /\ ~(i <= i - 1) /\ i - (i - 1) = 1  BY <1>1
  <2>2. x[i] = e  BY <2>1, <1>4, <1>6
  <2>3. ASSUME NEW j \in 1 .. i - 1 PROVE x[j] = s[j]
    <3>1. j \in 1 .. i /\ j <= i - 1  OBVIOUS
    <3> QED BY <3>1, <1>2, <1>6
  <2> QED BY <2>2, <2>3, <1>6
<1> HIDE DEF x
<1>8. /\ x \o v \in Seq(S) /\ Len(x \o v) = Len(s) + 1
      /\ \A j \in 1 .. Len(s) + 1 : (x \o v)[j] = IF j <= i THEN x[j] ELSE v[j - i]
  <2>1. Len(x) + Len(v) = Len(s) + 1  BY <1>1, <1>3, <1>7
  <2>2. /\ x \o v \in Seq(S) /\ Len(x \o v) = Len(x) + Len(v)
        /\ \A j \in 1 .. Len(x) + Len(v) :
             (x \o v)[j] = IF j <= Len(x) THEN x[j] ELSE v[j - Len(x)]
    BY <1>3, <1>7, ConcatProperties
  <2> QED BY <2>1, <2>2, <1>3, <1>7
<1> DEFINE y == x \o v
<1>9. InsertAt(s, i, e) = y  BY <1>5 DEF x
<1> HIDE DEF y
<1>10. /\ y \in Seq(S) /\ Len(y) = Len(s) + 1
       /\ \A j \in 1 .. Len(s) + 1 : y[j] = IF j <= i THEN x[j] ELSE v[j - i]
  BY <1>8 DEF y
<1>11. \A j \in i .. Len(s) : y[j + 1] = s[j]
  <2> SUFFICES ASSUME NEW j \in i .. Len(s) PROVE y[j + 1] = s[j]  OBVIOUS
  <2>1. j + 1 \in 1 .. Len(s) + 1 /\ ~(j + 1 <= i)  BY <1>1
  <2>2. y[j + 1] = v[(j + 1) - i]  BY <2>1, <1>10
  <2>3. (j + 1) - i \in 1 .. Len(s) - i + 1 /\ i + ((j + 1) - i) - 1 = j  BY <1>1
  <2>4. v[(j + 1) - i] = s[i + ((j + 1) - i) - 1]  BY <2>3, <1>3
  <2> QED BY <2>2, <2>3, <2>4
<1>12. \A j \in 1 .. i - 1 : y[j] = s[j]
  <2> SUFFICES ASSUME NEW j \in 1 .. i - 1 PROVE y[j] = s[j]  OBVIOUS
  <2>1. j \in 1 .. Len(s) + 1 /\ j <= i  BY <1>1
  <2> QED BY <2>1, <1>7, <1>10
<1>13. y[i] = e
  <2>1. i \in 1 .. Len(s) + 1 /\ i <= i  OBVIOUS
  <2> QED BY <2>1, <1>7, <1>10
<1> QED BY <1>9, <1>10, <1>11, <1>12, <1>13


-----------------------------------------------------------------------------
(* The shape of the tree: lv is the level of each node, a leaf's is 1, and  *)
(* lo and hi are the keys it lies between.                                  *)

NodeSet == [items : Seq(Entry), children : Seq(Nat)]

Ascend(node) ==
  \A i, j \in 1 .. Len(node.items) : i < j => node.items[i].key < node.items[j].key

Between(node, a, b) ==
  \A i \in 1 .. Len(node.items) : a < node.items[i].key /\ node.items[i].key < b

\* The keys that child i of node p lies between.
Low(heap, lo, p, i)  == IF i = 1 THEN lo[p] ELSE heap[p].items[i - 1].key
High(heap, hi, p, i) ==
  IF i = Len(heap[p].items) + 1 THEN hi[p] ELSE heap[p].items[i].key

Typed(heap, root, height, lv, lo, hi) ==
  /\ heap \in Seq(NodeSet)
  /\ height \in Nat /\ height <= Len(heap)
  /\ lv \in [1 .. Len(heap) -> 1 .. height]
  /\ lo \in [1 .. Len(heap) -> Int] /\ hi \in [1 .. Len(heap) -> Int]
  /\ root \in 1 .. Len(heap)
  /\ lv[root] = height /\ lo[root] = -1 /\ hi[root] = MaxKey + 1

Sorted(heap, lo, hi) ==
  \A p \in 1 .. Len(heap) :
    lo[p] < hi[p] /\ Ascend(heap[p]) /\ Between(heap[p], lo[p], hi[p])

Branch(heap, lv, lo, hi, p) ==
  /\ heap[p].children = <<>> <=> lv[p] = 1
  /\ heap[p].children # <<>> => Len(heap[p].children) = Len(heap[p].items) + 1
  /\ \A i \in 1 .. Len(heap[p].children) :
       /\ heap[p].children[i] \in 1 .. Len(heap)
       /\ lv[heap[p].children[i]] = lv[p] - 1
       /\ lo[heap[p].children[i]] = Low(heap, lo, p, i)
       /\ hi[heap[p].children[i]] = High(heap, hi, p, i)

Branches(heap, lv, lo, hi) == \A p \in 1 .. Len(heap) : Branch(heap, lv, lo, hi, p)

Linked(heap, root) ==
  \A p \in 1 .. Len(heap) :
    p # root => \E q \in 1 .. Len(heap) : \E i \in 1 .. Len(heap[q].children) :
                  heap[q].children[i] = p

Apart(heap, lv, lo, hi) ==
  \A p, q \in 1 .. Len(heap) :
    p # q /\ lv[p] = lv[q] => hi[p] <= lo[q] \/ hi[q] <= lo[p]

Outside(heap, lv, lo, hi) ==
  \A p, q \in 1 .. Len(heap) :
    lv[p] < lv[q] => \A i \in 1 .. Len(heap[q].items) :
                       heap[q].items[i].key <= lo[p] \/ hi[p] <= heap[q].items[i].key

Shape(heap, root, height, lv, lo, hi) ==
  /\ Typed(heap, root, height, lv, lo, hi)
  /\ Sorted(heap, lo, hi)
  /\ Branches(heap, lv, lo, hi)
  /\ Linked(heap, root)
  /\ Apart(heap, lv, lo, hi)
  /\ Outside(heap, lv, lo, hi)

-----------------------------------------------------------------------------
(* Searching a node.                                                        *)

LEMMA KeyTypes ==
  ASSUME NEW node \in NodeSet
  PROVE  /\ node.items \in Seq(Entry) /\ Len(node.items) \in Nat
         /\ node.children \in Seq(Nat) /\ Len(node.children) \in Nat
         /\ \A i \in 1 .. Len(node.items) :
              /\ node.items[i] \in Entry
              /\ node.items[i].key \in 0 .. MaxKey
              /\ node.items[i].items \in Seq(Spellings)
<1>1. node.items \in Seq(Entry) /\ node.children \in Seq(Nat)  BY DEF NodeSet
<1>2. \A i \in 1 .. Len(node.items) : node.items[i] \in Entry  BY <1>1
<1>3. Len(node.items) \in Nat /\ Len(node.children) \in Nat  BY <1>1
<1> QED BY <1>1, <1>2, <1>3 DEF Entry

\* Place is the first entry that is not below the key.
LEMMA PlaceFirst ==
  ASSUME NEW node \in NodeSet, Ascend(node), NEW key \in Int
  PROVE  /\ Place(node, key) \in 1 .. Len(node.items) + 1
         /\ \A j \in 1 .. Place(node, key) - 1 : node.items[j].key < key
         /\ \A j \in Place(node, key) .. Len(node.items) : key <= node.items[j].key
<1> DEFINE n == Len(node.items)
           S == {j \in 1 .. n : node.items[j].key < key}
           T == {j \in 1 .. n + 1 : j \notin S}
<1>1. /\ n \in Nat
      /\ \A j \in 1 .. n : node.items[j].key \in Int
  BY KeyTypes, BTreeAssumption
<1>2. T \subseteq Nat  BY <1>1
<1>3. n + 1 \in T  BY <1>1
<1> HIDE DEF T
<1>4. T # {}  BY <1>3
<1>5. PICK m \in T : \A k \in T : m <= k  BY <1>2, <1>4, LeastOf
<1>6. m \in 1 .. n + 1 /\ m \notin S /\ m \in Nat  BY <1>2 DEF T
<1>7. \A j \in 1 .. m - 1 : j \in S
  <2> SUFFICES ASSUME NEW j \in 1 .. m - 1, j \notin S PROVE FALSE  OBVIOUS
  <2>1. j \in 1 .. n + 1 /\ ~(m <= j)  BY <1>1, <1>6
  <2>2. j \in T  BY <2>1 DEF T
  <2> QED BY <2>1, <2>2, <1>5
<1>8. \A j \in m .. n : key <= node.items[j].key
  <2> SUFFICES ASSUME NEW j \in m .. n PROVE key <= node.items[j].key  OBVIOUS
  <2>1. j \in 1 .. n /\ m \in 1 .. n  BY <1>1, <1>6
  <2>2. ~(node.items[m].key < key)  BY <2>1, <1>6
  <2>3. CASE j = m  BY <2>1, <2>2, <2>3, <1>1
  <2>4. CASE j # m
    <3>1. m < j  BY <2>1, <2>4, <1>6
    <3>2. node.items[m].key < node.items[j].key  BY <2>1, <3>1 DEF Ascend
    <3> QED BY <2>1, <2>2, <3>2, <1>1
  <2> QED BY <2>3, <2>4
<1>9. S = 1 .. m - 1
  <2>1. ASSUME NEW j \in S PROVE j \in 1 .. m - 1
    <3>1. j \in 1 .. n /\ node.items[j].key < key  OBVIOUS
    <3>2. ~(j \in m .. n)  BY <3>1, <1>8, <1>1
    <3> QED BY <3>1, <3>2, <1>1, <1>6
  <2> HIDE DEF S
  <2> QED BY <2>1, <1>7
<1>10. Cardinality(1 .. m - 1) = m - 1
  <2>1. 1 \in Int /\ m - 1 \in Int  BY <1>6
  <2>2. Cardinality(1 .. m - 1) = IF 1 > m - 1 THEN 0 ELSE (m - 1) - 1 + 1
    BY <2>1, FS_Interval
  <2> QED BY <2>2, <1>6
<1>11. Place(node, key) = m
  <2>1. Place(node, key) = 1 + Cardinality(S)  BY DEF Place
  <2> HIDE DEF S
  <2> QED BY <2>1, <1>9, <1>10, <1>6
<1>12. \A j \in 1 .. m - 1 : node.items[j].key < key  BY <1>7
<1> QED BY <1>6, <1>8, <1>11, <1>12

LEMMA PlaceFound ==
  ASSUME NEW node \in NodeSet, Ascend(node), NEW key \in Int, Found(node, key)
  PROVE  /\ Place(node, key) \in 1 .. Len(node.items)
         /\ node.items[Place(node, key)].key = key
<1> DEFINE i == Place(node, key)
<1>1. /\ Len(node.items) \in Nat
      /\ \A j \in 1 .. Len(node.items) : node.items[j].key \in Int
  BY KeyTypes, BTreeAssumption
<1>2. PICK k \in 1 .. Len(node.items) : node.items[k].key = key  BY DEF Found
<1>3. /\ i \in 1 .. Len(node.items) + 1
      /\ \A j \in 1 .. i - 1 : node.items[j].key < key
      /\ \A j \in i .. Len(node.items) : key <= node.items[j].key
  BY PlaceFirst
<1> HIDE DEF i
<1>4. ~(k \in 1 .. i - 1)
  <2> SUFFICES ASSUME k \in 1 .. i - 1 PROVE FALSE  OBVIOUS
  <2>1. node.items[k].key < key  BY <1>3
  <2> QED BY <2>1, <1>2
<1>5. i <= k  BY <1>1, <1>3, <1>4
<1>6. i \in 1 .. Len(node.items)  BY <1>1, <1>3, <1>5
<1>7. i = k
  <2> SUFFICES ASSUME i # k PROVE FALSE  OBVIOUS
  <2>1. i < k  BY <1>3, <1>5
  <2>2. node.items[i].key < node.items[k].key  BY <2>1, <1>6 DEF Ascend
  <2>3. key <= node.items[i].key  BY <1>3, <1>6
  <2> QED BY <2>2, <2>3, <1>1, <1>2, <1>6
<1> QED BY <1>2, <1>6, <1>7 DEF i


-----------------------------------------------------------------------------
(* What the shape says of nodes and their entries.                          *)

LEMMA ShapeTypes ==
  ASSUME NEW heap, NEW root, NEW height, NEW lv, NEW lo, NEW hi,
         Shape(heap, root, height, lv, lo, hi)
  PROVE  /\ heap \in Seq(NodeSet) /\ Len(heap) \in Nat /\ height \in 1 .. Len(heap)
         /\ root \in 1 .. Len(heap)
         /\ \A p \in 1 .. Len(heap) :
              /\ heap[p] \in NodeSet
              /\ lv[p] \in 1 .. height /\ lo[p] \in Int /\ hi[p] \in Int
              /\ Len(heap[p].items) \in Nat /\ Len(heap[p].children) \in Nat
              /\ \A i \in 1 .. Len(heap[p].items) : heap[p].items[i].key \in 0 .. MaxKey
<1>1. /\ heap \in Seq(NodeSet) /\ root \in 1 .. Len(heap) /\ height \in Nat
      /\ height <= Len(heap) /\ lv \in [1 .. Len(heap) -> 1 .. height]
      /\ lo \in [1 .. Len(heap) -> Int] /\ hi \in [1 .. Len(heap) -> Int]
  BY DEF Shape, Typed
<1>2. Len(heap) \in Nat /\ lv[root] \in 1 .. height  BY <1>1
<1>3. height \in 1 .. Len(heap)  BY <1>1, <1>2
<1>4. ASSUME NEW p \in 1 .. Len(heap)
      PROVE  /\ heap[p] \in NodeSet
             /\ lv[p] \in 1 .. height /\ lo[p] \in Int /\ hi[p] \in Int
             /\ Len(heap[p].items) \in Nat /\ Len(heap[p].children) \in Nat
             /\ \A i \in 1 .. Len(heap[p].items) : heap[p].items[i].key \in 0 .. MaxKey
  <2>1. heap[p] \in NodeSet  BY <1>1
  <2>2. lv[p] \in 1 .. height /\ lo[p] \in Int /\ hi[p] \in Int  BY <1>1
  <2> QED BY <2>1, <2>2, KeyTypes
<1> QED BY <1>1, <1>2, <1>3, <1>4

\* A child lies between keys of its node that ascend with its position.
LEMMA ChildRange ==
  ASSUME NEW heap, NEW root, NEW height, NEW lv, NEW lo, NEW hi,
         Shape(heap, root, height, lv, lo, hi),
         NEW p \in 1 .. Len(heap), NEW i \in 1 .. Len(heap[p].children)
  PROVE  /\ Len(heap[p].children) = Len(heap[p].items) + 1
         /\ heap[p].children[i] \in 1 .. Len(heap)
         /\ lv[heap[p].children[i]] = lv[p] - 1
         /\ lo[heap[p].children[i]] = Low(heap, lo, p, i)
         /\ hi[heap[p].children[i]] = High(heap, hi, p, i)
         /\ Low(heap, lo, p, i) \in Int /\ High(heap, hi, p, i) \in Int
         /\ lo[p] <= Low(heap, lo, p, i)
         /\ Low(heap, lo, p, i) < High(heap, hi, p, i)
         /\ High(heap, hi, p, i) <= hi[p]
         /\ \A j \in i + 1 .. Len(heap[p].children) :
              High(heap, hi, p, i) <= Low(heap, lo, p, j)
<1> DEFINE n == Len(heap[p].items)
           a == lo[p]
           b == hi[p]
           key == [j \in 1 .. n |-> heap[p].items[j].key]
<1>1. /\ n \in Nat /\ Len(heap[p].children) \in Nat /\ a \in Int /\ b \in Int
      /\ \A j \in 1 .. n : key[j] \in Int
  <2>1. /\ lo[p] \in Int /\ hi[p] \in Int
        /\ Len(heap[p].items) \in Nat /\ Len(heap[p].children) \in Nat
        /\ \A j \in 1 .. Len(heap[p].items) : heap[p].items[j].key \in 0 .. MaxKey
    BY ShapeTypes, ZenonT(60)
  <2>2. \A k \in 0 .. MaxKey : k \in Int  OBVIOUS
  <2> QED BY ONLY <2>1, <2>2
<1>2. heap[p].children # <<>>
  <2>1. CASE heap[p].children = <<>>  BY <2>1
  <2> QED BY <2>1
<1>3. /\ Len(heap[p].children) = n + 1
      /\ heap[p].children[i] \in 1 .. Len(heap)
      /\ lv[heap[p].children[i]] = lv[p] - 1
      /\ lo[heap[p].children[i]] = Low(heap, lo, p, i)
      /\ hi[heap[p].children[i]] = High(heap, hi, p, i)
  BY <1>2 DEF Shape, Branches, Branch
<1>4. /\ a < b
      /\ \A j \in 1 .. n : a < key[j] /\ key[j] < b
      /\ \A j, k \in 1 .. n : j < k => key[j] < key[k]
  BY DEF Shape, Sorted, Ascend, Between
<1>5. \A j \in 1 .. n + 1 : Low(heap, lo, p, j) = IF j = 1 THEN a ELSE key[j - 1]
  BY <1>1 DEF Low
<1>6. High(heap, hi, p, i) = IF i = n + 1 THEN b ELSE key[i]
  BY <1>1, <1>3 DEF High
<1> HIDE DEF n, a, b, key
<1>7. i \in 1 .. n + 1  BY <1>3
<1>8. Low(heap, lo, p, i) \in Int /\ a <= Low(heap, lo, p, i)  BY <1>1, <1>4, <1>5, <1>7
<1>9. High(heap, hi, p, i) \in Int /\ High(heap, hi, p, i) <= b
  BY <1>1, <1>4, <1>6, <1>7
<1>10. Low(heap, lo, p, i) < High(heap, hi, p, i)
  <2>1. CASE i = 1 /\ i = n + 1  BY <2>1, <1>4, <1>5, <1>6, <1>7
  <2>2. CASE i = 1 /\ i # n + 1
    <3>1. i \in 1 .. n  BY <2>2, <1>1, <1>7
    <3> QED BY <3>1, <2>2, <1>4, <1>5, <1>6, <1>7
  <2>3. CASE i # 1 /\ i = n + 1
    <3>1. i - 1 \in 1 .. n  BY <2>3, <1>1, <1>7
    <3> QED BY <3>1, <2>3, <1>4, <1>5, <1>6, <1>7
  <2>4. CASE i # 1 /\ i # n + 1
    <3>1. i - 1 \in 1 .. n /\ i \in 1 .. n /\ i - 1 < i  BY <2>4, <1>1, <1>7
    <3> QED BY <3>1, <2>4, <1>4, <1>5, <1>6, <1>7
  <2> QED BY <2>1, <2>2, <2>3, <2>4
<1>11. ASSUME NEW j \in i + 1 .. n + 1
       PROVE  High(heap, hi, p, i) <= Low(heap, lo, p, j)
  <2>1. /\ i \in 1 .. n /\ i # n + 1 /\ j \in 1 .. n + 1 /\ j # 1
        /\ j - 1 \in 1 .. n /\ i <= j - 1
    BY <1>1, <1>7
  <2>2. High(heap, hi, p, i) = key[i] /\ Low(heap, lo, p, j) = key[j - 1]
    BY <2>1, <1>5, <1>6
  <2>3. CASE i = j - 1  BY <2>1, <2>2, <2>3, <1>1
  <2>4. CASE i # j - 1
    <3>1. i < j - 1  BY <2>1, <2>4
    <3>2. key[i] < key[j - 1]  BY <2>1, <3>1, <1>4
    <3>3. key[i] \in Int /\ key[j - 1] \in Int  BY <2>1, <1>1
    <3> QED BY <2>2, <3>2, <3>3
  <2> QED BY <2>3, <2>4
<1>12. \A j \in i + 1 .. Len(heap[p].children) : High(heap, hi, p, i) <= Low(heap, lo, p, j)
  BY <1>3, <1>11 DEF n
<1> QED BY <1>3, <1>8, <1>9, <1>10, <1>12 DEF n, a, b

LEMMA ChildFacts ==
  ASSUME NEW heap, NEW root, NEW height, NEW lv, NEW lo, NEW hi,
         Shape(heap, root, height, lv, lo, hi),
         NEW p \in 1 .. Len(heap), NEW i \in 1 .. Len(heap[p].children),
         NEW c, c = heap[p].children[i]
  PROVE  /\ c \in 1 .. Len(heap) /\ lv[c] = lv[p] - 1
         /\ lo[p] <= lo[c] /\ hi[c] <= hi[p] /\ lo[c] < hi[c]
         /\ \A k \in i + 1 .. Len(heap[p].children) : hi[c] <= Low(heap, lo, p, k)
         /\ lo[c] = Low(heap, lo, p, i) /\ hi[c] = High(heap, hi, p, i)
BY ChildRange

\* A node hangs in one place.
LEMMA OnePlace ==
  ASSUME NEW heap, NEW root, NEW height, NEW lv, NEW lo, NEW hi,
         Shape(heap, root, height, lv, lo, hi),
         NEW p, p \in 1 .. Len(heap), NEW i, i \in 1 .. Len(heap[p].children),
         NEW c, c = heap[p].children[i]
  PROVE  \A q \in 1 .. Len(heap) : \A j \in 1 .. Len(heap[q].children) :
           heap[q].children[j] = c => q = p /\ j = i
<1> SUFFICES ASSUME NEW q, q \in 1 .. Len(heap), NEW j, j \in 1 .. Len(heap[q].children),
                    NEW d, d = heap[q].children[j], c = d
             PROVE  p = q /\ i = j
  OBVIOUS
<1>1. /\ c \in 1 .. Len(heap) /\ lv[c] = lv[p] - 1
      /\ lo[p] <= lo[c] /\ hi[c] <= hi[p] /\ lo[c] < hi[c]
      /\ \A k \in i + 1 .. Len(heap[p].children) : hi[c] <= Low(heap, lo, p, k)
      /\ lo[c] = Low(heap, lo, p, i) /\ hi[c] = High(heap, hi, p, i)
  BY ONLY Shape(heap, root, height, lv, lo, hi), p \in 1 .. Len(heap),
     i \in 1 .. Len(heap[p].children), c = heap[p].children[i], ChildFacts
<1>2. /\ lv[c] = lv[q] - 1
      /\ lo[q] <= lo[c] /\ hi[c] <= hi[q]
      /\ \A k \in j + 1 .. Len(heap[q].children) : hi[c] <= Low(heap, lo, q, k)
      /\ lo[c] = Low(heap, lo, q, j)
  <2>1. /\ d \in 1 .. Len(heap) /\ lv[d] = lv[q] - 1
        /\ lo[q] <= lo[d] /\ hi[d] <= hi[q] /\ lo[d] < hi[d]
        /\ \A k \in j + 1 .. Len(heap[q].children) : hi[d] <= Low(heap, lo, q, k)
        /\ lo[d] = Low(heap, lo, q, j) /\ hi[d] = High(heap, hi, q, j)
    BY ChildFacts
  <2> QED BY <2>1
<1>3. \A x \in 1 .. Len(heap) :
        /\ lv[x] \in 1 .. height /\ lo[x] \in Int /\ hi[x] \in Int
        /\ Len(heap[x].children) \in Nat
  BY ShapeTypes
<1>4. p = q
  <2> SUFFICES ASSUME p # q PROVE FALSE  OBVIOUS
  <2>c. c \in 1 .. Len(heap)  BY ONLY <1>1
  <2>x. \A x \in 1 .. Len(heap) : lv[x] \in Int /\ lo[x] \in Int /\ hi[x] \in Int
    BY ONLY <1>3
  <2>0. /\ lv[p] \in Int /\ lv[q] \in Int /\ lo[p] \in Int /\ hi[p] \in Int
        /\ lo[q] \in Int /\ hi[q] \in Int /\ lo[c] \in Int /\ hi[c] \in Int
    BY ONLY p \in 1 .. Len(heap), q \in 1 .. Len(heap), <2>c, <2>x
  <2>l. lv[c] = lv[p] - 1 /\ lv[c] = lv[q] - 1  BY ONLY <1>1, <1>2
  <2>1. lv[p] = lv[q]  BY ONLY <2>l, <2>0
  <2>2. hi[p] <= lo[q] \/ hi[q] <= lo[p]  BY <2>1 DEF Shape, Apart
  <2>3. /\ lo[p] <= lo[c] /\ hi[c] <= hi[p] /\ lo[c] < hi[c]
        /\ lo[q] <= lo[c] /\ hi[c] <= hi[q]
    BY ONLY <1>1, <1>2
  <2> QED BY ONLY <2>0, <2>2, <2>3
<1>5. i = j
  <2> SUFFICES ASSUME i # j PROVE FALSE  OBVIOUS
  <2>0. /\ i \in Nat /\ j \in Nat /\ Len(heap[p].children) \in Nat
        /\ lo[c] \in Int /\ hi[c] \in Int
        /\ i <= Len(heap[p].children) /\ j <= Len(heap[p].children)
    <3>1. lo[c] \in Int /\ hi[c] \in Int /\ Len(heap[p].children) \in Nat
      BY ONLY p \in 1 .. Len(heap), <1>1, <1>3
    <3>2. j \in 1 .. Len(heap[p].children)
      BY ONLY j \in 1 .. Len(heap[q].children), <1>4
    <3> QED BY ONLY i \in 1 .. Len(heap[p].children), <3>1, <3>2
  <2>1. CASE i < j
    <3>1. j \in i + 1 .. Len(heap[p].children)  BY ONLY <2>0, <2>1
    <3>2. hi[c] <= lo[c]  BY ONLY <3>1, <1>1, <1>2, <1>4
    <3> QED BY ONLY <3>2, <1>1, <2>0
  <2>2. CASE j < i
    <3>1. i \in j + 1 .. Len(heap[q].children)  BY ONLY <2>0, <2>2, <1>4
    <3>2. hi[c] <= lo[c]  BY ONLY <3>1, <1>1, <1>2, <1>4
    <3> QED BY ONLY <3>2, <1>1, <2>0
  <2>3. i < j \/ j < i  BY ONLY <2>0, i # j
  <2> QED BY <2>1, <2>2, <2>3
<1> QED BY <1>4, <1>5


\* An entry between the keys of a leaf lies in the leaf.
LEMMA LeafOnly ==
  ASSUME NEW heap, NEW root, NEW height, NEW lv, NEW lo, NEW hi,
         Shape(heap, root, height, lv, lo, hi),
         NEW p \in 1 .. Len(heap), lv[p] = 1,
         NEW q \in 1 .. Len(heap), NEW i \in 1 .. Len(heap[q].items),
         lo[p] < heap[q].items[i].key, heap[q].items[i].key < hi[p]
  PROVE  q = p
<1>1. \A x \in 1 .. Len(heap) :
        /\ lv[x] \in 1 .. height /\ lo[x] \in Int /\ hi[x] \in Int
        /\ \A j \in 1 .. Len(heap[x].items) : heap[x].items[j].key \in 0 .. MaxKey
  BY ShapeTypes
<1> DEFINE k == heap[q].items[i].key
<1>2. k \in Int /\ lo[p] \in Int /\ hi[p] \in Int /\ lo[q] \in Int /\ hi[q] \in Int
  BY <1>1, SMTT(30)
<1>3. lo[q] < k /\ k < hi[q]  BY DEF Shape, Sorted, Between
<1>4. lo[p] < k /\ k < hi[p]  OBVIOUS
<1>5. lv[p] < lv[q] => k <= lo[p] \/ hi[p] <= k  BY DEF Shape, Outside
<1> HIDE DEF k
<1>6. lv[q] = 1  BY <1>1, <1>2, <1>4, <1>5
<1>7. p # q => hi[p] <= lo[q] \/ hi[q] <= lo[p]  BY <1>6 DEF Shape, Apart
<1> QED BY <1>2, <1>3, <1>4, <1>7

\* A key stands in one place.
LEMMA KeyOnce ==
  ASSUME NEW heap, NEW root, NEW height, NEW lv, NEW lo, NEW hi,
         Shape(heap, root, height, lv, lo, hi),
         NEW p \in 1 .. Len(heap), NEW i \in 1 .. Len(heap[p].items),
         NEW q \in 1 .. Len(heap), NEW j \in 1 .. Len(heap[q].items),
         heap[p].items[i].key = heap[q].items[j].key
  PROVE  p = q /\ i = j
<1>1. \A x \in 1 .. Len(heap) :
        /\ lv[x] \in 1 .. height /\ lo[x] \in Int /\ hi[x] \in Int
        /\ Len(heap[x].items) \in Nat
        /\ \A k \in 1 .. Len(heap[x].items) : heap[x].items[k].key \in 0 .. MaxKey
  BY ShapeTypes
<1> DEFINE k == heap[p].items[i].key
<1>2. /\ k \in Int /\ lo[p] \in Int /\ hi[p] \in Int /\ lo[q] \in Int /\ hi[q] \in Int
      /\ lv[p] \in Int /\ lv[q] \in Int
  BY <1>1, SMTT(30)
<1>3. lo[p] < k /\ k < hi[p] /\ lo[q] < k /\ k < hi[q]
  BY DEF Shape, Sorted, Between
<1>4. lv[p] < lv[q] => k <= lo[p] \/ hi[p] <= k  BY DEF Shape, Outside
<1>5. lv[q] < lv[p] => k <= lo[q] \/ hi[q] <= k  BY DEF Shape, Outside
<1>6. p # q /\ lv[p] = lv[q] => hi[p] <= lo[q] \/ hi[q] <= lo[p]  BY DEF Shape, Apart
<1> HIDE DEF k
<1>7. p = q  BY <1>2, <1>3, <1>4, <1>5, <1>6, SMTT(30)
<1>8. \A a, b \in 1 .. Len(heap[p].items) :
        a < b => heap[p].items[a].key < heap[p].items[b].key
  BY DEF Shape, Sorted, Ascend
<1>9. ~(i < j) /\ ~(j < i)
  <2>1. heap[p].items[i].key = k /\ heap[p].items[j].key = k  BY <1>7 DEF k
  <2>2. j \in 1 .. Len(heap[p].items)  BY <1>7
  <2>3. ~(k < k)  BY <1>2
  <2> QED BY <1>8, <2>1, <2>2, <2>3
<1>10. i \in Int /\ j \in Int  OBVIOUS
<1> QED BY <1>7, <1>9, <1>10

\* The child a search goes on to holds the key between its own.
LEMMA PlaceMissed ==
  ASSUME NEW heap, NEW root, NEW height, NEW lv, NEW lo, NEW hi,
         Shape(heap, root, height, lv, lo, hi),
         NEW p \in 1 .. Len(heap), NEW key \in 0 .. MaxKey,
         lo[p] < key, key < hi[p], ~Found(heap[p], key)
  PROVE  /\ Place(heap[p], key) \in 1 .. Len(heap[p].items) + 1
         /\ Low(heap, lo, p, Place(heap[p], key)) < key
         /\ key < High(heap, hi, p, Place(heap[p], key))
<1> DEFINE i == Place(heap[p], key)
           n == Len(heap[p].items)
<1>1. /\ heap[p] \in NodeSet /\ n \in Nat
      /\ \A j \in 1 .. n : heap[p].items[j].key \in 0 .. MaxKey
  BY ShapeTypes
<1>2. Ascend(heap[p])  BY DEF Shape, Sorted
<1>k. key \in Int  BY BTreeAssumption
<1>3. /\ i \in 1 .. n + 1
      /\ \A j \in 1 .. i - 1 : heap[p].items[j].key < key
      /\ \A j \in i .. n : key <= heap[p].items[j].key
  BY <1>1, <1>2, <1>k, PlaceFirst
<1>4. \A j \in 1 .. n : heap[p].items[j].key # key  BY DEF Found
<1> HIDE DEF i
<1>5. Low(heap, lo, p, i) < key
  <2>1. CASE i = 1  BY <2>1 DEF Low
  <2>2. CASE i # 1
    <3>1. i - 1 \in 1 .. i - 1  BY <2>2, <1>1, <1>3
    <3> QED BY <3>1, <2>2, <1>3 DEF Low
  <2> QED BY <2>1, <2>2
<1>6. key < High(heap, hi, p, i)
  <2>1. CASE i = n + 1  BY <2>1 DEF High
  <2>2. CASE i # n + 1
    <3>1. i \in i .. n /\ i \in 1 .. n  BY <2>2, <1>1, <1>3
    <3>2. key <= heap[p].items[i].key /\ heap[p].items[i].key # key  BY <3>1, <1>3, <1>4
    <3>3. heap[p].items[i].key \in Int  BY <3>1, <1>1, BTreeAssumption
    <3>4. key < heap[p].items[i].key  BY <3>2, <3>3, <1>k
    <3> QED BY <3>4, <2>2 DEF High
  <2> QED BY <2>1, <2>2
<1> QED BY <1>3, <1>5, <1>6 DEF i


-----------------------------------------------------------------------------
(* The levels from the root down.                                           *)

SpanOf(lo, hi, p) == Span(p, lo[p], hi[p])

LEMMA SpansBelow ==
  ASSUME NEW heap, NEW root, NEW height, NEW lv, NEW lo, NEW hi,
         Shape(heap, root, height, lv, lo, hi), NEW p \in 1 .. Len(heap)
  PROVE  ChildSpans(heap, SpanOf(lo, hi, p))
           = {SpanOf(lo, hi, heap[p].children[i]) : i \in 1 .. Len(heap[p].children)}
<1> DEFINE s == SpanOf(lo, hi, p)
           n == Len(heap[p].items)
<1>1. s.node = p /\ s.lo = lo[p] /\ s.hi = hi[p]  BY DEF SpanOf, Span
<1>2. n \in Nat  BY ShapeTypes
<1>3. ASSUME NEW i \in 1 .. Len(heap[p].children)
      PROVE  /\ Bound(heap, s, i - 1) = lo[heap[p].children[i]]
             /\ Bound(heap, s, i) = hi[heap[p].children[i]]
  <2>1. /\ Len(heap[p].children) = n + 1
        /\ lo[heap[p].children[i]] = Low(heap, lo, p, i)
        /\ hi[heap[p].children[i]] = High(heap, hi, p, i)
    BY ChildRange
  <2>2. i \in 1 .. n + 1 /\ i \in Int  BY <2>1
  <2> HIDE DEF s
  <2>3. Bound(heap, s, i - 1) = Low(heap, lo, p, i)
    <3>1. i - 1 = 0 <=> i = 1  BY <2>2
    <3>2. ~(i - 1 > n)  BY <1>2, <2>2
    <3> QED BY <3>1, <3>2, <1>1 DEF Bound, Low
  <2>4. Bound(heap, s, i) = High(heap, hi, p, i)
    <3>1. i # 0  BY <2>2
    <3>2. i > n <=> i = n + 1  BY <1>2, <2>2
    <3> QED BY <3>1, <3>2, <1>1 DEF Bound, High
  <2> QED BY <2>1, <2>3, <2>4
<1> HIDE DEF s
<1>4. ASSUME NEW i \in 1 .. Len(heap[p].children)
      PROVE  Span(heap[s.node].children[i], Bound(heap, s, i - 1), Bound(heap, s, i))
               = SpanOf(lo, hi, heap[p].children[i])
  BY <1>1, <1>3 DEF SpanOf
<1> QED BY <1>1, <1>4 DEF ChildSpans, s

LevelOf(heap, height, lv, lo, hi, d) ==
  {SpanOf(lo, hi, p) : p \in {q \in 1 .. Len(heap) : lv[q] = height - d + 1}}

LEMMA LevelBelow ==
  ASSUME NEW heap, NEW root, NEW height, NEW lv, NEW lo, NEW hi,
         Shape(heap, root, height, lv, lo, hi), NEW d \in 2 .. Len(heap)
  PROVE  UNION {ChildSpans(heap, s) : s \in LevelOf(heap, height, lv, lo, hi, d - 1)}
           = LevelOf(heap, height, lv, lo, hi, d)
<1> DEFINE U == UNION {ChildSpans(heap, s) : s \in LevelOf(heap, height, lv, lo, hi, d - 1)}
           L == LevelOf(heap, height, lv, lo, hi, d)
<1>1. /\ height \in Nat /\ root \in 1 .. Len(heap) /\ Len(heap) \in Nat
      /\ \A p \in 1 .. Len(heap) : lv[p] \in 1 .. height
  BY ShapeTypes
<1>2. \A p \in 1 .. Len(heap) :
        ChildSpans(heap, SpanOf(lo, hi, p))
          = {SpanOf(lo, hi, heap[p].children[i]) : i \in 1 .. Len(heap[p].children)}
  BY SpansBelow
<1>3. \A p \in 1 .. Len(heap) : \A i \in 1 .. Len(heap[p].children) :
        heap[p].children[i] \in 1 .. Len(heap) /\ lv[heap[p].children[i]] = lv[p] - 1
  BY DEF Shape, Branches, Branch
<1>4. ASSUME NEW t \in U PROVE t \in L
  <2>1. PICK s \in LevelOf(heap, height, lv, lo, hi, d - 1) : t \in ChildSpans(heap, s)
    OBVIOUS
  <2>2. PICK p \in 1 .. Len(heap) : lv[p] = height - (d - 1) + 1 /\ s = SpanOf(lo, hi, p)
    BY <2>1 DEF LevelOf
  <2>3. t \in {SpanOf(lo, hi, heap[p].children[i]) : i \in 1 .. Len(heap[p].children)}
    BY <2>1, <2>2, <1>2
  <2>4. PICK i \in 1 .. Len(heap[p].children) : t = SpanOf(lo, hi, heap[p].children[i])
    BY <2>3
  <2>5. /\ heap[p].children[i] \in 1 .. Len(heap)
        /\ lv[heap[p].children[i]] = height - d + 1
    <3>1. lv[heap[p].children[i]] = (height - (d - 1) + 1) - 1  BY <2>2, <1>3
    <3> QED BY <3>1, <1>1, <1>3
  <2> QED BY <2>4, <2>5 DEF LevelOf
<1>5. ASSUME NEW t \in L PROVE t \in U
  <2>1. PICK q \in 1 .. Len(heap) : lv[q] = height - d + 1 /\ t = SpanOf(lo, hi, q)
    BY DEF LevelOf
  <2>2. q # root
    <3>1. lv[root] = height  BY DEF Shape, Typed
    <3> QED BY <3>1, <2>1, <1>1
  <2>3. PICK p \in 1 .. Len(heap) :
          \E i \in 1 .. Len(heap[p].children) : heap[p].children[i] = q
    BY <2>2 DEF Shape, Linked
  <2>4. lv[p] = height - (d - 1) + 1
    <3>1. lv[q] = lv[p] - 1 /\ lv[p] \in Int  BY <2>3, <1>1, <1>3
    <3> QED BY <3>1, <2>1, <1>1
  <2>5. SpanOf(lo, hi, p) \in LevelOf(heap, height, lv, lo, hi, d - 1)  BY <2>4 DEF LevelOf
  <2>6. t \in ChildSpans(heap, SpanOf(lo, hi, p))  BY <2>1, <2>3, <1>2
  <2> QED BY <2>5, <2>6
<1> HIDE DEF U, L
<1>6. U = L  BY <1>4, <1>5
<1> QED BY <1>6 DEF U, L

LEMMA LevelsOf ==
  ASSUME NEW heap, NEW root, NEW height, NEW lv, NEW lo, NEW hi,
         Shape(heap, root, height, lv, lo, hi)
  PROVE  Levels(heap, root)
           = [d \in 1 .. Len(heap) |-> LevelOf(heap, height, lv, lo, hi, d)]
<1> DEFINE N == Len(heap)
           Eq(f) == f = [d \in 1 .. Len(heap) |->
                           IF d > 1 THEN UNION {ChildSpans(heap, s) : s \in f[d - 1]}
                           ELSE IF root = 0 THEN {} ELSE {Span(root, -1, MaxKey + 1)}]
           w == [d \in 1 .. Len(heap) |-> LevelOf(heap, height, lv, lo, hi, d)]
           f == CHOOSE g : Eq(g)
<1>1. /\ height \in Nat /\ root \in 1 .. N /\ N \in Nat
      /\ \A p \in 1 .. N : lv[p] \in 1 .. height
  BY ShapeTypes
<1>2. LevelOf(heap, height, lv, lo, hi, 1) = {Span(root, -1, MaxKey + 1)}
  <2>1. lv[root] = height /\ SpanOf(lo, hi, root) = Span(root, -1, MaxKey + 1)
    BY DEF Shape, Typed, SpanOf
  <2>2. ASSUME NEW q \in 1 .. N, lv[q] = height - 1 + 1 PROVE q = root
    <3> SUFFICES ASSUME q # root PROVE FALSE  OBVIOUS
    <3>1. PICK p \in 1 .. N :
            \E i \in 1 .. Len(heap[p].children) : heap[p].children[i] = q
      BY DEF Shape, Linked
    <3>2. lv[q] = lv[p] - 1  BY <3>1 DEF Shape, Branches, Branch
    <3> QED BY <3>2, <2>2, <1>1
  <2>3. lv[root] = height - 1 + 1  BY <2>1, <1>1
  <2>4. {q \in 1 .. N : lv[q] = height - 1 + 1} = {root}  BY <2>2, <2>3, <1>1
  <2> QED BY <2>1, <2>4 DEF LevelOf
<1>3. ASSUME NEW d \in 1 .. N
      PROVE  w[d] = IF d > 1 THEN UNION {ChildSpans(heap, s) : s \in w[d - 1]}
                    ELSE IF root = 0 THEN {} ELSE {Span(root, -1, MaxKey + 1)}
  <2>1. CASE d > 1
    <3>1. d \in 2 .. Len(heap) /\ d - 1 \in 1 .. N  BY <2>1, <1>1
    <3>2. w[d - 1] = LevelOf(heap, height, lv, lo, hi, d - 1)  BY <3>1
    <3>3. w[d] = LevelOf(heap, height, lv, lo, hi, d)  OBVIOUS
    <3> HIDE DEF w
    <3> QED BY <3>1, <3>2, <3>3, <2>1, LevelBelow
  <2>2. CASE ~(d > 1)
    <3>1. d = 1 /\ root # 0  BY <2>2, <1>1
    <3> QED BY <3>1, <1>2
  <2> QED BY <2>1, <2>2
<1>4. Eq(w)
  <2> HIDE DEF w
  <2>1. w = [d \in 1 .. Len(heap) |-> w[d]]  BY DEF w
  <2> QED BY <2>1, <1>3
<1>5. Eq(f)
  <2> HIDE DEF Eq, w
  <2> QED BY <1>4
<1>6. Levels(heap, root) = f  BY DEF Levels
<1> HIDE DEF f
<1>7. ASSUME NEW d \in 1 .. N
      PROVE  f[d] = IF d > 1 THEN UNION {ChildSpans(heap, s) : s \in f[d - 1]}
                    ELSE IF root = 0 THEN {} ELSE {Span(root, -1, MaxKey + 1)}
  BY <1>5
<1> HIDE DEF w
<1> DEFINE Good == {d \in 1 .. N : f[d] = w[d]}
<1>8. ASSUME NEW d \in 1 .. N, \A e \in 1 .. d - 1 : e \in Good PROVE d \in Good
  <2>1. CASE d > 1
    <3>1. d - 1 \in 1 .. d - 1  BY <2>1
    <3>2. f[d - 1] = w[d - 1]  BY <3>1, <1>8
    <3> QED BY <3>2, <2>1, <1>3, <1>7
  <2>2. CASE ~(d > 1)  BY <2>2, <1>3, <1>7
  <2> QED BY <2>1, <2>2
<1>9. \A d \in 1 .. N : d \in Good
  <2> HIDE DEF Good
  <2> QED BY <1>1, <1>8, UpTo
<1>10. f = w
  <2>1. f = [d \in 1 .. N |-> f[d]]  BY <1>5
  <2>2. w = [d \in 1 .. N |-> w[d]]  BY DEF w
  <2>3. \A d \in 1 .. N : f[d] = w[d]  BY <1>9
  <2> HIDE DEF Eq
  <2> QED BY <2>1, <2>2, <2>3
<1> QED BY <1>6, <1>10 DEF w


\* Every node is in the tree.
LEMMA AllReached ==
  ASSUME NEW heap, NEW root, NEW height, NEW lv, NEW lo, NEW hi,
         Shape(heap, root, height, lv, lo, hi)
  PROVE  NodesOf(heap, root) = 1 .. Len(heap)
<1> DEFINE N == Len(heap)
           level == Levels(heap, root)
           U == UNION {level[d] : d \in 1 .. N}
<1>1. /\ height \in 1 .. N /\ N \in Nat
      /\ \A p \in 1 .. N : lv[p] \in 1 .. height
  BY ShapeTypes
<1>2. \A d \in 1 .. N : level[d] = LevelOf(heap, height, lv, lo, hi, d)
  BY LevelsOf
<1> HIDE DEF level
<1>3. ASSUME NEW s \in U PROVE s.node \in 1 .. N
  <2>1. PICK d \in 1 .. N : s \in level[d]  OBVIOUS
  <2>2. s \in LevelOf(heap, height, lv, lo, hi, d)  BY <2>1, <1>2
  <2> QED BY <2>2 DEF LevelOf, SpanOf, Span
<1>4. ASSUME NEW p \in 1 .. N PROVE \E s \in U : s.node = p
  <2>1. height - lv[p] + 1 \in 1 .. N /\ lv[p] = height - (height - lv[p] + 1) + 1
    BY <1>1
  <2>2. SpanOf(lo, hi, p) \in LevelOf(heap, height, lv, lo, hi, height - lv[p] + 1)
    BY <2>1 DEF LevelOf
  <2>3. SpanOf(lo, hi, p) \in U  BY <2>1, <2>2, <1>2
  <2>4. SpanOf(lo, hi, p).node = p  BY DEF SpanOf, Span
  <2> HIDE DEF U
  <2> QED BY <2>3, <2>4
<1>5. NodesOf(heap, root) = {s.node : s \in U}  BY DEF NodesOf, level
<1> HIDE DEF U
<1> QED BY <1>3, <1>4, <1>5

\* Nothing is, without a root.
LEMMA NoneReached ==
  ASSUME NEW heap, Len(heap) \in Nat
  PROVE  /\ \A d \in 1 .. Len(heap) : Levels(heap, 0)[d] = {}
         /\ DOMAIN Levels(heap, 0) = 1 .. Len(heap)
         /\ NodesOf(heap, 0) = {} /\ EntriesOf(heap, 0) = {}
<1> DEFINE N == Len(heap)
           Eq(f) == f = [d \in 1 .. Len(heap) |->
                           IF d > 1 THEN UNION {ChildSpans(heap, s) : s \in f[d - 1]}
                           ELSE IF 0 = 0 THEN {} ELSE {Span(0, -1, MaxKey + 1)}]
           w == [d \in 1 .. Len(heap) |-> {}]
           f == CHOOSE g : Eq(g)
<1>1. Eq(w)
  <2>1. ASSUME NEW d \in 1 .. N
        PROVE  {} = IF d > 1 THEN UNION {ChildSpans(heap, s) : s \in w[d - 1]}
                    ELSE IF 0 = 0 THEN {} ELSE {Span(0, -1, MaxKey + 1)}
    <3>1. CASE d > 1
      <4>1. d - 1 \in 1 .. Len(heap)  BY <3>1
      <4>2. w[d - 1] = {}  BY <4>1
      <4> QED BY <4>2
    <3> QED BY <3>1
  <2> QED BY <2>1
<1>2. Eq(f)
  <2> HIDE DEF Eq, w
  <2> QED BY <1>1
<1>3. Levels(heap, 0) = f  BY DEF Levels
<1> HIDE DEF f
<1>4. ASSUME NEW d \in 1 .. N
      PROVE  f[d] = IF d > 1 THEN UNION {ChildSpans(heap, s) : s \in f[d - 1]} ELSE {}
  BY <1>2
<1> DEFINE Good == {d \in 1 .. N : f[d] = {}}
<1>5. ASSUME NEW d \in 1 .. N, \A e \in 1 .. d - 1 : e \in Good PROVE d \in Good
  <2>1. CASE d > 1
    <3>1. d - 1 \in 1 .. d - 1  BY <2>1
    <3>2. f[d - 1] = {}  BY <3>1, <1>5
    <3> QED BY <3>2, <2>1, <1>4
  <2>2. CASE ~(d > 1)  BY <2>2, <1>4
  <2> QED BY <2>1, <2>2
<1>6. \A d \in 1 .. N : d \in Good
  <2> HIDE DEF Good
  <2> QED BY <1>5, UpTo
<1>7. \A d \in 1 .. Len(heap) : Levels(heap, 0)[d] = {}  BY <1>3, <1>6
<1>8. DOMAIN Levels(heap, 0) = 1 .. Len(heap)  BY <1>2, <1>3
<1>9. NodesOf(heap, 0) = {}  BY <1>7 DEF NodesOf
<1>10. EntriesOf(heap, 0) = {}  BY <1>9 DEF EntriesOf
<1> QED BY <1>7, <1>8, <1>9, <1>10

AllItems(heap) == UNION {ToSet(heap[p].items) : p \in 1 .. Len(heap)}

LEMMA EntriesAre ==
  ASSUME NEW heap, NEW root, NEW height, NEW lv, NEW lo, NEW hi,
         Shape(heap, root, height, lv, lo, hi)
  PROVE  EntriesOf(heap, root) = AllItems(heap)
BY AllReached DEF EntriesOf, AllItems

LEMMA ItemsIn ==
  ASSUME NEW heap \in Seq(NodeSet)
  PROVE  \A e : e \in AllItems(heap) <=>
           \E p \in 1 .. Len(heap) : \E i \in 1 .. Len(heap[p].items) : e = heap[p].items[i]
<1>1. \A p \in 1 .. Len(heap) : DOMAIN heap[p].items = 1 .. Len(heap[p].items)
  BY DEF NodeSet
<1> QED BY <1>1 DEF AllItems, ToSet

-----------------------------------------------------------------------------
(* What TreeSound says follows from the shape, and the sizes of the nodes.  *)

Sizes(heap, root) ==
  \A p \in 1 .. Len(heap) :
    Len(heap[p].items) \in (IF p = root THEN 1 ELSE MinItems) .. MaxItems

SoundTree(heap, root, height) ==
  \E lv \in [1 .. Len(heap) -> 1 .. height], lo, hi \in [1 .. Len(heap) -> Int] :
    Shape(heap, root, height, lv, lo, hi)

LEMMA SoundHolds ==
  ASSUME SoundTree(nodes, tree.root, tree.height), Sizes(nodes, tree.root)
  PROVE  TreeSound
<1> PICK lv \in [1 .. Len(nodes) -> 1 .. tree.height],
         lo \in [1 .. Len(nodes) -> Int], hi \in [1 .. Len(nodes) -> Int] :
      Shape(nodes, tree.root, tree.height, lv, lo, hi)
  BY DEF SoundTree
<1> DEFINE level == Levels(nodes, tree.root)
<1>1. /\ DOMAIN level = 1 .. Len(nodes)
      /\ \A d \in 1 .. Len(nodes) :
           level[d] = LevelOf(nodes, tree.height, lv, lo, hi, d)
  BY LevelsOf
<1>2. /\ nodes \in Seq(NodeSet) /\ Len(nodes) \in Nat /\ tree.height \in 1 .. Len(nodes)
      /\ tree.root \in 1 .. Len(nodes)
      /\ \A p \in 1 .. Len(nodes) : lv[p] \in 1 .. tree.height
  BY ShapeTypes
<1>3. tree.root = 0 <=> tree.height = 0  BY <1>2
<1> HIDE DEF level
<1>4. ASSUME NEW d \in DOMAIN level, NEW s \in level[d]
      PROVE  /\ SpanSound(s, d)
             /\ \A e \in DOMAIN level : \A t \in level[e] : t.node = s.node => t = s /\ e = d
  <2>1. d \in 1 .. Len(nodes) /\ s \in LevelOf(nodes, tree.height, lv, lo, hi, d)
    BY <1>1
  <2>2. PICK p \in 1 .. Len(nodes) : lv[p] = tree.height - d + 1 /\ s = SpanOf(lo, hi, p)
    BY <2>1 DEF LevelOf
  <2>3. s.node = p /\ s.lo = lo[p] /\ s.hi = hi[p]  BY <2>2 DEF SpanOf, Span
  <2>4. d <= tree.height /\ (d = tree.height <=> lv[p] = 1) /\ (p = tree.root => d = 1)
    <3>1. lv[tree.root] = tree.height  BY DEF Shape, Typed
    <3>2. /\ tree.height \in Nat /\ d \in Nat /\ d >= 1 /\ lv[p] \in Nat /\ lv[p] >= 1
      BY <2>1, <1>2, SMTT(30)
    <3>3. lv[p] = tree.height - d + 1  BY <2>2
    <3>4. p = tree.root => lv[p] = tree.height  BY <3>1
    <3> QED BY <3>2, <3>3, <3>4
  <2>5. d = 1 => p = tree.root
    <3> SUFFICES ASSUME d = 1, p # tree.root PROVE FALSE  OBVIOUS
    <3>1. PICK q \in 1 .. Len(nodes) :
            \E i \in 1 .. Len(nodes[q].children) : nodes[q].children[i] = p
      BY DEF Shape, Linked
    <3>2. lv[p] = lv[q] - 1  BY <3>1 DEF Shape, Branches, Branch
    <3> QED BY <3>2, <2>2, <1>2
  <2>6. SpanSound(s, d)
    <3>1. IsLeaf(nodes[p]) <=> lv[p] = 1  BY DEF Shape, Branches, Branch, IsLeaf
    <3>2. ~IsLeaf(nodes[p]) => Len(nodes[p].children) = Len(nodes[p].items) + 1
      BY DEF Shape, Branches, Branch, IsLeaf
    <3>3. Len(nodes[p].items) \in (IF d = 1 THEN 1 ELSE MinItems) .. MaxItems
      BY <2>4, <2>5 DEF Sizes
    <3>4. /\ \A i \in 1 .. Len(nodes[p].items) :
               lo[p] < nodes[p].items[i].key /\ nodes[p].items[i].key < hi[p]
          /\ \A i, j \in 1 .. Len(nodes[p].items) :
               i < j => nodes[p].items[i].key < nodes[p].items[j].key
      BY DEF Shape, Sorted, Ascend, Between
    <3>5. IsLeaf(nodes[p]) <=> d = tree.height  BY <3>1, <2>4
    <3> QED BY <3>2, <3>3, <3>4, <3>5, <2>3, <2>4 DEF SpanSound
  <2>7. ASSUME NEW e \in DOMAIN level, NEW t \in level[e], t.node = s.node
        PROVE  t = s /\ e = d
    <3>1. e \in 1 .. Len(nodes) /\ t \in LevelOf(nodes, tree.height, lv, lo, hi, e)
      BY <1>1
    <3>2. PICK q \in 1 .. Len(nodes) : lv[q] = tree.height - e + 1 /\ t = SpanOf(lo, hi, q)
      BY <3>1 DEF LevelOf
    <3>3. q = p  BY <3>2, <2>3, <2>7 DEF SpanOf, Span
    <3>4. e = d
      <4>1. tree.height - e + 1 = tree.height - d + 1  BY <3>2, <3>3, <2>2
      <4>2. tree.height \in Int /\ d \in Int /\ e \in Int  BY <3>1, <2>1, <1>2, SMTT(30)
      <4> QED BY <4>1, <4>2, SMTT(30)
    <3> QED BY <3>2, <3>3, <3>4, <2>2
  <2> QED BY <2>6, <2>7
<1> QED BY <1>3, <1>4 DEF TreeSound, level


-----------------------------------------------------------------------------
(* Nodes that take an item, and halves of nodes.                            *)

LEMMA InsertAscends ==
  ASSUME NEW node \in NodeSet, Ascend(node), NEW a \in Int, NEW b \in Int,
         Between(node, a, b), NEW e \in Entry, NEW i \in 1 .. Len(node.items) + 1,
         \A j \in 1 .. i - 1 : node.items[j].key < e.key,
         \A j \in i .. Len(node.items) : e.key < node.items[j].key,
         a < e.key, e.key < b,
         NEW node2 \in NodeSet, node2.items = InsertAt(node.items, i, e)
  PROVE  Ascend(node2) /\ Between(node2, a, b)
<1> DEFINE n == Len(node.items)
           f == [j \in 1 .. n |-> node.items[j].key]
           g == [j \in 1 .. n + 1 |-> node2.items[j].key]
           k == e.key
<1>1. n \in Nat /\ \A j \in 1 .. n : f[j] \in Int
  BY KeyTypes, BTreeAssumption
<1>2. /\ Len(node2.items) = n + 1
      /\ \A j \in 1 .. i - 1 : node2.items[j] = node.items[j]
      /\ node2.items[i] = e
      /\ \A j \in i .. n : node2.items[j + 1] = node.items[j]
  <2>1. node.items \in Seq(Entry)  BY KeyTypes
  <2>2. /\ Len(InsertAt(node.items, i, e)) = Len(node.items) + 1
        /\ \A j \in 1 .. i - 1 : InsertAt(node.items, i, e)[j] = node.items[j]
        /\ InsertAt(node.items, i, e)[i] = e
        /\ \A j \in i .. Len(node.items) :
             InsertAt(node.items, i, e)[j + 1] = node.items[j]
    BY ONLY <2>1, e \in Entry, i \in 1 .. Len(node.items) + 1, Inserted
  <2> QED BY <2>2
<1>3. k \in Int  BY BTreeAssumption DEF Entry
<1>4. /\ \A j \in 1 .. i - 1 : g[j] = f[j]
      /\ g[i] = k
      /\ \A j \in i .. n : g[j + 1] = f[j]
  BY <1>1, <1>2
<1>5. \A j, l \in 1 .. n : j < l => f[j] < f[l]  BY DEF Ascend
<1>6. \A j \in 1 .. n : a < f[j] /\ f[j] < b  BY DEF Between
<1>7. \A j \in 1 .. i - 1 : f[j] < k  BY <1>1
<1>8. \A j \in i .. n : k < f[j]  BY <1>1
<1>9. a < k /\ k < b  OBVIOUS
<1>10. /\ \A j \in 1 .. n + 1 : g[j] = node2.items[j].key
       /\ i \in 1 .. n + 1
  OBVIOUS
<1> HIDE DEF n, f, g, k
<1>11. \A j \in 1 .. n + 1 : g[j] = IF j < i THEN f[j] ELSE IF j = i THEN k ELSE f[j - 1]
  <2> SUFFICES ASSUME NEW j \in 1 .. n + 1
               PROVE  g[j] = IF j < i THEN f[j] ELSE IF j = i THEN k ELSE f[j - 1]
    OBVIOUS
  <2>1. CASE j < i
    <3>1. j \in 1 .. i - 1  BY <2>1, <1>1, <1>10
    <3> QED BY <3>1, <2>1, <1>4
  <2>2. CASE j = i  BY <2>2, <1>4
  <2>3. CASE ~(j < i) /\ j # i
    <3>1. j - 1 \in i .. n /\ (j - 1) + 1 = j  BY <2>3, <1>1, <1>10
    <3>2. g[(j - 1) + 1] = f[j - 1]  BY <3>1, <1>4
    <3> QED BY <3>1, <3>2, <2>3
  <2> QED BY <2>1, <2>2, <2>3
<1>12. ASSUME NEW j \in 1 .. n + 1 PROVE a < g[j] /\ g[j] < b
  <2>1. CASE j < i
    <3>1. j \in 1 .. n  BY <2>1, <1>1, <1>10
    <3> QED BY <3>1, <2>1, <1>6, <1>11
  <2>2. CASE j = i  BY <2>2, <1>9, <1>11
  <2>3. CASE ~(j < i) /\ j # i
    <3>1. j - 1 \in 1 .. n  BY <2>3, <1>1, <1>10
    <3> QED BY <3>1, <2>3, <1>6, <1>11
  <2> QED BY <2>1, <2>2, <2>3
<1>13. ASSUME NEW j \in 1 .. n + 1, NEW l \in 1 .. n + 1, j < l PROVE g[j] < g[l]
  <2>1. CASE l < i
    <3>1. j \in 1 .. n /\ l \in 1 .. n /\ j < i  BY <2>1, <1>1, <1>10, <1>13
    <3> QED BY <3>1, <2>1, <1>5, <1>11, <1>13
  <2>2. CASE l = i
    <3>1. j \in 1 .. i - 1 /\ j < i  BY <2>2, <1>1, <1>10, <1>13
    <3> QED BY <3>1, <2>2, <1>7, <1>11
  <2>3. CASE i < l
    <3>1. l - 1 \in i .. n /\ l - 1 \in 1 .. n /\ ~(l < i) /\ l # i
      BY <2>3, <1>1, <1>10
    <3>2. g[l] = f[l - 1] /\ k < f[l - 1]  BY <3>1, <1>8, <1>11
    <3>3. CASE j < i
      <4>1. j \in 1 .. i - 1 /\ j \in 1 .. n  BY <3>3, <1>1, <1>10
      <4>2. g[j] = f[j] /\ f[j] < k  BY <3>3, <4>1, <1>7, <1>11
      <4> QED BY <3>1, <3>2, <4>1, <4>2, <1>1, <1>3
    <3>4. CASE j = i  BY <3>2, <3>4, <1>11
    <3>5. CASE i < j
      <4>1. j - 1 \in 1 .. n /\ j - 1 < l - 1 /\ ~(j < i) /\ j # i
        BY <3>5, <1>1, <1>10, <1>13
      <4>2. g[j] = f[j - 1]  BY <4>1, <1>11
      <4> QED BY <3>1, <3>2, <4>1, <4>2, <1>5
    <3> QED BY <3>3, <3>4, <3>5, <1>10
  <2> QED BY <2>1, <2>2, <2>3, <1>10
<1>14. \A j \in 1 .. n + 1 : a < node2.items[j].key /\ node2.items[j].key < b
  BY <1>10, <1>12
<1>15. \A j, l \in 1 .. n + 1 : j < l => node2.items[j].key < node2.items[l].key
  BY <1>10, <1>13
<1> QED BY <1>2, <1>14, <1>15 DEF Ascend, Between, n

\* A part of a node, between keys that fit.
LEMMA PartAscends ==
  ASSUME NEW node \in NodeSet, Ascend(node), NEW a \in Int, NEW b \in Int,
         NEW from \in Nat \ {0}, NEW to \in 0 .. Len(node.items), from <= to + 1,
         \A i \in from .. to : a < node.items[i].key /\ node.items[i].key < b,
         NEW node2 \in NodeSet, node2.items = SubSeq(node.items, from, to)
  PROVE  Ascend(node2) /\ Between(node2, a, b)
<1>1. /\ Len(node2.items) = to - from + 1
      /\ \A j \in 1 .. to - from + 1 : node2.items[j] = node.items[from + j - 1]
  BY KeyTypes, SubSeqOf
<1>2. Len(node.items) \in Nat  BY KeyTypes
<1>3. ASSUME NEW j \in 1 .. to - from + 1
      PROVE  from + j - 1 \in from .. to /\ from + j - 1 \in 1 .. Len(node.items)
  BY <1>2
<1>4. Between(node2, a, b)
  <2>1. ASSUME NEW j \in 1 .. to - from + 1
        PROVE  a < node2.items[j].key /\ node2.items[j].key < b
    BY <1>1, <1>3
  <2> QED BY <2>1, <1>1 DEF Between
<1>5. Ascend(node2)
  <2>1. ASSUME NEW j \in 1 .. to - from + 1, NEW l \in 1 .. to - from + 1, j < l
        PROVE  node2.items[j].key < node2.items[l].key
    <3>1. from + j - 1 < from + l - 1  BY <2>1
    <3>2. node.items[from + j - 1].key < node.items[from + l - 1].key
      BY <3>1, <1>3 DEF Ascend
    <3> QED BY <3>2, <1>1
  <2> QED BY <2>1, <1>1 DEF Ascend
<1> QED BY <1>4, <1>5


-----------------------------------------------------------------------------
(* The shape through the changes of the nodes.                              *)

\* The first root.
LEMMA FirstShape ==
  ASSUME NEW e \in Entry
  PROVE  SoundTree(<<Node(<<e>>, <<>>)>>, 1, 1)
<1> DEFINE heap == <<Node(<<e>>, <<>>)>>
           lv == [p \in 1 .. 1 |-> 1]
           lo == [p \in 1 .. 1 |-> -1]
           hi == [p \in 1 .. 1 |-> MaxKey + 1]
<1>1. /\ Len(heap) = 1 /\ heap[1].items = <<e>> /\ heap[1].children = <<>>
      /\ heap[1] \in NodeSet
  BY DEF Node, NodeSet
<1>2. heap \in Seq(NodeSet)  BY <1>1
<1>3. e.key \in 0 .. MaxKey /\ MaxKey \in Nat  BY BTreeAssumption DEF Entry
<1>4. Len(<<e>>) = 1 /\ <<e>>[1] = e /\ Len(<<>>) = 0  OBVIOUS
<1> HIDE DEF heap
<1>5. /\ lv \in [1 .. Len(heap) -> 1 .. 1]
      /\ lo \in [1 .. Len(heap) -> Int] /\ hi \in [1 .. Len(heap) -> Int]
      /\ \A p \in 1 .. Len(heap) : p = 1
      /\ lv[1] = 1 /\ lo[1] = -1 /\ hi[1] = MaxKey + 1
  BY <1>1, <1>3
<1> HIDE DEF lv, lo, hi
<1>6. Typed(heap, 1, 1, lv, lo, hi)  BY <1>1, <1>2, <1>5 DEF Typed
<1>7. Sorted(heap, lo, hi)
  <2>1. lo[1] < hi[1] /\ lo[1] < e.key /\ e.key < hi[1]  BY <1>3, <1>5
  <2>2. Ascend(heap[1])  BY <1>1, <1>4 DEF Ascend
  <2>3. Between(heap[1], lo[1], hi[1])  BY <1>1, <1>4, <2>1 DEF Between
  <2> QED BY <1>5, <2>1, <2>2, <2>3 DEF Sorted
<1>8. Branches(heap, lv, lo, hi)  BY <1>1, <1>4, <1>5 DEF Branches, Branch
<1>9. Linked(heap, 1) /\ Apart(heap, lv, lo, hi)  BY <1>5 DEF Linked, Apart
<1>10. Outside(heap, lv, lo, hi)
  <2>1. ~(lv[1] < lv[1])  BY <1>5
  <2> QED BY <1>5, <2>1 DEF Outside
<1>11. Shape(heap, 1, 1, lv, lo, hi)  BY <1>6, <1>7, <1>8, <1>9, <1>10 DEF Shape
<1> QED BY <1>5, <1>11 DEF SoundTree, heap

LEMMA LinkedKept ==
  ASSUME NEW heap, NEW heap2, NEW root, Linked(heap, root), Len(heap2) = Len(heap),
         \A p \in 1 .. Len(heap) : heap2[p].children = heap[p].children
  PROVE  Linked(heap2, root)
<1>1. ASSUME NEW p \in 1 .. Len(heap), p # root
      PROVE  \E q \in 1 .. Len(heap) : \E i \in 1 .. Len(heap2[q].children) :
               heap2[q].children[i] = p
  <2>1. PICK q \in 1 .. Len(heap) :
          \E i \in 1 .. Len(heap[q].children) : heap[q].children[i] = p
    BY <1>1 DEF Linked
  <2>2. heap2[q].children = heap[q].children  OBVIOUS
  <2> QED BY <2>1, <2>2
<1> QED BY <1>1 DEF Linked

\* Nothing of the shape depends on more than the keys.
LEMMA KeysKept ==
  ASSUME NEW heap, NEW root, NEW height, NEW lv, NEW lo, NEW hi,
         Shape(heap, root, height, lv, lo, hi),
         NEW heap2 \in Seq(NodeSet), Len(heap2) = Len(heap),
         \A p \in 1 .. Len(heap) :
           /\ heap2[p].children = heap[p].children
           /\ Len(heap2[p].items) = Len(heap[p].items)
           /\ \A i \in 1 .. Len(heap[p].items) :
                heap2[p].items[i].key = heap[p].items[i].key
  PROVE  Shape(heap2, root, height, lv, lo, hi)
<1>1. Typed(heap2, root, height, lv, lo, hi)  BY DEF Shape, Typed
<1>2. Sorted(heap2, lo, hi)  BY DEF Shape, Sorted, Ascend, Between
<1>3. Branches(heap2, lv, lo, hi)
  <2>1. ASSUME NEW p \in 1 .. Len(heap) PROVE Branch(heap2, lv, lo, hi, p)
    <3>1. Branch(heap, lv, lo, hi, p)  BY DEF Shape, Branches
    <3>2. ASSUME NEW i \in 1 .. Len(heap[p].children)
          PROVE  /\ Low(heap2, lo, p, i) = Low(heap, lo, p, i)
                 /\ High(heap2, hi, p, i) = High(heap, hi, p, i)
      <4>1. Len(heap[p].children) = Len(heap[p].items) + 1 /\ Len(heap[p].items) \in Nat
        BY ChildRange, ShapeTypes
      <4>2. i # 1 => i - 1 \in 1 .. Len(heap[p].items)  BY <4>1
      <4>3. i # Len(heap[p].items) + 1 => i \in 1 .. Len(heap[p].items)  BY <4>1
      <4> QED BY <4>2, <4>3 DEF Low, High
    <3> QED BY <3>1, <3>2 DEF Branch
  <2> QED BY <2>1 DEF Branches
<1>4. Linked(heap2, root)  BY LinkedKept DEF Shape
<1>5. Apart(heap2, lv, lo, hi)  BY DEF Shape, Apart
<1>6. Outside(heap2, lv, lo, hi)  BY DEF Shape, Outside
<1> QED BY <1>1, <1>2, <1>3, <1>4, <1>5, <1>6 DEF Shape

\* A leaf takes an item.
LEMMA LeafTakes ==
  ASSUME NEW heap, NEW root, NEW height, NEW lv, NEW lo, NEW hi,
         Shape(heap, root, height, lv, lo, hi),
         NEW p \in 1 .. Len(heap), lv[p] = 1, NEW e \in Entry,
         lo[p] < e.key, e.key < hi[p], ~Found(heap[p], e.key),
         NEW heap2 \in Seq(NodeSet), Len(heap2) = Len(heap),
         \A q \in 1 .. Len(heap) : q # p => heap2[q] = heap[q],
         heap2[p].children = heap[p].children,
         heap2[p].items = InsertAt(heap[p].items, Place(heap[p], e.key), e)
  PROVE  Shape(heap2, root, height, lv, lo, hi)
<1>1. /\ \A q \in 1 .. Len(heap) :
           /\ heap[q] \in NodeSet
           /\ lv[q] \in 1 .. height /\ lo[q] \in Int /\ hi[q] \in Int
           /\ Len(heap[q].items) \in Nat
      /\ heap2[p] \in NodeSet /\ e.key \in Int
  BY ShapeTypes, BTreeAssumption DEF Entry
<1>2. Typed(heap2, root, height, lv, lo, hi)  BY DEF Shape, Typed
<1>3. Ascend(heap2[p]) /\ Between(heap2[p], lo[p], hi[p])
  <2> DEFINE i == Place(heap[p], e.key)
  <2>1. Ascend(heap[p]) /\ Between(heap[p], lo[p], hi[p])  BY DEF Shape, Sorted
  <2>2. /\ i \in 1 .. Len(heap[p].items) + 1
        /\ \A j \in 1 .. i - 1 : heap[p].items[j].key < e.key
        /\ \A j \in i .. Len(heap[p].items) : e.key <= heap[p].items[j].key
    BY <1>1, <2>1, PlaceFirst
  <2> HIDE DEF i
  <2>3. ASSUME NEW j \in i .. Len(heap[p].items) PROVE e.key < heap[p].items[j].key
    <3>1. j \in 1 .. Len(heap[p].items)  BY <1>1, <2>2
    <3>2. heap[p].items[j].key \in 0 .. MaxKey  BY <3>1, ShapeTypes
    <3>3. heap[p].items[j].key \in Int  BY <3>2, BTreeAssumption
    <3>4. heap[p].items[j].key # e.key  BY <3>1 DEF Found
    <3>5. e.key <= heap[p].items[j].key  BY <2>2
    <3> QED BY <1>1, <3>3, <3>4, <3>5
  <2>4. heap2[p].items = InsertAt(heap[p].items, i, e)  BY DEF i
  <2>5. heap[p] \in NodeSet /\ lo[p] \in Int /\ hi[p] \in Int  BY <1>1
  <2> QED BY ONLY <1>1, <2>1, <2>2, <2>3, <2>4, <2>5, e \in Entry, lo[p] < e.key,
                  e.key < hi[p], InsertAscends
<1>4. Sorted(heap2, lo, hi)
  <2>1. ASSUME NEW q \in 1 .. Len(heap)
        PROVE  lo[q] < hi[q] /\ Ascend(heap2[q]) /\ Between(heap2[q], lo[q], hi[q])
    <3>1. CASE q = p  BY <3>1, <1>3 DEF Shape, Sorted
    <3>2. CASE q # p
      <4>1. heap2[q] = heap[q]  BY <3>2
      <4> QED BY <4>1 DEF Shape, Sorted
    <3> QED BY <3>1, <3>2
  <2> QED BY <2>1 DEF Sorted
<1>5. heap[p].children = <<>> /\ heap2[p].children = <<>>
      /\ \A q \in 1 .. Len(heap) : heap2[q].children = heap[q].children
  BY DEF Shape, Branches, Branch
<1>6. Branches(heap2, lv, lo, hi)
  <2>1. ASSUME NEW q \in 1 .. Len(heap) PROVE Branch(heap2, lv, lo, hi, q)
    <3>1. CASE q = p
      <4>1. Len(heap2[q].children) = 0  BY <3>1, <1>5
      <4> QED BY <3>1, <4>1, <1>5 DEF Branch
    <3>2. CASE q # p
      <4>1. heap2[q] = heap[q]  BY <3>2
      <4>2. Branch(heap, lv, lo, hi, q)  BY DEF Shape, Branches
      <4>3. \A i : /\ Low(heap2, lo, q, i) = Low(heap, lo, q, i)
                   /\ High(heap2, hi, q, i) = High(heap, hi, q, i)
        BY <4>1 DEF Low, High
      <4> QED BY <4>1, <4>2, <4>3 DEF Branch
    <3> QED BY <3>1, <3>2
  <2> QED BY <2>1 DEF Branches
<1>7. Linked(heap2, root)  BY <1>5, LinkedKept DEF Shape
<1>8. Apart(heap2, lv, lo, hi)  BY DEF Shape, Apart
<1>9. Outside(heap2, lv, lo, hi)
  <2>1. ASSUME NEW x \in 1 .. Len(heap), NEW y \in 1 .. Len(heap), lv[x] < lv[y]
        PROVE  heap2[y] = heap[y]
    <3>1. lv[x] \in Int /\ lv[x] >= 1  BY <1>1
    <3>2. y # p  BY <2>1, <3>1
    <3> QED BY <3>2
  <2> QED BY <2>1 DEF Shape, Outside
<1> QED BY <1>2, <1>4, <1>6, <1>7, <1>8, <1>9 DEF Shape


Extended(f, n, x) == [q \in 1 .. n + 1 |-> IF q = n + 1 THEN x ELSE f[q]]

LEMMA ExtendedAt ==
  ASSUME NEW n \in Nat, NEW f, NEW x
  PROVE  /\ Extended(f, n, x)[n + 1] = x
         /\ \A q \in 1 .. n : Extended(f, n, x)[q] = f[q]
<1>1. n + 1 \in 1 .. n + 1  OBVIOUS
<1>2. \A q \in 1 .. n : q \in 1 .. n + 1 /\ q # n + 1  OBVIOUS
<1> QED BY <1>1, <1>2 DEF Extended

\* A root without items over the old one.
LEMMA GrownShape ==
  ASSUME NEW heap, NEW root, NEW height, NEW lv, NEW lo, NEW hi,
         Shape(heap, root, height, lv, lo, hi),
         NEW n \in Nat, n = Len(heap),
         NEW heap2 \in Seq(NodeSet), Len(heap2) = n + 1,
         \A q \in 1 .. n : heap2[q] = heap[q],
         heap2[n + 1] = Node(<<>>, <<root>>),
         NEW lv2, lv2 = Extended(lv, n, height + 1),
         NEW lo2, lo2 = Extended(lo, n, -1),
         NEW hi2, hi2 = Extended(hi, n, MaxKey + 1)
  PROVE  Shape(heap2, n + 1, height + 1, lv2, lo2, hi2)
<1>1. /\ height \in 1 .. n /\ root \in 1 .. n
      /\ \A q \in 1 .. n :
           lv[q] \in 1 .. height /\ lo[q] \in Int /\ hi[q] \in Int
  BY ShapeTypes
<1>2. /\ lv2[n + 1] = height + 1 /\ lo2[n + 1] = -1 /\ hi2[n + 1] = MaxKey + 1
      /\ \A q \in 1 .. n : lv2[q] = lv[q] /\ lo2[q] = lo[q] /\ hi2[q] = hi[q]
  BY ExtendedAt
<1>3. heap2[n + 1].items = <<>> /\ heap2[n + 1].children = <<root>>  BY DEF Node
<1>4. MaxKey \in Nat  BY BTreeAssumption
<1>5. \A q \in 1 .. n + 1 : q \in 1 .. n \/ q = n + 1  OBVIOUS
<1>6. Typed(heap2, n + 1, height + 1, lv2, lo2, hi2)
  <2>1. lv2 \in [1 .. n + 1 -> 1 .. height + 1]
    <3>1. \A q \in 1 .. n + 1 : (IF q = n + 1 THEN height + 1 ELSE lv[q]) \in 1 .. height + 1
      BY <1>1, <1>5
    <3> QED BY <3>1 DEF Extended
  <2>2. lo2 \in [1 .. n + 1 -> Int]  BY <1>1, <1>5 DEF Extended
  <2>3. hi2 \in [1 .. n + 1 -> Int]  BY <1>1, <1>4, <1>5 DEF Extended
  <2> QED BY <2>1, <2>2, <2>3, <1>1, <1>2 DEF Typed
<1>7. Sorted(heap2, lo2, hi2)
  <2>1. ASSUME NEW q \in 1 .. n
        PROVE  lo2[q] < hi2[q] /\ Ascend(heap2[q]) /\ Between(heap2[q], lo2[q], hi2[q])
    BY <1>2 DEF Shape, Sorted
  <2>2. lo2[n + 1] < hi2[n + 1]  BY <1>2, <1>4
  <2>3. Len(heap2[n + 1].items) = 0  BY <1>3
  <2>4. Ascend(heap2[n + 1]) /\ Between(heap2[n + 1], lo2[n + 1], hi2[n + 1])
    BY <2>3 DEF Ascend, Between
  <2> QED BY <2>1, <2>2, <2>4, <1>5 DEF Sorted
<1>8. Branches(heap2, lv2, lo2, hi2)
  <2>1. ASSUME NEW q \in 1 .. n PROVE Branch(heap2, lv2, lo2, hi2, q)
    <3>1. Branch(heap, lv, lo, hi, q)  BY DEF Shape, Branches
    <3>2. heap2[q] = heap[q] /\ lv2[q] = lv[q] /\ lo2[q] = lo[q] /\ hi2[q] = hi[q]
      BY <1>2
    <3>3. \A i : /\ Low(heap2, lo2, q, i) = Low(heap, lo, q, i)
                 /\ High(heap2, hi2, q, i) = High(heap, hi, q, i)
      BY <3>2 DEF Low, High
    <3>4. ASSUME NEW i \in 1 .. Len(heap[q].children)
          PROVE  /\ heap[q].children[i] \in 1 .. Len(heap2)
                 /\ lv2[heap[q].children[i]] = lv[q] - 1
                 /\ lo2[heap[q].children[i]] = Low(heap, lo, q, i)
                 /\ hi2[heap[q].children[i]] = High(heap, hi, q, i)
      <4> DEFINE c == heap[q].children[i]
      <4>1. /\ c \in 1 .. n /\ lv[c] = lv[q] - 1
            /\ lo[c] = Low(heap, lo, q, i) /\ hi[c] = High(heap, hi, q, i)
        BY <3>1 DEF Branch
      <4> HIDE DEF c
      <4>2. lv2[c] = lv[c] /\ lo2[c] = lo[c] /\ hi2[c] = hi[c] /\ c \in 1 .. n + 1
        BY <4>1, <1>2
      <4>3. /\ c \in 1 .. Len(heap2) /\ lv2[c] = lv[q] - 1
            /\ lo2[c] = Low(heap, lo, q, i) /\ hi2[c] = High(heap, hi, q, i)
        BY <4>1, <4>2
      <4> QED BY <4>3 DEF c
    <3> QED BY <3>1, <3>2, <3>3, <3>4 DEF Branch
  <2>2. Branch(heap2, lv2, lo2, hi2, n + 1)
    <3>1. /\ Len(heap2[n + 1].children) = 1 /\ Len(heap2[n + 1].items) = 0
          /\ heap2[n + 1].children[1] = root /\ heap2[n + 1].children # <<>>
      <4>1. Len(<<root>>) = 1 /\ Len(<<>>) = 0 /\ <<root>>[1] = root  OBVIOUS
      <4>2. <<root>> # <<>>  BY <4>1
      <4> QED BY ONLY <4>1, <4>2, <1>3
    <3>2. lv[root] = height /\ lo[root] = -1 /\ hi[root] = MaxKey + 1
      BY DEF Shape, Typed
    <3>3. /\ root \in 1 .. n + 1 /\ lv2[root] = height /\ height = (height + 1) - 1
          /\ lo2[root] = -1 /\ hi2[root] = MaxKey + 1 /\ height + 1 # 1
      BY <3>2, <1>1, <1>2
    <3>4. Low(heap2, lo2, n + 1, 1) = -1 /\ High(heap2, hi2, n + 1, 1) = MaxKey + 1
      BY <3>1, <1>2 DEF Low, High
    <3>5. ASSUME NEW i \in 1 .. Len(heap2[n + 1].children)
          PROVE  /\ heap2[n + 1].children[i] \in 1 .. Len(heap2)
                 /\ lv2[heap2[n + 1].children[i]] = lv2[n + 1] - 1
                 /\ lo2[heap2[n + 1].children[i]] = Low(heap2, lo2, n + 1, i)
                 /\ hi2[heap2[n + 1].children[i]] = High(heap2, hi2, n + 1, i)
      <4>1. i = 1
        <5>1. i \in 1 .. 1  BY ONLY <3>1, i \in 1 .. Len(heap2[n + 1].children)
        <5> QED BY ONLY <5>1
      <4>2. heap2[n + 1].children[i] = root  BY <4>1, <3>1
      <4>3. root \in 1 .. Len(heap2) /\ lv2[root] = lv2[n + 1] - 1  BY <3>3, <1>2
      <4>4. Low(heap2, lo2, n + 1, i) = -1 /\ High(heap2, hi2, n + 1, i) = MaxKey + 1
        BY <4>1, <3>4
      <4> QED BY ONLY <4>2, <4>3, <4>4, <3>3
    <3>6. lv2[n + 1] # 1  BY <3>3, <1>2
    <3>7. heap2[n + 1].children # <<>> /\ Len(heap2[n + 1].children) = Len(heap2[n + 1].items) + 1
      BY ONLY <3>1
    <3> QED BY ONLY <3>5, <3>6, <3>7 DEF Branch
  <2> QED BY <2>1, <2>2, <1>5 DEF Branches
<1>9. Linked(heap2, n + 1)
  <2>1. ASSUME NEW q \in 1 .. n
        PROVE  \E x \in 1 .. n + 1 : \E i \in 1 .. Len(heap2[x].children) :
                 heap2[x].children[i] = q
    <3>1. CASE q = root
      <4>1. /\ n + 1 \in 1 .. n + 1 /\ 1 \in 1 .. Len(heap2[n + 1].children)
            /\ heap2[n + 1].children[1] = q
        BY <3>1, <1>3
      <4> QED BY <4>1
    <3>2. CASE q # root
      <4>1. PICK x \in 1 .. n :
              \E i \in 1 .. Len(heap[x].children) : heap[x].children[i] = q
        BY <3>2 DEF Shape, Linked
      <4>2. heap2[x] = heap[x] /\ x \in 1 .. n + 1  OBVIOUS
      <4> QED BY <4>1, <4>2
    <3> QED BY <3>1, <3>2
  <2> QED BY <2>1, <1>5 DEF Linked
<1>10. Apart(heap2, lv2, lo2, hi2)
  <2>1. \A q \in 1 .. n : lv2[q] # lv2[n + 1]
    <3> SUFFICES ASSUME NEW q \in 1 .. n PROVE lv2[q] # lv2[n + 1]  OBVIOUS
    <3>1. lv2[q] = lv[q] /\ lv[q] <= height /\ lv[q] \in Int /\ height \in Int  BY <1>1, <1>2
    <3> QED BY <3>1, <1>2
  <2>2. \A x, y \in 1 .. n :
          x # y /\ lv2[x] = lv2[y] => hi2[x] <= lo2[y] \/ hi2[y] <= lo2[x]
    BY <1>2 DEF Shape, Apart
  <2> QED BY <2>1, <2>2, <1>5 DEF Apart
<1>11. Outside(heap2, lv2, lo2, hi2)
  <2>1. ASSUME NEW x \in 1 .. n + 1, NEW y \in 1 .. n + 1, lv2[x] < lv2[y],
               NEW i \in 1 .. Len(heap2[y].items)
        PROVE  heap2[y].items[i].key <= lo2[x] \/ hi2[x] <= heap2[y].items[i].key
    <3>1. y # n + 1
      <4>1. Len(heap2[n + 1].items) = 0  BY <1>3
      <4> QED BY <4>1
    <3>2. y \in 1 .. n  BY <3>1, <1>5
    <3>3. x # n + 1
      <4> SUFFICES ASSUME x = n + 1 PROVE FALSE  OBVIOUS
      <4>1. lv2[x] = height + 1 /\ lv2[y] \in 1 .. height  BY <3>2, <1>1, <1>2
      <4>2. height \in Int  BY <1>1
      <4> QED BY <4>1, <4>2, <2>1
    <3>4. x \in 1 .. n  BY <3>3, <1>5
    <3>5. /\ heap2[y] = heap[y] /\ lv[x] < lv[y] /\ lo2[x] = lo[x] /\ hi2[x] = hi[x]
      BY <2>1, <3>2, <3>4, <1>2
    <3> QED BY <3>2, <3>4, <3>5 DEF Shape, Outside
  <2> QED BY <2>1 DEF Outside
<1> QED BY <1>6, <1>7, <1>8, <1>9, <1>10, <1>11 DEF Shape


-----------------------------------------------------------------------------
(* The split of a full child.                                               *)

Mid == MaxItems \div 2 + 1

LEMMA MidFacts ==
  /\ Mid \in 2 .. MaxItems - 1 /\ Mid \in Nat /\ MaxItems \in Nat
  /\ MinItems = Mid - 1 /\ MinItems = MaxItems - Mid /\ MinItems >= 1
BY BTreeAssumption DEF Mid, MinItems

\* heap2 is heap after child i of node p, which is c, was split.
Split(heap, p, i, c, heap2) ==
  /\ p \in 1 .. Len(heap) /\ i \in 1 .. Len(heap[p].children) /\ c = heap[p].children[i]
  /\ Len(heap[c].items) = MaxItems
  /\ heap2 \in Seq(NodeSet) /\ Len(heap2) = Len(heap) + 1
  /\ \A q \in 1 .. Len(heap) : q # p /\ q # c => heap2[q] = heap[q]
  /\ heap2[p].items = InsertAt(heap[p].items, i, heap[c].items[Mid])
  /\ heap2[p].children = InsertAt(heap[p].children, i + 1, Len(heap) + 1)
  /\ heap2[c].items = SubSeq(heap[c].items, 1, Mid - 1)
  /\ heap2[c].children = Part(heap[c].children, 1, Mid)
  /\ heap2[Len(heap) + 1].items = SubSeq(heap[c].items, Mid + 1, MaxItems)
  /\ heap2[Len(heap) + 1].children
       = Part(heap[c].children, Mid + 1, Len(heap[c].children))

\* The levels and keys of the nodes after it.
Moved(n, c, key, lv, lo, hi, lv2, lo2, hi2) ==
  /\ lv2 = Extended(lv, n, lv[c])
  /\ lo2 = Extended(lo, n, key)
  /\ hi2 = Extended([hi EXCEPT ![c] = key], n, hi[c])

LEMMA MovedAt ==
  ASSUME NEW n \in Nat, NEW c \in 1 .. n, NEW key, NEW lv, NEW lo, NEW hi,
         NEW lv2, NEW lo2, NEW hi2, Moved(n, c, key, lv, lo, hi, lv2, lo2, hi2),
         DOMAIN hi = 1 .. n
  PROVE  /\ lv2[n + 1] = lv[c] /\ lo2[n + 1] = key /\ hi2[n + 1] = hi[c]
         /\ \A q \in 1 .. n : lv2[q] = lv[q] /\ lo2[q] = lo[q]
         /\ hi2[c] = key
         /\ \A q \in 1 .. n : q # c => hi2[q] = hi[q]
<1> DEFINE h == [hi EXCEPT ![c] = key]
<1>1. /\ lv2[n + 1] = lv[c] /\ lo2[n + 1] = key /\ hi2[n + 1] = hi[c]
      /\ \A q \in 1 .. n : lv2[q] = lv[q] /\ lo2[q] = lo[q] /\ hi2[q] = h[q]
  <2>1. /\ lv2[n + 1] = lv[c] /\ \A q \in 1 .. n : lv2[q] = lv[q]
    BY ExtendedAt DEF Moved
  <2>2. /\ lo2[n + 1] = key /\ \A q \in 1 .. n : lo2[q] = lo[q]
    BY ExtendedAt DEF Moved
  <2>3. hi2 = Extended(h, n, hi[c])  BY DEF Moved
  <2> HIDE DEF h
  <2>4. /\ hi2[n + 1] = hi[c] /\ \A q \in 1 .. n : hi2[q] = h[q]
    BY <2>3, ExtendedAt
  <2> QED BY <2>1, <2>2, <2>4
<1>2. h[c] = key /\ \A q \in 1 .. n : q # c => h[q] = hi[q]  OBVIOUS
<1> HIDE DEF h
<1> QED BY <1>1, <1>2

LEMMA SplitPlace ==
  ASSUME NEW heap, NEW root, NEW height, NEW lv, NEW lo, NEW hi,
         Shape(heap, root, height, lv, lo, hi),
         NEW p, NEW i, NEW c, NEW heap2, Split(heap, p, i, c, heap2),
         NEW key, key = heap[c].items[Mid].key
  PROVE  /\ p \in 1 .. Len(heap) /\ i \in 1 .. Len(heap[p].children)
         /\ c \in 1 .. Len(heap) /\ c # p /\ lv[c] = lv[p] - 1
         /\ key \in 0 .. MaxKey /\ heap[c].items[Mid] \in Entry
         /\ lo[c] < key /\ key < hi[c]
         /\ lo[p] <= lo[c] /\ hi[c] <= hi[p]
         /\ lo[c] = Low(heap, lo, p, i) /\ hi[c] = High(heap, hi, p, i)
         /\ Len(heap[p].children) = Len(heap[p].items) + 1
<1>1. p \in 1 .. Len(heap) /\ i \in 1 .. Len(heap[p].children) /\ c = heap[p].children[i]
  BY DEF Split
<1>2. /\ c \in 1 .. Len(heap) /\ lv[c] = lv[p] - 1
      /\ lo[p] <= lo[c] /\ hi[c] <= hi[p] /\ lo[c] < hi[c]
      /\ \A k \in i + 1 .. Len(heap[p].children) : hi[c] <= Low(heap, lo, p, k)
      /\ lo[c] = Low(heap, lo, p, i) /\ hi[c] = High(heap, hi, p, i)
  BY ONLY <1>1, Shape(heap, root, height, lv, lo, hi), ChildFacts
<1>3. Len(heap[p].children) = Len(heap[p].items) + 1
  <2>1. Branch(heap, lv, lo, hi, p)  BY <1>1 DEF Shape, Branches
  <2>2. heap[p].children # <<>>
    <3>1. CASE heap[p].children = <<>>
      <4>1. Len(heap[p].children) = 0  BY ONLY <3>1
      <4>2. i \in 1 .. 0  BY ONLY <4>1, <1>1
      <4> QED BY ONLY <4>2
    <3> QED BY <3>1
  <2> QED BY <2>1, <2>2 DEF Branch
<1>4. Mid \in 1 .. Len(heap[c].items)
  <2>1. Len(heap[c].items) = MaxItems  BY DEF Split
  <2>2. Mid \in 1 .. MaxItems  BY ONLY MidFacts
  <2> QED BY ONLY <2>1, <2>2
<1>5. heap[c] \in NodeSet /\ lv[p] \in Int  BY <1>1, <1>2, ShapeTypes
<1>6. heap[c].items[Mid] \in Entry /\ heap[c].items[Mid].key \in 0 .. MaxKey
  BY <1>4, <1>5, KeyTypes
<1>7. lo[c] < key /\ key < hi[c]  BY <1>2, <1>4 DEF Shape, Sorted, Between
<1>8. c # p
  <2> SUFFICES ASSUME c = p PROVE FALSE  OBVIOUS
  <2>1. lv[p] = lv[p] - 1  BY <1>2
  <2> QED BY <2>1, <1>5
<1> QED BY <1>1, <1>2, <1>3, <1>6, <1>7, <1>8


LEMMA KeyIsInt == \A key \in 0 .. MaxKey : key \in Int
BY BTreeAssumption

LEMMA NodeTypes ==
  ASSUME NEW heap, NEW root, NEW height, NEW lv, NEW lo, NEW hi,
         Shape(heap, root, height, lv, lo, hi)
  PROVE  /\ Len(heap) \in Nat
         /\ \A q \in 1 .. Len(heap) :
              /\ heap[q] \in NodeSet /\ lo[q] \in Int /\ hi[q] \in Int /\ lv[q] \in Int
              /\ Len(heap[q].items) \in Nat /\ Len(heap[q].children) \in Nat
              /\ \A j \in 1 .. Len(heap[q].items) : heap[q].items[j].key \in Int
<1>1. \A q \in 1 .. Len(heap) :
        /\ heap[q] \in NodeSet /\ lo[q] \in Int /\ hi[q] \in Int /\ lv[q] \in 1 .. height
        /\ Len(heap[q].items) \in Nat /\ Len(heap[q].children) \in Nat
        /\ \A j \in 1 .. Len(heap[q].items) : heap[q].items[j].key \in 0 .. MaxKey
  BY ShapeTypes
<1>2. Len(heap) \in Nat  BY ShapeTypes
<1> QED BY <1>1, <1>2, KeyIsInt

\* The items of the three nodes.
LEMMA SplitLeft ==
  ASSUME NEW heap, NEW root, NEW height, NEW lv, NEW lo, NEW hi,
         Shape(heap, root, height, lv, lo, hi),
         NEW p, NEW i, NEW c, NEW heap2, Split(heap, p, i, c, heap2),
         NEW key, key = heap[c].items[Mid].key
  PROVE  /\ Ascend(heap2[c]) /\ Between(heap2[c], lo[c], key)
         /\ Len(heap2[c].items) = Mid - 1
         /\ \A j \in 1 .. Mid - 1 : heap2[c].items[j] = heap[c].items[j]
<1>1. /\ c \in 1 .. Len(heap) /\ key \in 0 .. MaxKey /\ lo[c] < key
  BY ONLY Shape(heap, root, height, lv, lo, hi), Split(heap, p, i, c, heap2),
          key = heap[c].items[Mid].key, SplitPlace
<1>2. heap[c] \in NodeSet /\ lo[c] \in Int /\ key \in Int
  <2>1. key \in Int  BY ONLY <1>1, KeyIsInt
  <2>2. /\ Len(heap) \in Nat
        /\ \A q \in 1 .. Len(heap) :
             /\ heap[q] \in NodeSet /\ lo[q] \in Int /\ hi[q] \in Int /\ lv[q] \in Int
             /\ Len(heap[q].items) \in Nat /\ Len(heap[q].children) \in Nat
             /\ \A j \in 1 .. Len(heap[q].items) : heap[q].items[j].key \in Int
    BY ONLY Shape(heap, root, height, lv, lo, hi), NodeTypes
  <2> QED BY ONLY <2>1, <2>2, <1>1
<1>3. Ascend(heap[c]) /\ Between(heap[c], lo[c], hi[c])  BY <1>1 DEF Shape, Sorted
<1>4. /\ Len(heap[c].items) = MaxItems /\ heap2 \in Seq(NodeSet)
      /\ Len(heap2) = Len(heap) + 1
      /\ heap2[c].items = SubSeq(heap[c].items, 1, Mid - 1)
  BY DEF Split
<1>5. heap2[c] \in NodeSet
  <2>1. c \in 1 .. Len(heap2)  BY ONLY <1>1, <1>4, Len(heap) \in Nat
  <2> QED BY ONLY <2>1, <1>4
<1>6. Mid - 1 \in 0 .. Len(heap[c].items) /\ 1 <= (Mid - 1) + 1 /\ Mid \in Nat
  BY ONLY <1>4, MidFacts
<1>7. \A j \in 1 .. Mid - 1 : lo[c] < heap[c].items[j].key /\ heap[c].items[j].key < key
  <2> SUFFICES ASSUME NEW j \in 1 .. Mid - 1
               PROVE  lo[c] < heap[c].items[j].key /\ heap[c].items[j].key < key
    OBVIOUS
  <2>1. /\ j \in 1 .. Len(heap[c].items) /\ Mid \in 1 .. Len(heap[c].items) /\ j < Mid
    BY ONLY <1>4, j \in 1 .. Mid - 1, MidFacts
  <2> QED BY <2>1, <1>3 DEF Ascend, Between
<1>8. 1 \in Nat \ {0}  OBVIOUS
<1>9. Ascend(heap2[c]) /\ Between(heap2[c], lo[c], key)
  BY ONLY <1>2, <1>3, <1>4, <1>5, <1>6, <1>7, <1>8, PartAscends
<1>10. /\ Len(heap2[c].items) = (Mid - 1) - 1 + 1
       /\ \A j \in 1 .. (Mid - 1) - 1 + 1 : heap2[c].items[j] = heap[c].items[1 + j - 1]
  <2>1. heap[c].items \in Seq(Entry)  BY <1>2, KeyTypes
  <2> QED BY ONLY <2>1, <1>4, <1>6, <1>8, SubSeqOf
<1> QED BY <1>6, <1>9, <1>10

LEMMA SplitRight ==
  ASSUME NEW heap, NEW root, NEW height, NEW lv, NEW lo, NEW hi,
         Shape(heap, root, height, lv, lo, hi),
         NEW p, NEW i, NEW c, NEW heap2, Split(heap, p, i, c, heap2),
         NEW key, key = heap[c].items[Mid].key, NEW r, r = Len(heap) + 1
  PROVE  /\ Ascend(heap2[r]) /\ Between(heap2[r], key, hi[c])
         /\ Len(heap2[r].items) = MaxItems - Mid
         /\ \A j \in 1 .. MaxItems - Mid : heap2[r].items[j] = heap[c].items[Mid + j]
<1>1. /\ c \in 1 .. Len(heap) /\ key \in 0 .. MaxKey /\ key < hi[c]
  BY ONLY Shape(heap, root, height, lv, lo, hi), Split(heap, p, i, c, heap2),
          key = heap[c].items[Mid].key, SplitPlace
<1>2. heap[c] \in NodeSet /\ hi[c] \in Int /\ key \in Int /\ Len(heap) \in Nat
  <2>1. key \in Int  BY ONLY <1>1, KeyIsInt
  <2>2. /\ Len(heap) \in Nat
        /\ \A q \in 1 .. Len(heap) :
             /\ heap[q] \in NodeSet /\ lo[q] \in Int /\ hi[q] \in Int /\ lv[q] \in Int
             /\ Len(heap[q].items) \in Nat /\ Len(heap[q].children) \in Nat
             /\ \A j \in 1 .. Len(heap[q].items) : heap[q].items[j].key \in Int
    BY ONLY Shape(heap, root, height, lv, lo, hi), NodeTypes
  <2> QED BY ONLY <2>1, <2>2, <1>1
<1>3. Ascend(heap[c]) /\ Between(heap[c], lo[c], hi[c])  BY <1>1 DEF Shape, Sorted
<1>4. /\ Len(heap[c].items) = MaxItems /\ heap2 \in Seq(NodeSet)
      /\ Len(heap2) = Len(heap) + 1
      /\ heap2[r].items = SubSeq(heap[c].items, Mid + 1, MaxItems)
  BY DEF Split
<1>5. heap2[r] \in NodeSet
  <2>1. r \in 1 .. Len(heap2)  BY ONLY <1>2, <1>4, r = Len(heap) + 1
  <2> QED BY ONLY <2>1, <1>4
<1>6. /\ MaxItems \in 0 .. Len(heap[c].items) /\ Mid + 1 <= MaxItems + 1
      /\ Mid + 1 \in Nat \ {0} /\ Mid \in Nat /\ MaxItems \in Nat
  BY ONLY <1>4, MidFacts
<1>7. \A j \in Mid + 1 .. MaxItems :
        key < heap[c].items[j].key /\ heap[c].items[j].key < hi[c]
  <2> SUFFICES ASSUME NEW j \in Mid + 1 .. MaxItems
               PROVE  key < heap[c].items[j].key /\ heap[c].items[j].key < hi[c]
    OBVIOUS
  <2>1. /\ j \in 1 .. Len(heap[c].items) /\ Mid \in 1 .. Len(heap[c].items) /\ Mid < j
    BY ONLY <1>4, j \in Mid + 1 .. MaxItems, MidFacts
  <2> QED BY <2>1, <1>3 DEF Ascend, Between
<1>9. Ascend(heap2[r]) /\ Between(heap2[r], key, hi[c])
  BY ONLY <1>2, <1>3, <1>4, <1>5, <1>6, <1>7, PartAscends
<1>10. /\ Len(heap2[r].items) = MaxItems - (Mid + 1) + 1
       /\ \A j \in 1 .. MaxItems - (Mid + 1) + 1 :
            heap2[r].items[j] = heap[c].items[(Mid + 1) + j - 1]
  <2>1. heap[c].items \in Seq(Entry)  BY <1>2, KeyTypes
  <2> QED BY ONLY <2>1, <1>4, <1>6, SubSeqOf
<1>11. \A j \in 1 .. MaxItems - Mid : (Mid + 1) + j - 1 = Mid + j  BY <1>6
<1>12. MaxItems - (Mid + 1) + 1 = MaxItems - Mid  BY <1>6
<1>13. \A j \in 1 .. MaxItems - Mid : heap2[r].items[j] = heap[c].items[(Mid + 1) + j - 1]
  BY ONLY <1>10, <1>12
<1>14. Len(heap2[r].items) = MaxItems - Mid  BY ONLY <1>10, <1>12
<1>15. \A j \in 1 .. MaxItems - Mid : heap2[r].items[j] = heap[c].items[Mid + j]
  <2> SUFFICES ASSUME NEW j \in 1 .. MaxItems - Mid
               PROVE  heap2[r].items[j] = heap[c].items[Mid + j]
    OBVIOUS
  <2>1. (Mid + 1) + j - 1 = Mid + j  BY ONLY <1>11, j \in 1 .. MaxItems - Mid
  <2>2. heap2[r].items[j] = heap[c].items[(Mid + 1) + j - 1]
    BY ONLY <1>13, j \in 1 .. MaxItems - Mid
  <2> QED BY ONLY <2>1, <2>2
<1> QED BY ONLY <1>9, <1>14, <1>15

LEMMA SplitParent ==
  ASSUME NEW heap, NEW root, NEW height, NEW lv, NEW lo, NEW hi,
         Shape(heap, root, height, lv, lo, hi),
         NEW p, NEW i, NEW c, NEW heap2, Split(heap, p, i, c, heap2),
         NEW key, key = heap[c].items[Mid].key
  PROVE  /\ Ascend(heap2[p]) /\ Between(heap2[p], lo[p], hi[p])
         /\ Len(heap2[p].items) = Len(heap[p].items) + 1
         /\ \A j \in 1 .. i - 1 : heap2[p].items[j] = heap[p].items[j]
         /\ heap2[p].items[i] = heap[c].items[Mid]
         /\ \A j \in i .. Len(heap[p].items) : heap2[p].items[j + 1] = heap[p].items[j]
<1> DEFINE n == Len(heap[p].items)
           e == heap[c].items[Mid]
<1>1. /\ p \in 1 .. Len(heap) /\ i \in 1 .. Len(heap[p].children)
      /\ c \in 1 .. Len(heap) /\ c # p /\ lv[c] = lv[p] - 1
      /\ key \in 0 .. MaxKey /\ heap[c].items[Mid] \in Entry
      /\ lo[c] < key /\ key < hi[c]
      /\ lo[p] <= lo[c] /\ hi[c] <= hi[p]
      /\ lo[c] = Low(heap, lo, p, i) /\ hi[c] = High(heap, hi, p, i)
      /\ Len(heap[p].children) = Len(heap[p].items) + 1
  BY ONLY Shape(heap, root, height, lv, lo, hi), Split(heap, p, i, c, heap2),
          key = heap[c].items[Mid].key, SplitPlace
<1>2. /\ heap[p] \in NodeSet /\ lo[p] \in Int /\ hi[p] \in Int /\ key \in Int
      /\ lo[c] \in Int /\ hi[c] \in Int /\ n \in Nat /\ Len(heap) \in Nat
      /\ \A j \in 1 .. n : heap[p].items[j].key \in Int
  <2>1. key \in Int  BY ONLY <1>1, KeyIsInt
  <2>2. /\ Len(heap) \in Nat
        /\ \A q \in 1 .. Len(heap) :
             /\ heap[q] \in NodeSet /\ lo[q] \in Int /\ hi[q] \in Int /\ lv[q] \in Int
             /\ Len(heap[q].items) \in Nat /\ Len(heap[q].children) \in Nat
             /\ \A j \in 1 .. Len(heap[q].items) : heap[q].items[j].key \in Int
    BY ONLY Shape(heap, root, height, lv, lo, hi), NodeTypes
  <2> QED BY ONLY <2>1, <2>2, <1>1
<1>3. Ascend(heap[p]) /\ Between(heap[p], lo[p], hi[p])  BY <1>1 DEF Shape, Sorted
<1>4. /\ heap2 \in Seq(NodeSet) /\ Len(heap2) = Len(heap) + 1
      /\ heap2[p].items = InsertAt(heap[p].items, i, e)
  BY DEF Split
<1>5. heap2[p] \in NodeSet
  <2>1. p \in 1 .. Len(heap2)  BY ONLY <1>1, <1>2, <1>4
  <2> QED BY ONLY <2>1, <1>4
<1>6. i \in 1 .. n + 1 /\ e \in Entry /\ key = e.key  BY <1>1
<1>7. \A j, k \in 1 .. n : j < k => heap[p].items[j].key < heap[p].items[k].key
  BY <1>3 DEF Ascend
<1> HIDE DEF n, e
<1>8. \A j \in 1 .. i - 1 : heap[p].items[j].key < e.key
  <2> SUFFICES ASSUME NEW j \in 1 .. i - 1 PROVE heap[p].items[j].key < e.key  OBVIOUS
  <2>1. /\ i # 1 /\ i - 1 \in 1 .. n /\ j \in 1 .. n /\ (j < i - 1 \/ j = i - 1)
    BY ONLY <1>2, <1>6, j \in 1 .. i - 1
  <2>2. heap[p].items[i - 1].key = lo[c]  BY <2>1, <1>1 DEF Low
  <2>3. heap[p].items[j].key <= lo[c]
    <3>1. CASE j = i - 1  BY <3>1, <2>2, <1>2
    <3>2. CASE j < i - 1
      <4>1. heap[p].items[j].key < heap[p].items[i - 1].key  BY ONLY <2>1, <3>2, <1>7
      <4>2. heap[p].items[j].key \in Int  BY ONLY <2>1, <1>2
      <4> QED BY ONLY <4>1, <4>2, <2>2, <1>2
    <3> QED BY <2>1, <3>1, <3>2
  <2>4. heap[p].items[j].key \in Int  BY ONLY <2>1, <1>2
  <2> QED BY ONLY <2>3, <2>4, <1>1, <1>2, <1>6, SMTT(30)
<1>9. \A j \in i .. n : e.key < heap[p].items[j].key
  <2> SUFFICES ASSUME NEW j \in i .. n PROVE e.key < heap[p].items[j].key  OBVIOUS
  <2>1. /\ i # n + 1 /\ i \in 1 .. n /\ j \in 1 .. n /\ (i < j \/ i = j)
    BY ONLY <1>2, <1>6, j \in i .. n
  <2>2. heap[p].items[i].key = hi[c]  BY <2>1, <1>1 DEF High, n
  <2>3. hi[c] <= heap[p].items[j].key
    <3>1. CASE i = j  BY <3>1, <2>2, <1>2
    <3>2. CASE i < j
      <4>1. heap[p].items[i].key < heap[p].items[j].key  BY ONLY <2>1, <3>2, <1>7
      <4>2. heap[p].items[j].key \in Int  BY ONLY <2>1, <1>2
      <4> QED BY ONLY <4>1, <4>2, <2>2, <1>2
    <3> QED BY <2>1, <3>1, <3>2
  <2>4. heap[p].items[j].key \in Int  BY ONLY <2>1, <1>2
  <2> QED BY ONLY <2>3, <2>4, <1>1, <1>2, <1>6, SMTT(30)
<1>10. lo[p] < e.key /\ e.key < hi[p]  BY ONLY <1>1, <1>2, <1>6, SMTT(30)
<1>11. Ascend(heap2[p]) /\ Between(heap2[p], lo[p], hi[p])
  BY ONLY <1>2, <1>3, <1>4, <1>5, <1>6, <1>8, <1>9, <1>10, InsertAscends DEF n
<1>12. /\ Len(InsertAt(heap[p].items, i, e)) = Len(heap[p].items) + 1
       /\ \A j \in 1 .. i - 1 : InsertAt(heap[p].items, i, e)[j] = heap[p].items[j]
       /\ InsertAt(heap[p].items, i, e)[i] = e
       /\ \A j \in i .. Len(heap[p].items) :
            InsertAt(heap[p].items, i, e)[j + 1] = heap[p].items[j]
  <2>1. heap[p].items \in Seq(Entry)  BY <1>2, KeyTypes
  <2>2. i \in 1 .. Len(heap[p].items) + 1  BY <1>6 DEF n
  <2> QED BY ONLY <2>1, <2>2, <1>6, Inserted
<1> QED BY ONLY <1>4, <1>11, <1>12 DEF e


LEMMA ChildInserted ==
  ASSUME NEW s \in Seq(Nat), NEW i \in Nat, i + 1 \in 1 .. Len(s) + 1, NEW r \in Nat,
         NEW s2, s2 = InsertAt(s, i + 1, r)
  PROVE  /\ Len(s2) = Len(s) + 1
         /\ \A j \in 1 .. i : s2[j] = s[j]
         /\ s2[i + 1] = r
         /\ \A j \in i + 1 .. Len(s) : s2[j + 1] = s[j]
<1> DEFINE k == i + 1
           N == Nat
<1>1. /\ k - 1 = i /\ k = i + 1 /\ k \in 1 .. Len(s) + 1 /\ s2 = InsertAt(s, k, r)
      /\ s \in Seq(N) /\ r \in N
  OBVIOUS
<1> HIDE DEF k, N
<1>2. s \in Seq(N) /\ r \in N /\ k \in 1 .. Len(s) + 1  BY ONLY <1>1
<1>3. /\ InsertAt(s, k, r) \in Seq(N)
      /\ Len(InsertAt(s, k, r)) = Len(s) + 1
      /\ \A j \in 1 .. k - 1 : InsertAt(s, k, r)[j] = s[j]
      /\ InsertAt(s, k, r)[k] = r
      /\ \A j \in k .. Len(s) : InsertAt(s, k, r)[j + 1] = s[j]
  BY ONLY <1>2, Inserted
<1> QED BY ONLY <1>1, <1>3

\* The children of the three nodes.
LEMMA SplitKids ==
  ASSUME NEW heap, NEW root, NEW height, NEW lv, NEW lo, NEW hi,
         Shape(heap, root, height, lv, lo, hi),
         NEW p, NEW i, NEW c, NEW heap2, Split(heap, p, i, c, heap2),
         NEW r, r = Len(heap) + 1
  PROVE  /\ heap[c].children = <<>> => heap2[c].children = <<>> /\ heap2[r].children = <<>>
         /\ heap[c].children # <<>> =>
              /\ Len(heap[c].children) = MaxItems + 1
              /\ Len(heap2[c].children) = Mid
              /\ \A j \in 1 .. Mid : heap2[c].children[j] = heap[c].children[j]
              /\ Len(heap2[r].children) = MaxItems + 1 - Mid
              /\ \A j \in 1 .. MaxItems + 1 - Mid :
                   heap2[r].children[j] = heap[c].children[Mid + j]
         /\ Len(heap2[p].children) = Len(heap[p].children) + 1
         /\ \A j \in 1 .. i : heap2[p].children[j] = heap[p].children[j]
         /\ heap2[p].children[i + 1] = r
         /\ \A j \in i + 1 .. Len(heap[p].children) :
              heap2[p].children[j + 1] = heap[p].children[j]
<1> DEFINE kids == heap[c].children
<1>1. /\ p \in 1 .. Len(heap) /\ i \in 1 .. Len(heap[p].children)
      /\ Len(heap[c].items) = MaxItems
      /\ heap2[p].children = InsertAt(heap[p].children, i + 1, r)
      /\ heap2[c].children = Part(kids, 1, Mid)
      /\ heap2[r].children = Part(kids, Mid + 1, Len(kids))
      /\ c = heap[p].children[i]
  BY DEF Split
<1>2. c \in 1 .. Len(heap)  BY <1>1 DEF Shape, Branches, Branch
<1>3. /\ Len(heap) \in Nat
      /\ \A q \in 1 .. Len(heap) : heap[q] \in NodeSet
  BY ONLY Shape(heap, root, height, lv, lo, hi), NodeTypes
<1>4. kids \in Seq(Nat) /\ heap[p].children \in Seq(Nat) /\ Len(kids) \in Nat
      /\ Len(heap[p].children) \in Nat
  BY ONLY <1>1, <1>2, <1>3, KeyTypes
<1>5. kids # <<>> => Len(kids) = MaxItems + 1
  BY <1>1, <1>2 DEF Shape, Branches, Branch
<1> HIDE DEF kids
<1>6. ASSUME kids = <<>> PROVE heap2[c].children = <<>> /\ heap2[r].children = <<>>
  BY ONLY <1>1, <1>6 DEF Part
<1>7. ASSUME kids # <<>>
      PROVE  /\ Len(heap2[c].children) = Mid
             /\ \A j \in 1 .. Mid : heap2[c].children[j] = kids[j]
             /\ Len(heap2[r].children) = MaxItems + 1 - Mid
             /\ \A j \in 1 .. MaxItems + 1 - Mid : heap2[r].children[j] = kids[Mid + j]
  <2>1. /\ heap2[c].children = SubSeq(kids, 1, Mid)
        /\ heap2[r].children = SubSeq(kids, Mid + 1, Len(kids))
    BY ONLY <1>1, <1>7 DEF Part
  <2>2. /\ Len(kids) = MaxItems + 1 /\ Mid \in 0 .. Len(kids) /\ 1 <= Mid + 1
        /\ 1 \in Nat \ {0} /\ Mid + 1 \in Nat \ {0} /\ Len(kids) \in 0 .. Len(kids)
        /\ Mid + 1 <= Len(kids) + 1 /\ Mid \in Nat /\ MaxItems \in Nat
    BY ONLY <1>5, <1>7, MidFacts
  <2>3. /\ Len(SubSeq(kids, 1, Mid)) = Mid - 1 + 1
        /\ \A j \in 1 .. Mid - 1 + 1 : SubSeq(kids, 1, Mid)[j] = kids[1 + j - 1]
    BY ONLY <1>4, <2>2, SubSeqOf
  <2>4. /\ Len(SubSeq(kids, Mid + 1, Len(kids))) = Len(kids) - (Mid + 1) + 1
        /\ \A j \in 1 .. Len(kids) - (Mid + 1) + 1 :
             SubSeq(kids, Mid + 1, Len(kids))[j] = kids[(Mid + 1) + j - 1]
    BY ONLY <1>4, <2>2, SubSeqOf
  <2>5. Mid - 1 + 1 = Mid /\ Len(kids) - (Mid + 1) + 1 = MaxItems + 1 - Mid
    BY ONLY <2>2
  <2>6. ASSUME NEW j \in 1 .. Mid PROVE heap2[c].children[j] = kids[j]
    <3>1. 1 + j - 1 = j  OBVIOUS
    <3>2. SubSeq(kids, 1, Mid)[j] = kids[1 + j - 1]  BY ONLY <2>3, <2>5, j \in 1 .. Mid
    <3> QED BY ONLY <3>1, <3>2, <2>1
  <2>7. ASSUME NEW j \in 1 .. MaxItems + 1 - Mid
        PROVE  heap2[r].children[j] = kids[Mid + j]
    <3>1. (Mid + 1) + j - 1 = Mid + j  BY <2>2
    <3>2. SubSeq(kids, Mid + 1, Len(kids))[j] = kids[(Mid + 1) + j - 1]
      BY ONLY <2>4, <2>5, j \in 1 .. MaxItems + 1 - Mid
    <3> QED BY ONLY <3>1, <3>2, <2>1
  <2>8. Len(heap2[c].children) = Mid /\ Len(heap2[r].children) = MaxItems + 1 - Mid
    BY ONLY <2>1, <2>3, <2>4, <2>5
  <2> QED BY ONLY <2>6, <2>7, <2>8
<1>8. /\ Len(heap2[p].children) = Len(heap[p].children) + 1
      /\ \A j \in 1 .. i : heap2[p].children[j] = heap[p].children[j]
      /\ heap2[p].children[i + 1] = r
      /\ \A j \in i + 1 .. Len(heap[p].children) :
           heap2[p].children[j + 1] = heap[p].children[j]
  <2>1. r \in Nat  BY ONLY <1>3, r = Len(heap) + 1
  <2>2. i \in 1 .. Len(heap[p].children) /\ heap[p].children \in Seq(Nat)
        /\ Len(heap[p].children) \in Nat
    BY ONLY <1>1, <1>4
  <2>3. i + 1 \in 1 .. Len(heap[p].children) + 1 /\ i \in Nat
    BY ONLY <2>2
  <2>4. heap2[p].children = InsertAt(heap[p].children, i + 1, r)  BY ONLY <1>1
  <2>5. \A s \in Seq(Nat) : \A s2 :
          i + 1 \in 1 .. Len(s) + 1 /\ s2 = InsertAt(s, i + 1, r)
            => /\ Len(s2) = Len(s) + 1
               /\ \A j \in 1 .. i : s2[j] = s[j]
               /\ s2[i + 1] = r
               /\ \A j \in i + 1 .. Len(s) : s2[j + 1] = s[j]
    <3> SUFFICES ASSUME NEW s, s \in Seq(Nat), NEW s2, i + 1 \in 1 .. Len(s) + 1,
                        s2 = InsertAt(s, i + 1, r)
                 PROVE  /\ Len(s2) = Len(s) + 1
                        /\ \A j \in 1 .. i : s2[j] = s[j]
                        /\ s2[i + 1] = r
                        /\ \A j \in i + 1 .. Len(s) : s2[j + 1] = s[j]
      OBVIOUS
    <3> QED BY ONLY s \in Seq(Nat), i + 1 \in 1 .. Len(s) + 1, s2 = InsertAt(s, i + 1, r),
                    <2>1, <2>3, ChildInserted
  <2> QED BY ONLY <2>2, <2>3, <2>4, <2>5
<1> QED BY ONLY <1>5, <1>6, <1>7, <1>8 DEF kids


\* All of it.
SplitTo(heap, root, height, lv, lo, hi, p, i, c, key, heap2, n, lv2, lo2, hi2) ==
  /\ Shape(heap, root, height, lv, lo, hi)
  /\ Split(heap, p, i, c, heap2)
  /\ key = heap[c].items[Mid].key
  /\ n = Len(heap)
  /\ Moved(n, c, key, lv, lo, hi, lv2, lo2, hi2)

LEMMA SplitLevels ==
  ASSUME NEW heap, NEW root, NEW height, NEW lv, NEW lo, NEW hi,
         NEW p, NEW i, NEW c, NEW key, NEW heap2, NEW n, NEW lv2, NEW lo2, NEW hi2,
         SplitTo(heap, root, height, lv, lo, hi, p, i, c, key, heap2, n, lv2, lo2, hi2)
  PROVE  /\ n \in Nat /\ p \in 1 .. n /\ c \in 1 .. n /\ c # p
         /\ key \in Int /\ lo[c] < key /\ key < hi[c]
         /\ lv2[n + 1] = lv[c] /\ lo2[n + 1] = key /\ hi2[n + 1] = hi[c]
         /\ \A q \in 1 .. n : lv2[q] = lv[q] /\ lo2[q] = lo[q]
         /\ hi2[c] = key
         /\ \A q \in 1 .. n : q # c => hi2[q] = hi[q]
         /\ \A q \in 1 .. n : q # p /\ q # c => heap2[q] = heap[q]
         /\ Len(heap2) = n + 1 /\ heap2 \in Seq(NodeSet)
<1>1. /\ Shape(heap, root, height, lv, lo, hi) /\ Split(heap, p, i, c, heap2)
      /\ key = heap[c].items[Mid].key /\ n = Len(heap)
      /\ Moved(n, c, key, lv, lo, hi, lv2, lo2, hi2)
  BY DEF SplitTo
<1>2. /\ p \in 1 .. Len(heap) /\ c \in 1 .. Len(heap) /\ c # p
      /\ key \in 0 .. MaxKey /\ lo[c] < key /\ key < hi[c]
  BY ONLY <1>1, SplitPlace
<1>3. key \in Int  BY ONLY <1>2, KeyIsInt
<1>4. n \in Nat  BY ONLY <1>1, NodeTypes
<1>5. DOMAIN hi = 1 .. n  BY <1>1 DEF Shape, Typed
<1>6. c \in 1 .. n  BY ONLY <1>1, <1>2
<1>7. /\ lv2[n + 1] = lv[c] /\ lo2[n + 1] = key /\ hi2[n + 1] = hi[c]
      /\ \A q \in 1 .. n : lv2[q] = lv[q] /\ lo2[q] = lo[q]
      /\ hi2[c] = key
      /\ \A q \in 1 .. n : q # c => hi2[q] = hi[q]
  BY ONLY <1>1, <1>4, <1>5, <1>6, MovedAt
<1>8. /\ \A q \in 1 .. n : q # p /\ q # c => heap2[q] = heap[q]
      /\ Len(heap2) = n + 1 /\ heap2 \in Seq(NodeSet)
  <2>0. Split(heap, p, i, c, heap2)  BY ONLY <1>1
  <2>1. /\ \A q \in 1 .. Len(heap) : q # p /\ q # c => heap2[q] = heap[q]
        /\ Len(heap2) = Len(heap) + 1 /\ heap2 \in Seq(NodeSet)
    BY ONLY <2>0 DEF Split
  <2>2. n = Len(heap)  BY ONLY <1>1
  <2> QED BY ONLY <2>1, <2>2
<1> QED BY ONLY <1>1, <1>2, <1>3, <1>4, <1>7, <1>8

LEMMA SplitTyped ==
  ASSUME NEW heap, NEW root, NEW height, NEW lv, NEW lo, NEW hi,
         NEW p, NEW i, NEW c, NEW key, NEW heap2, NEW n, NEW lv2, NEW lo2, NEW hi2,
         SplitTo(heap, root, height, lv, lo, hi, p, i, c, key, heap2, n, lv2, lo2, hi2)
  PROVE  Typed(heap2, root, height, lv2, lo2, hi2)
<1>1. /\ n \in Nat /\ p \in 1 .. n /\ c \in 1 .. n /\ c # p
      /\ key \in Int /\ lo[c] < key /\ key < hi[c]
      /\ lv2[n + 1] = lv[c] /\ lo2[n + 1] = key /\ hi2[n + 1] = hi[c]
      /\ \A q \in 1 .. n : lv2[q] = lv[q] /\ lo2[q] = lo[q]
      /\ hi2[c] = key
      /\ \A q \in 1 .. n : q # c => hi2[q] = hi[q]
      /\ \A q \in 1 .. n : q # p /\ q # c => heap2[q] = heap[q]
      /\ Len(heap2) = n + 1 /\ heap2 \in Seq(NodeSet)
  BY SplitLevels, SMTT(30)
<1>2. /\ n = Len(heap) /\ Shape(heap, root, height, lv, lo, hi)
      /\ Moved(n, c, key, lv, lo, hi, lv2, lo2, hi2)
      /\ p \in 1 .. Len(heap) /\ i \in 1 .. Len(heap[p].children)
      /\ c = heap[p].children[i]
  <2>1. /\ n = Len(heap) /\ Shape(heap, root, height, lv, lo, hi)
        /\ Moved(n, c, key, lv, lo, hi, lv2, lo2, hi2) /\ Split(heap, p, i, c, heap2)
    BY DEF SplitTo
  <2>2. /\ p \in 1 .. Len(heap) /\ i \in 1 .. Len(heap[p].children)
        /\ c = heap[p].children[i]
    BY ONLY <2>1 DEF Split
  <2> QED BY ONLY <2>1, <2>2
<1>3. /\ height \in Nat /\ height <= n /\ root \in 1 .. n
      /\ lv \in [1 .. n -> 1 .. height] /\ lo \in [1 .. n -> Int] /\ hi \in [1 .. n -> Int]
      /\ lv[root] = height /\ lo[root] = -1 /\ hi[root] = MaxKey + 1
  BY <1>2 DEF Shape, Typed
<1>4. c # root
  <2> SUFFICES ASSUME c = root PROVE FALSE  OBVIOUS
  <2>1. lv[c] = lv[p] - 1  BY ONLY <1>2, ChildFacts
  <2>2. lv[p] \in 1 .. height  BY <1>1, <1>3
  <2> QED BY <1>3, <2>1, <2>2
<1>5. \A q \in 1 .. n + 1 : q \in 1 .. n \/ q = n + 1  BY <1>1
<1>6. /\ DOMAIN lv2 = 1 .. n + 1 /\ DOMAIN lo2 = 1 .. n + 1 /\ DOMAIN hi2 = 1 .. n + 1
      /\ lv2 = [q \in 1 .. n + 1 |-> lv2[q]] /\ lo2 = [q \in 1 .. n + 1 |-> lo2[q]]
      /\ hi2 = [q \in 1 .. n + 1 |-> hi2[q]]
  BY <1>2 DEF Moved, Extended
<1>7. \A q \in 1 .. n + 1 : lv2[q] \in 1 .. height /\ lo2[q] \in Int /\ hi2[q] \in Int
  <2>1. ASSUME NEW q \in 1 .. n
        PROVE  lv2[q] \in 1 .. height /\ lo2[q] \in Int /\ hi2[q] \in Int
    <3>1. lv2[q] = lv[q] /\ lo2[q] = lo[q] /\ (hi2[q] = hi[q] \/ hi2[q] = key)
      BY ONLY <1>1, q \in 1 .. n
    <3> QED BY <3>1, <1>1, <1>3
  <2>2. lv2[n + 1] \in 1 .. height /\ lo2[n + 1] \in Int /\ hi2[n + 1] \in Int
    BY <1>1, <1>3
  <2> QED BY ONLY <1>5, <2>1, <2>2
<1>8. /\ lv2 \in [1 .. n + 1 -> 1 .. height] /\ lo2 \in [1 .. n + 1 -> Int]
      /\ hi2 \in [1 .. n + 1 -> Int]
  BY ONLY <1>6, <1>7
<1>9. lv2[root] = height /\ lo2[root] = -1 /\ hi2[root] = MaxKey + 1
  BY ONLY <1>1, <1>3, <1>4
<1>10. root \in 1 .. n + 1 /\ height <= n + 1
  <2>1. n \in Nat /\ root \in 1 .. n /\ height \in Nat /\ height <= n
    BY ONLY <1>1, <1>3
  <2> QED BY ONLY <2>1
<1> QED BY ONLY <1>1, <1>3, <1>8, <1>9, <1>10 DEF Typed

LEMMA SplitSorted ==
  ASSUME NEW heap, NEW root, NEW height, NEW lv, NEW lo, NEW hi,
         NEW p, NEW i, NEW c, NEW key, NEW heap2, NEW n, NEW lv2, NEW lo2, NEW hi2,
         SplitTo(heap, root, height, lv, lo, hi, p, i, c, key, heap2, n, lv2, lo2, hi2)
  PROVE  Sorted(heap2, lo2, hi2)
<1>1. /\ n \in Nat /\ p \in 1 .. n /\ c \in 1 .. n /\ c # p
      /\ key \in Int /\ lo[c] < key /\ key < hi[c]
      /\ lv2[n + 1] = lv[c] /\ lo2[n + 1] = key /\ hi2[n + 1] = hi[c]
      /\ \A q \in 1 .. n : lv2[q] = lv[q] /\ lo2[q] = lo[q]
      /\ hi2[c] = key
      /\ \A q \in 1 .. n : q # c => hi2[q] = hi[q]
      /\ \A q \in 1 .. n : q # p /\ q # c => heap2[q] = heap[q]
      /\ Len(heap2) = n + 1 /\ heap2 \in Seq(NodeSet)
  BY SplitLevels, SMTT(30)
<1>2. /\ n = Len(heap) /\ Shape(heap, root, height, lv, lo, hi)
      /\ Split(heap, p, i, c, heap2) /\ key = heap[c].items[Mid].key
  BY DEF SplitTo
<1>3. Ascend(heap2[c]) /\ Between(heap2[c], lo[c], key)
  BY ONLY <1>2, SplitLeft
<1>4. Ascend(heap2[n + 1]) /\ Between(heap2[n + 1], key, hi[c])
  BY ONLY <1>2, SplitRight
<1>5. Ascend(heap2[p]) /\ Between(heap2[p], lo[p], hi[p])
  BY ONLY <1>2, SplitParent
<1>6. \A q \in 1 .. n : lo[q] < hi[q] /\ Ascend(heap[q]) /\ Between(heap[q], lo[q], hi[q])
  BY <1>2 DEF Shape, Sorted
<1>7. \A q \in 1 .. n + 1 : q \in 1 .. n \/ q = n + 1  BY <1>1
<1>8. ASSUME NEW q \in 1 .. n
      PROVE  lo2[q] < hi2[q] /\ Ascend(heap2[q]) /\ Between(heap2[q], lo2[q], hi2[q])
  <2>1. CASE q = c
    <3>1. lo2[c] = lo[c] /\ hi2[c] = key  BY ONLY <1>1
    <3> QED BY ONLY <2>1, <3>1, <1>1, <1>3
  <2>2. CASE q = p
    <3>1. lo2[p] = lo[p] /\ hi2[p] = hi[p] /\ lo[p] < hi[p]  BY ONLY <1>1, <1>6
    <3> QED BY ONLY <2>2, <3>1, <1>5
  <2>3. CASE q # p /\ q # c
    <3>1. lo2[q] = lo[q] /\ hi2[q] = hi[q] /\ heap2[q] = heap[q]
      BY ONLY <1>1, <2>3, q \in 1 .. n
    <3> QED BY ONLY <3>1, <1>6, q \in 1 .. n
  <2> QED BY <2>1, <2>2, <2>3
<1>9. lo2[n + 1] < hi2[n + 1] /\ Ascend(heap2[n + 1])
      /\ Between(heap2[n + 1], lo2[n + 1], hi2[n + 1])
  BY ONLY <1>1, <1>4
<1> QED BY ONLY <1>1, <1>7, <1>8, <1>9 DEF Sorted


\* Each node's children after a split: those that were not in it,
LEMMA SplitBranchOther ==
  ASSUME NEW heap, NEW root, NEW height, NEW lv, NEW lo, NEW hi,
         NEW p, NEW i, NEW c, NEW key, NEW heap2, NEW n, NEW lv2, NEW lo2, NEW hi2,
         SplitTo(heap, root, height, lv, lo, hi, p, i, c, key, heap2, n, lv2, lo2, hi2)
  PROVE  \A q \in 1 .. n : q # p /\ q # c => Branch(heap2, lv2, lo2, hi2, q)
<1>1. /\ n \in Nat /\ p \in 1 .. n /\ c \in 1 .. n /\ c # p
      /\ key \in Int /\ lo[c] < key /\ key < hi[c]
      /\ lv2[n + 1] = lv[c] /\ lo2[n + 1] = key /\ hi2[n + 1] = hi[c]
      /\ \A q \in 1 .. n : lv2[q] = lv[q] /\ lo2[q] = lo[q]
      /\ hi2[c] = key
      /\ \A q \in 1 .. n : q # c => hi2[q] = hi[q]
      /\ \A q \in 1 .. n : q # p /\ q # c => heap2[q] = heap[q]
      /\ Len(heap2) = n + 1 /\ heap2 \in Seq(NodeSet)
  BY SplitLevels, SMTT(30)
<1>2. n = Len(heap) /\ Shape(heap, root, height, lv, lo, hi) /\ Split(heap, p, i, c, heap2)
  BY DEF SplitTo
<1>3. p \in 1 .. Len(heap) /\ i \in 1 .. Len(heap[p].children) /\ c = heap[p].children[i]
  BY <1>2 DEF Split
<1> SUFFICES ASSUME NEW q, q \in 1 .. n, q # p, q # c
             PROVE  Branch(heap2, lv2, lo2, hi2, q)
  OBVIOUS
<1>4. Branch(heap, lv, lo, hi, q)  BY <1>2 DEF Shape, Branches
<1>5. heap2[q] = heap[q] /\ lv2[q] = lv[q] /\ lo2[q] = lo[q] /\ hi2[q] = hi[q]
  BY ONLY <1>1, q \in 1 .. n, q # p, q # c
<1>6. \A j : /\ Low(heap2, lo2, q, j) = Low(heap, lo, q, j)
             /\ High(heap2, hi2, q, j) = High(heap, hi, q, j)
  BY ONLY <1>5 DEF Low, High
<1>7. ASSUME NEW j, j \in 1 .. Len(heap[q].children)
      PROVE  /\ heap[q].children[j] \in 1 .. Len(heap2)
             /\ lv2[heap[q].children[j]] = lv[q] - 1
             /\ lo2[heap[q].children[j]] = Low(heap, lo, q, j)
             /\ hi2[heap[q].children[j]] = High(heap, hi, q, j)
  <2> DEFINE x == heap[q].children[j]
  <2>1. /\ x \in 1 .. n /\ lv[x] = lv[q] - 1
        /\ lo[x] = Low(heap, lo, q, j) /\ hi[x] = High(heap, hi, q, j)
    BY <1>2, <1>4, <1>7 DEF Branch
  <2>2. x # c
    <3> SUFFICES ASSUME x = c PROVE FALSE  OBVIOUS
    <3>1. \A k \in 1 .. Len(heap) : \A l \in 1 .. Len(heap[k].children) :
            heap[k].children[l] = c => k = p /\ l = i
      <4>1. Shape(heap, root, height, lv, lo, hi)  BY ONLY <1>2
      <4>2. p \in 1 .. Len(heap) /\ i \in 1 .. Len(heap[p].children)  BY ONLY <1>3
      <4>3. c = heap[p].children[i]  BY ONLY <1>3
      <4>4. \A k \in 1 .. Len(heap) : \A l \in 1 .. Len(heap[k].children) :
              heap[k].children[l] = heap[p].children[i] => k = p /\ l = i
        BY ONLY <4>1, <4>2, OnePlace, SMTT(30)
      <4> QED BY ONLY <4>3, <4>4
    <3>2. q \in 1 .. Len(heap)  BY <1>2
    <3> QED BY <3>1, <3>2, <1>7
  <2> HIDE DEF x
  <2>3. /\ x \in 1 .. Len(heap2) /\ lv2[x] = lv[q] - 1
        /\ lo2[x] = Low(heap, lo, q, j) /\ hi2[x] = High(heap, hi, q, j)
    BY ONLY <1>1, <2>1, <2>2
  <2> QED BY <2>3 DEF x
<1> QED BY ONLY <1>4, <1>5, <1>6, <1>7 DEF Branch

\* the left half,
LEMMA SplitBranchLeft ==
  ASSUME NEW heap, NEW root, NEW height, NEW lv, NEW lo, NEW hi,
         NEW p, NEW i, NEW c, NEW key, NEW heap2, NEW n, NEW lv2, NEW lo2, NEW hi2,
         SplitTo(heap, root, height, lv, lo, hi, p, i, c, key, heap2, n, lv2, lo2, hi2)
  PROVE  Branch(heap2, lv2, lo2, hi2, c)
<1>1. /\ n \in Nat /\ p \in 1 .. n /\ c \in 1 .. n /\ c # p
      /\ key \in Int /\ lo[c] < key /\ key < hi[c]
      /\ lv2[n + 1] = lv[c] /\ lo2[n + 1] = key /\ hi2[n + 1] = hi[c]
      /\ \A q \in 1 .. n : lv2[q] = lv[q] /\ lo2[q] = lo[q]
      /\ hi2[c] = key
      /\ \A q \in 1 .. n : q # c => hi2[q] = hi[q]
      /\ \A q \in 1 .. n : q # p /\ q # c => heap2[q] = heap[q]
      /\ Len(heap2) = n + 1 /\ heap2 \in Seq(NodeSet)
  BY SplitLevels, SMTT(30)
<1>2. /\ n = Len(heap) /\ Shape(heap, root, height, lv, lo, hi)
      /\ Split(heap, p, i, c, heap2) /\ key = heap[c].items[Mid].key
  BY DEF SplitTo
<1> DEFINE r == Len(heap) + 1
<1>r. r = Len(heap) + 1  OBVIOUS
<1> HIDE DEF r
<1>3. /\ heap[c].children = <<>> => heap2[c].children = <<>> /\ heap2[r].children = <<>>
      /\ heap[c].children # <<>> =>
           /\ Len(heap[c].children) = MaxItems + 1
           /\ Len(heap2[c].children) = Mid
           /\ \A j \in 1 .. Mid : heap2[c].children[j] = heap[c].children[j]
  BY ONLY <1>2, <1>r, SplitKids
<1>4. /\ Len(heap2[c].items) = Mid - 1
      /\ \A j \in 1 .. Mid - 1 : heap2[c].items[j] = heap[c].items[j]
  BY ONLY <1>2, SplitLeft
<1>5. Branch(heap, lv, lo, hi, c)  BY <1>1, <1>2 DEF Shape, Branches
<1>6. lv2[c] = lv[c] /\ lo2[c] = lo[c] /\ hi2[c] = key  BY ONLY <1>1
<1>7. Len(heap[c].items) = MaxItems
  <2>1. Split(heap, p, i, c, heap2)  BY ONLY <1>2
  <2> QED BY ONLY <2>1 DEF Split
<1>8. CASE heap[c].children = <<>>
  <2>1. heap2[c].children = <<>> /\ Len(heap2[c].children) = 0 /\ lv2[c] = 1
    BY <1>3, <1>5, <1>6, <1>8 DEF Branch
  <2> QED BY ONLY <2>1 DEF Branch
<1>9. CASE heap[c].children # <<>>
  <2>1. /\ Len(heap[c].children) = MaxItems + 1 /\ Len(heap2[c].children) = Mid
        /\ \A j \in 1 .. Mid : heap2[c].children[j] = heap[c].children[j]
    BY ONLY <1>3, <1>9
  <2>2. heap2[c].children # <<>>
    <3>1. Mid # 0  BY MidFacts
    <3> QED BY <3>1, <2>1
  <2>3. ASSUME NEW j \in 1 .. Mid
        PROVE  /\ heap2[c].children[j] \in 1 .. Len(heap2)
               /\ lv2[heap2[c].children[j]] = lv2[c] - 1
               /\ lo2[heap2[c].children[j]] = Low(heap2, lo2, c, j)
               /\ hi2[heap2[c].children[j]] = High(heap2, hi2, c, j)
    <3> DEFINE x == heap2[c].children[j]
    <3>1. j \in 1 .. MaxItems + 1 /\ j # MaxItems + 1
      BY ONLY j \in 1 .. Mid, MidFacts
    <3>2. x = heap[c].children[j] /\ j \in 1 .. Len(heap[c].children)
      BY ONLY <2>1, <3>1, j \in 1 .. Mid
    <3> HIDE DEF x
    <3>3. /\ x \in 1 .. n /\ lv[x] = lv[c] - 1
          /\ lo[x] = Low(heap, lo, c, j) /\ hi[x] = High(heap, hi, c, j)
      BY ONLY <1>2, <1>5, <3>2 DEF Branch
    <3>4. x # c
      <4> SUFFICES ASSUME x = c PROVE FALSE  OBVIOUS
      <4>1. lv[c] = lv[c] - 1  BY <3>3
      <4>2. lv[c] \in Int
        <5>1. \A q \in 1 .. Len(heap) : lv[q] \in Int  BY ONLY <1>2, NodeTypes
        <5> QED BY ONLY <5>1, <1>1, <1>2
      <4> QED BY ONLY <4>1, <4>2
    <3>5. lo[x] = Low(heap2, lo2, c, j)
      <4>1. CASE j = 1  BY ONLY <3>3, <4>1, <1>6 DEF Low
      <4>2. CASE j # 1
        <5>1. j - 1 \in 1 .. Mid - 1  BY ONLY <4>2, j \in 1 .. Mid, MidFacts
        <5>2. heap2[c].items[j - 1] = heap[c].items[j - 1]  BY ONLY <5>1, <1>4
        <5> QED BY ONLY <3>3, <4>2, <5>2 DEF Low
      <4> QED BY ONLY <4>1, <4>2
    <3>6. hi[x] = heap[c].items[j].key
      BY ONLY <3>1, <3>3, <1>7 DEF High
    <3>7. hi[x] = High(heap2, hi2, c, j)
      <4>0. Len(heap2[c].items) + 1 = Mid  BY ONLY <1>4, MidFacts
      <4>1. CASE j = Mid  BY ONLY <3>6, <4>0, <4>1, <1>2, <1>6 DEF High
      <4>2. CASE j # Mid
        <5>1. j \in 1 .. Mid - 1  BY ONLY <4>2, j \in 1 .. Mid, MidFacts
        <5>2. heap2[c].items[j] = heap[c].items[j]  BY ONLY <5>1, <1>4
        <5> QED BY ONLY <3>6, <4>0, <4>2, <5>2 DEF High
      <4> QED BY ONLY <4>1, <4>2
    <3>8. lv2[x] = lv[x] /\ lo2[x] = lo[x] /\ hi2[x] = hi[x] /\ x \in 1 .. Len(heap2)
      BY ONLY <1>1, <3>3, <3>4
    <3>9. /\ x \in 1 .. Len(heap2) /\ lv2[x] = lv2[c] - 1
          /\ lo2[x] = Low(heap2, lo2, c, j) /\ hi2[x] = High(heap2, hi2, c, j)
      BY ONLY <3>3, <3>5, <3>7, <3>8, <1>6
    <3> QED BY ONLY <3>9 DEF x
  <2>4. Len(heap2[c].children) = Len(heap2[c].items) + 1  BY ONLY <2>1, <1>4, MidFacts
  <2>5. lv2[c] # 1  BY ONLY <1>5, <1>6, <1>9 DEF Branch
  <2>6. \A j \in 1 .. Len(heap2[c].children) : j \in 1 .. Mid  BY ONLY <2>1
  <2> QED BY ONLY <2>2, <2>3, <2>4, <2>5, <2>6 DEF Branch
<1> QED BY ONLY <1>8, <1>9

\* the right half,
LEMMA SplitBranchRight ==
  ASSUME NEW heap, NEW root, NEW height, NEW lv, NEW lo, NEW hi,
         NEW p, NEW i, NEW c, NEW key, NEW heap2, NEW n, NEW lv2, NEW lo2, NEW hi2,
         SplitTo(heap, root, height, lv, lo, hi, p, i, c, key, heap2, n, lv2, lo2, hi2),
         NEW r, r = n + 1
  PROVE  Branch(heap2, lv2, lo2, hi2, r)
<1>1. /\ n \in Nat /\ p \in 1 .. n /\ c \in 1 .. n /\ c # p
      /\ key \in Int /\ lo[c] < key /\ key < hi[c]
      /\ lv2[n + 1] = lv[c] /\ lo2[n + 1] = key /\ hi2[n + 1] = hi[c]
      /\ \A q \in 1 .. n : lv2[q] = lv[q] /\ lo2[q] = lo[q]
      /\ hi2[c] = key
      /\ \A q \in 1 .. n : q # c => hi2[q] = hi[q]
      /\ \A q \in 1 .. n : q # p /\ q # c => heap2[q] = heap[q]
      /\ Len(heap2) = n + 1 /\ heap2 \in Seq(NodeSet)
  BY SplitLevels
<1>2. /\ n = Len(heap) /\ Shape(heap, root, height, lv, lo, hi)
      /\ Split(heap, p, i, c, heap2) /\ key = heap[c].items[Mid].key
  BY DEF SplitTo
<1>r. r = Len(heap) + 1  BY <1>2
<1>3. /\ heap[c].children = <<>> => heap2[c].children = <<>> /\ heap2[r].children = <<>>
      /\ heap[c].children # <<>> =>
           /\ Len(heap[c].children) = MaxItems + 1
           /\ Len(heap2[r].children) = MaxItems + 1 - Mid
           /\ \A j \in 1 .. MaxItems + 1 - Mid :
                heap2[r].children[j] = heap[c].children[Mid + j]
  BY ONLY <1>2, <1>r, SplitKids
<1>4. /\ Len(heap2[r].items) = MaxItems - Mid
      /\ \A j \in 1 .. MaxItems - Mid : heap2[r].items[j] = heap[c].items[Mid + j]
  BY ONLY <1>2, <1>r, SplitRight
<1>5. Branch(heap, lv, lo, hi, c)  BY <1>1, <1>2 DEF Shape, Branches
<1>6. lv2[r] = lv[c] /\ lo2[r] = key /\ hi2[r] = hi[c]  BY ONLY <1>1, r = n + 1
<1>7. Len(heap[c].items) = MaxItems
  <2>1. Split(heap, p, i, c, heap2)  BY ONLY <1>2
  <2> QED BY ONLY <2>1 DEF Split
<1>8. CASE heap[c].children = <<>>
  <2>1. heap2[r].children = <<>> /\ Len(heap2[r].children) = 0 /\ lv2[r] = 1
    BY <1>3, <1>5, <1>6, <1>8 DEF Branch
  <2> QED BY ONLY <2>1 DEF Branch
<1>9. CASE heap[c].children # <<>>
  <2>1. /\ Len(heap[c].children) = MaxItems + 1
        /\ Len(heap2[r].children) = MaxItems + 1 - Mid
        /\ \A j \in 1 .. MaxItems + 1 - Mid :
             heap2[r].children[j] = heap[c].children[Mid + j]
    BY ONLY <1>3, <1>9
  <2>2. heap2[r].children # <<>>
    <3>1. MaxItems + 1 - Mid # 0  BY MidFacts
    <3> QED BY <3>1, <2>1
  <2>3. ASSUME NEW j \in 1 .. MaxItems + 1 - Mid
        PROVE  /\ heap2[r].children[j] \in 1 .. Len(heap2)
               /\ lv2[heap2[r].children[j]] = lv2[r] - 1
               /\ lo2[heap2[r].children[j]] = Low(heap2, lo2, r, j)
               /\ hi2[heap2[r].children[j]] = High(heap2, hi2, r, j)
    <3> DEFINE x == heap2[r].children[j]
               k == Mid + j
    <3>1. /\ k \in 1 .. MaxItems + 1 /\ k # 1 /\ k - 1 = Mid + (j - 1)
          /\ (k = MaxItems + 1 <=> j = MaxItems - Mid + 1)
      BY ONLY j \in 1 .. MaxItems + 1 - Mid, MidFacts
    <3>k. k = Mid + j  OBVIOUS
    <3> HIDE DEF k
    <3>2. x = heap[c].children[k] /\ k \in 1 .. Len(heap[c].children)
      BY ONLY <2>1, <3>1, <3>k, j \in 1 .. MaxItems + 1 - Mid
    <3> HIDE DEF x
    <3>3. /\ x \in 1 .. n /\ lv[x] = lv[c] - 1
          /\ lo[x] = Low(heap, lo, c, k) /\ hi[x] = High(heap, hi, c, k)
      BY ONLY <1>2, <1>5, <3>2 DEF Branch
    <3>4. x # c
      <4> SUFFICES ASSUME x = c PROVE FALSE  OBVIOUS
      <4>1. lv[c] = lv[c] - 1  BY <3>3
      <4>2. lv[c] \in Int
        <5>1. \A q \in 1 .. Len(heap) : lv[q] \in Int  BY ONLY <1>2, NodeTypes
        <5> QED BY ONLY <5>1, <1>1, <1>2
      <4> QED BY ONLY <4>1, <4>2
    <3>5. lo[x] = Low(heap2, lo2, r, j)
      <4>0. lo[x] = heap[c].items[k - 1].key  BY ONLY <3>1, <3>3 DEF Low
      <4>1. CASE j = 1
        <5>1. k - 1 = Mid  BY ONLY <4>1, <3>k, MidFacts
        <5> QED BY ONLY <4>0, <4>1, <5>1, <1>2, <1>6 DEF Low
      <4>2. CASE j # 1
        <5>1. j - 1 \in 1 .. MaxItems - Mid
          BY ONLY <4>2, j \in 1 .. MaxItems + 1 - Mid, MidFacts
        <5>2. heap2[r].items[j - 1] = heap[c].items[Mid + (j - 1)]  BY ONLY <5>1, <1>4
        <5> QED BY ONLY <3>1, <4>0, <4>2, <5>2 DEF Low
      <4> QED BY ONLY <4>1, <4>2
    <3>7. hi[x] = High(heap2, hi2, r, j)
      <4>0. Len(heap2[r].items) + 1 = MaxItems - Mid + 1  BY ONLY <1>4
      <4>1. CASE j = MaxItems - Mid + 1
        <5>1. hi[x] = hi[c]  BY ONLY <3>1, <3>3, <4>1, <1>7 DEF High
        <5> QED BY ONLY <5>1, <4>0, <4>1, <1>6 DEF High
      <4>2. CASE j # MaxItems - Mid + 1
        <5>1. j \in 1 .. MaxItems - Mid
          BY ONLY <4>2, j \in 1 .. MaxItems + 1 - Mid, MidFacts
        <5>2. heap2[r].items[j] = heap[c].items[Mid + j]  BY ONLY <5>1, <1>4
        <5>3. hi[x] = heap[c].items[k].key  BY ONLY <3>1, <3>3, <4>2, <1>7 DEF High
        <5> QED BY ONLY <3>k, <4>0, <4>2, <5>2, <5>3 DEF High
      <4> QED BY ONLY <4>1, <4>2
    <3>8. lv2[x] = lv[x] /\ lo2[x] = lo[x] /\ hi2[x] = hi[x] /\ x \in 1 .. Len(heap2)
      BY ONLY <1>1, <3>3, <3>4
    <3>9. /\ x \in 1 .. Len(heap2) /\ lv2[x] = lv2[r] - 1
          /\ lo2[x] = Low(heap2, lo2, r, j) /\ hi2[x] = High(heap2, hi2, r, j)
      BY ONLY <3>3, <3>5, <3>7, <3>8, <1>6
    <3> QED BY ONLY <3>9 DEF x
  <2>4. Len(heap2[r].children) = Len(heap2[r].items) + 1  BY ONLY <2>1, <1>4, MidFacts
  <2>5. lv2[r] # 1  BY ONLY <1>5, <1>6, <1>9 DEF Branch
  <2>6. \A j \in 1 .. Len(heap2[r].children) : j \in 1 .. MaxItems + 1 - Mid
    BY ONLY <2>1
  <2> QED BY ONLY <2>2, <2>3, <2>4, <2>5, <2>6 DEF Branch
<1> QED BY ONLY <1>8, <1>9

\* and the node above, whose children move up behind the right half.
LEMMA SplitBranchParent ==
  ASSUME NEW heap, NEW root, NEW height, NEW lv, NEW lo, NEW hi,
         NEW p, NEW i, NEW c, NEW key, NEW heap2, NEW n, NEW lv2, NEW lo2, NEW hi2,
         SplitTo(heap, root, height, lv, lo, hi, p, i, c, key, heap2, n, lv2, lo2, hi2)
  PROVE  Branch(heap2, lv2, lo2, hi2, p)
<1>1. /\ n \in Nat /\ p \in 1 .. n /\ c \in 1 .. n /\ c # p
      /\ key \in Int /\ lo[c] < key /\ key < hi[c]
      /\ lv2[n + 1] = lv[c] /\ lo2[n + 1] = key /\ hi2[n + 1] = hi[c]
      /\ \A q \in 1 .. n : lv2[q] = lv[q] /\ lo2[q] = lo[q]
      /\ hi2[c] = key
      /\ \A q \in 1 .. n : q # c => hi2[q] = hi[q]
      /\ \A q \in 1 .. n : q # p /\ q # c => heap2[q] = heap[q]
      /\ Len(heap2) = n + 1 /\ heap2 \in Seq(NodeSet)
  BY SplitLevels, SMTT(30)
<1>2. /\ n = Len(heap) /\ Shape(heap, root, height, lv, lo, hi)
      /\ Split(heap, p, i, c, heap2) /\ key = heap[c].items[Mid].key
  BY DEF SplitTo
<1> DEFINE r == Len(heap) + 1
           m == Len(heap[p].items)
<1>r. r = Len(heap) + 1 /\ r = n + 1 /\ m = Len(heap[p].items)  BY <1>2
<1> HIDE DEF r, m
<1>3. /\ Len(heap2[p].children) = Len(heap[p].children) + 1
      /\ \A j \in 1 .. i : heap2[p].children[j] = heap[p].children[j]
      /\ heap2[p].children[i + 1] = r
      /\ \A j \in i + 1 .. Len(heap[p].children) :
           heap2[p].children[j + 1] = heap[p].children[j]
  BY ONLY <1>2, <1>r, SplitKids, SMTT(30)
<1>4. /\ Len(heap2[p].items) = m + 1
      /\ \A j \in 1 .. i - 1 : heap2[p].items[j] = heap[p].items[j]
      /\ heap2[p].items[i] = heap[c].items[Mid]
      /\ \A j \in i .. m : heap2[p].items[j + 1] = heap[p].items[j]
  <2>1. /\ Len(heap2[p].items) = Len(heap[p].items) + 1
        /\ \A j \in 1 .. i - 1 : heap2[p].items[j] = heap[p].items[j]
        /\ heap2[p].items[i] = heap[c].items[Mid]
        /\ \A j \in i .. Len(heap[p].items) : heap2[p].items[j + 1] = heap[p].items[j]
    BY ONLY <1>2, SplitParent
  <2> QED BY ONLY <2>1, <1>r
<1>5. /\ i \in 1 .. m + 1 /\ Len(heap[p].children) = m + 1
      /\ i \in 1 .. Len(heap[p].children)
      /\ lv[c] = lv[p] - 1 /\ lo[c] = Low(heap, lo, p, i) /\ hi[c] = High(heap, hi, p, i)
  <2>1. /\ i \in 1 .. Len(heap[p].children) /\ Len(heap[p].children) = Len(heap[p].items) + 1
        /\ lv[c] = lv[p] - 1 /\ lo[c] = Low(heap, lo, p, i) /\ hi[c] = High(heap, hi, p, i)
    BY ONLY <1>2, SplitPlace
  <2> QED BY ONLY <2>1, <1>r
<1>6. m \in Nat /\ lv[p] \in Int
  <2>1. \A q \in 1 .. Len(heap) : lv[q] \in Int /\ Len(heap[q].items) \in Nat
    BY ONLY <1>2, NodeTypes
  <2> QED BY ONLY <2>1, <1>1, <1>2, <1>r
<1>7. lv2[p] = lv[p] /\ lo2[p] = lo[p] /\ hi2[p] = hi[p]  BY ONLY <1>1
<1>8. Branch(heap, lv, lo, hi, p)  BY <1>1, <1>2 DEF Shape, Branches
<1>9. heap2[p].items[i].key = key  BY ONLY <1>2, <1>4
<1>10. c = heap[p].children[i] /\ p \in 1 .. Len(heap)
  <2>1. Split(heap, p, i, c, heap2)  BY ONLY <1>2
  <2> QED BY ONLY <2>1 DEF Split
\* What is said of child j.
<1> DEFINE Good(j) == /\ heap2[p].children[j] \in 1 .. Len(heap2)
                      /\ lv2[heap2[p].children[j]] = lv2[p] - 1
                      /\ lo2[heap2[p].children[j]] = Low(heap2, lo2, p, j)
                      /\ hi2[heap2[p].children[j]] = High(heap2, hi2, p, j)
\* A child of before, other than c.
<1>11. \A k \in 1 .. m + 1 : k # i =>
         LET x == heap[p].children[k] IN
         /\ x \in 1 .. Len(heap2) /\ lv2[x] = lv2[p] - 1
         /\ lo2[x] = Low(heap, lo, p, k) /\ hi2[x] = High(heap, hi, p, k)
  <2> SUFFICES ASSUME NEW k, k \in 1 .. m + 1, k # i, NEW x, x = heap[p].children[k]
               PROVE  /\ x \in 1 .. Len(heap2) /\ lv2[x] = lv2[p] - 1
                      /\ lo2[x] = Low(heap, lo, p, k) /\ hi2[x] = High(heap, hi, p, k)
    OBVIOUS
  <2>1. k \in 1 .. Len(heap[p].children)  BY ONLY k \in 1 .. m + 1, <1>5
  <2>2. /\ x \in 1 .. n /\ lv[x] = lv[p] - 1
        /\ lo[x] = Low(heap, lo, p, k) /\ hi[x] = High(heap, hi, p, k)
    BY ONLY <1>2, <1>8, <2>1, x = heap[p].children[k] DEF Branch
  <2>3. x # c
    <3>1. \A q \in 1 .. Len(heap) : \A j \in 1 .. Len(heap[q].children) :
            heap[q].children[j] = c => q = p /\ j = i
      <4>1. Shape(heap, root, height, lv, lo, hi)  BY ONLY <1>2
      <4>2. /\ p \in 1 .. Len(heap) /\ i \in 1 .. Len(heap[p].children)
            /\ c = heap[p].children[i]
        BY ONLY <1>5, <1>10
      <4> QED BY ONLY <4>1, <4>2, OnePlace, SMTT(30)
    <3> QED BY ONLY <2>1, <3>1, <1>10, k # i, x = heap[p].children[k]
  <2> QED BY ONLY <1>1, <1>7, <2>2, <2>3
<1>12. ASSUME NEW j, j \in 1 .. i - 1 PROVE Good(j)
  <2>1. /\ j \in 1 .. m + 1 /\ j # i /\ j \in 1 .. i /\ j # m + 1 /\ j # (m + 1) + 1
        /\ (j # 1 => j - 1 \in 1 .. i - 1)
    BY ONLY j \in 1 .. i - 1, <1>5, <1>6
  <2>2. heap2[p].children[j] = heap[p].children[j]  BY ONLY <2>1, <1>3
  <2>3. Low(heap2, lo2, p, j) = Low(heap, lo, p, j)
    BY ONLY <2>1, <1>4, <1>7 DEF Low
  <2>4. High(heap2, hi2, p, j) = High(heap, hi, p, j)
    BY ONLY <2>1, j \in 1 .. i - 1, <1>4, <1>7, <1>r DEF High
  <2> QED BY ONLY <2>1, <2>2, <2>3, <2>4, <1>11
<1>13. Good(i)
  <2>1. i \in 1 .. i /\ i # (m + 1) + 1 /\ (i # 1 => i - 1 \in 1 .. i - 1)
    BY ONLY <1>5, <1>6
  <2>2. heap2[p].children[i] = c  BY ONLY <2>1, <1>3, <1>10
  <2>3. Low(heap2, lo2, p, i) = Low(heap, lo, p, i)
    BY ONLY <2>1, <1>4, <1>7 DEF Low
  <2>4. High(heap2, hi2, p, i) = key
    BY ONLY <2>1, <1>4, <1>9 DEF High
  <2>5. c \in 1 .. Len(heap2) /\ lv2[c] = lv[c] /\ lo2[c] = lo[c] /\ hi2[c] = key
    BY ONLY <1>1
  <2> QED BY ONLY <2>2, <2>3, <2>4, <2>5, <1>5, <1>7
<1>14. Good(i + 1)
  <2>1. i + 1 # 1 /\ (i + 1) - 1 = i /\ (i + 1 = (m + 1) + 1 <=> i = m + 1)
        /\ (i # m + 1 => i \in i .. m)
    BY ONLY <1>5, <1>6
  <2>3. Low(heap2, lo2, p, i + 1) = key
    BY ONLY <2>1, <1>9 DEF Low
  <2>4. High(heap2, hi2, p, i + 1) = hi[c]
    <3>1. CASE i = m + 1
      <4>1. High(heap2, hi2, p, i + 1) = hi[p]  BY ONLY <2>1, <3>1, <1>4, <1>7 DEF High
      <4>2. hi[c] = hi[p]  BY ONLY <3>1, <1>5, <1>r DEF High
      <4> QED BY ONLY <4>1, <4>2
    <3>2. CASE i # m + 1
      <4>1. High(heap2, hi2, p, i + 1) = heap2[p].items[i + 1].key
        BY ONLY <2>1, <3>2, <1>4 DEF High
      <4>2. heap2[p].items[i + 1] = heap[p].items[i]  BY ONLY <2>1, <3>2, <1>4
      <4>3. hi[c] = heap[p].items[i].key  BY ONLY <3>2, <1>5, <1>r DEF High
      <4> QED BY ONLY <4>1, <4>2, <4>3
    <3> QED BY ONLY <3>1, <3>2
  <2>5. r \in 1 .. Len(heap2) /\ lv2[r] = lv[c] /\ lo2[r] = key /\ hi2[r] = hi[c]
    <3>1. n \in Nat /\ Len(heap2) = n + 1 /\ r = n + 1  BY ONLY <1>1, <1>r
    <3>2. r \in 1 .. Len(heap2)  BY ONLY <3>1
    <3>3. lv2[n + 1] = lv[c] /\ lo2[n + 1] = key /\ hi2[n + 1] = hi[c]  BY ONLY <1>1
    <3> QED BY ONLY <3>1, <3>2, <3>3
  <2> QED BY ONLY <2>3, <2>4, <2>5, <1>3, <1>5, <1>7
<1>15. ASSUME NEW j, j \in i + 2 .. m + 2 PROVE Good(j)
  <2>0. j \in Int /\ i \in Int /\ m \in Int /\ i >= 1 /\ i + 2 <= j /\ j <= m + 2
    BY ONLY j \in i + 2 .. m + 2, <1>5, <1>6
  <2> DEFINE k == j - 1
  <2>1. /\ k \in i + 1 .. m + 1 /\ k \in 1 .. m + 1 /\ k # i /\ j = k + 1 /\ j # 1
        /\ k - 1 \in i .. m /\ k = (k - 1) + 1 /\ k # 1
        /\ (j = (m + 1) + 1 <=> k = m + 1) /\ (k # m + 1 => k \in i .. m)
    BY ONLY <2>0
  <2>k. k = j - 1  OBVIOUS
  <2> HIDE DEF k
  <2>2. heap2[p].children[j] = heap[p].children[k]
    <3>1. k \in i + 1 .. Len(heap[p].children)  BY ONLY <2>1, <1>5
    <3>2. heap2[p].children[k + 1] = heap[p].children[k]  BY ONLY <3>1, <1>3
    <3> QED BY ONLY <3>2, <2>1
  <2>3. Low(heap2, lo2, p, j) = Low(heap, lo, p, k)
    <3>1. heap2[p].items[(k - 1) + 1] = heap[p].items[k - 1]  BY ONLY <2>1, <1>4
    <3>2. heap2[p].items[j - 1] = heap[p].items[k - 1]  BY ONLY <3>1, <2>1, <2>k
    <3> QED BY ONLY <3>2, <2>1 DEF Low
  <2>4. High(heap2, hi2, p, j) = High(heap, hi, p, k)
    <3>1. CASE k = m + 1
      <4>1. High(heap2, hi2, p, j) = hi[p]  BY ONLY <2>1, <3>1, <1>4, <1>7 DEF High
      <4>2. High(heap, hi, p, k) = hi[p]  BY ONLY <3>1, <1>r DEF High
      <4> QED BY ONLY <4>1, <4>2
    <3>2. CASE k # m + 1
      <4>1. heap2[p].items[k + 1] = heap[p].items[k]  BY ONLY <2>1, <3>2, <1>4
      <4>2. High(heap2, hi2, p, j) = heap2[p].items[j].key
        BY ONLY <2>1, <3>2, <1>4 DEF High
      <4>3. High(heap, hi, p, k) = heap[p].items[k].key  BY ONLY <3>2, <1>r DEF High
      <4> QED BY ONLY <4>1, <4>2, <4>3, <2>1
    <3> QED BY ONLY <3>1, <3>2
  <2> QED BY ONLY <2>1, <2>2, <2>3, <2>4, <1>11
<1>16. /\ Len(heap2[p].children) = m + 2 /\ Len(heap2[p].children) = Len(heap2[p].items) + 1
  BY ONLY <1>3, <1>4, <1>5, <1>6
<1>17. heap2[p].children # <<>> /\ lv2[p] # 1
  <2>1. heap2[p].children # <<>>
    <3>1. Len(heap2[p].children) # 0  BY ONLY <1>6, <1>16
    <3> QED BY <3>1
  <2>2. heap[p].children # <<>>
    <3>1. Len(heap[p].children) # 0  BY ONLY <1>5, <1>6
    <3> QED BY <3>1
  <2> QED BY ONLY <2>1, <2>2, <1>7, <1>8 DEF Branch
<1>18. ASSUME NEW j, j \in 1 .. m + 2 PROVE Good(j)
  <2> HIDE DEF Good
  <2>1. j \in 1 .. i - 1 \/ j = i \/ j = i + 1 \/ j \in i + 2 .. m + 2
    BY ONLY j \in 1 .. m + 2, <1>5, <1>6
  <2> QED BY ONLY <2>1, <1>12, <1>13, <1>14, <1>15
<1> HIDE DEF Good
<1>19. \A j \in 1 .. Len(heap2[p].children) : Good(j)  BY ONLY <1>16, <1>18
<1> QED BY ONLY <1>16, <1>17, <1>19 DEF Branch, Good

\* The places of the items after a split, and before it.
LEMMA SplitItems ==
  ASSUME NEW heap, NEW root, NEW height, NEW lv, NEW lo, NEW hi,
         NEW p, NEW i, NEW c, NEW key, NEW heap2, NEW n, NEW lv2, NEW lo2, NEW hi2,
         SplitTo(heap, root, height, lv, lo, hi, p, i, c, key, heap2, n, lv2, lo2, hi2)
  PROVE  /\ \A y \in 1 .. n + 1 : \A k \in 1 .. Len(heap2[y].items) :
              \E z \in 1 .. n : \E l \in 1 .. Len(heap[z].items) :
                /\ heap2[y].items[k] = heap[z].items[l]
                /\ lv2[y] = lv[z] \/ (y = p /\ z = c /\ l = Mid)
         /\ \A z \in 1 .. n : \A l \in 1 .. Len(heap[z].items) :
              \E y \in 1 .. n + 1 : \E k \in 1 .. Len(heap2[y].items) :
                heap2[y].items[k] = heap[z].items[l]
<1>1. /\ n \in Nat /\ p \in 1 .. n /\ c \in 1 .. n /\ c # p
      /\ key \in Int /\ lo[c] < key /\ key < hi[c]
      /\ lv2[n + 1] = lv[c] /\ lo2[n + 1] = key /\ hi2[n + 1] = hi[c]
      /\ \A q \in 1 .. n : lv2[q] = lv[q] /\ lo2[q] = lo[q]
      /\ hi2[c] = key
      /\ \A q \in 1 .. n : q # c => hi2[q] = hi[q]
      /\ \A q \in 1 .. n : q # p /\ q # c => heap2[q] = heap[q]
      /\ Len(heap2) = n + 1 /\ heap2 \in Seq(NodeSet)
  BY SplitLevels, SMTT(30)
<1>2. /\ n = Len(heap) /\ Shape(heap, root, height, lv, lo, hi)
      /\ Split(heap, p, i, c, heap2) /\ key = heap[c].items[Mid].key
  BY DEF SplitTo
<1> DEFINE r == Len(heap) + 1
           m == Len(heap[p].items)
<1>r. r = Len(heap) + 1 /\ r = n + 1 /\ m = Len(heap[p].items)  BY <1>2
<1> HIDE DEF r, m
<1>3. /\ Len(heap2[c].items) = Mid - 1
      /\ \A j \in 1 .. Mid - 1 : heap2[c].items[j] = heap[c].items[j]
  BY ONLY <1>2, SplitLeft
<1>4. /\ Len(heap2[r].items) = MaxItems - Mid
      /\ \A j \in 1 .. MaxItems - Mid : heap2[r].items[j] = heap[c].items[Mid + j]
  BY ONLY <1>2, <1>r, SplitRight
<1>5. /\ Len(heap2[p].items) = m + 1
      /\ \A j \in 1 .. i - 1 : heap2[p].items[j] = heap[p].items[j]
      /\ heap2[p].items[i] = heap[c].items[Mid]
      /\ \A j \in i .. m : heap2[p].items[j + 1] = heap[p].items[j]
  <2>1. /\ Len(heap2[p].items) = Len(heap[p].items) + 1
        /\ \A j \in 1 .. i - 1 : heap2[p].items[j] = heap[p].items[j]
        /\ heap2[p].items[i] = heap[c].items[Mid]
        /\ \A j \in i .. Len(heap[p].items) : heap2[p].items[j + 1] = heap[p].items[j]
    BY ONLY <1>2, SplitParent
  <2> QED BY ONLY <2>1, <1>r
<1>6. m \in Nat /\ i \in 1 .. m + 1
  <2>1. \A q \in 1 .. Len(heap) : Len(heap[q].items) \in Nat  BY ONLY <1>2, NodeTypes
  <2>2. i \in 1 .. Len(heap[p].children) /\ Len(heap[p].children) = Len(heap[p].items) + 1
    BY ONLY <1>2, SplitPlace
  <2> QED BY ONLY <2>1, <2>2, <1>1, <1>2, <1>r
<1>7. Len(heap[c].items) = MaxItems
  <2>1. Split(heap, p, i, c, heap2)  BY ONLY <1>2
  <2> QED BY ONLY <2>1 DEF Split
<1>8. ASSUME NEW y, y \in 1 .. n + 1, NEW k, k \in 1 .. Len(heap2[y].items)
      PROVE  \E z \in 1 .. n : \E l \in 1 .. Len(heap[z].items) :
                /\ heap2[y].items[k] = heap[z].items[l]
                /\ lv2[y] = lv[z] \/ (y = p /\ z = c /\ l = Mid)
  <2>0. y = r \/ y = c \/ y = p \/ (y \in 1 .. n /\ y # p /\ y # c)
    BY ONLY y \in 1 .. n + 1, <1>1, <1>r
  <2>1. CASE y = r
    <3>1. k \in 1 .. MaxItems - Mid  BY ONLY k \in 1 .. Len(heap2[y].items), <1>4, <2>1
    <3>2. Mid + k \in 1 .. Len(heap[c].items)  BY ONLY <3>1, <1>7, MidFacts
    <3>3. heap2[y].items[k] = heap[c].items[Mid + k]  BY ONLY <3>1, <1>4, <2>1
    <3>4. lv2[y] = lv[c] /\ c \in 1 .. n  BY ONLY <2>1, <1>1, <1>r
    <3> QED BY ONLY <3>2, <3>3, <3>4
  <2>2. CASE y = c
    <3>1. k \in 1 .. Mid - 1  BY ONLY k \in 1 .. Len(heap2[y].items), <1>3, <2>2
    <3>2. k \in 1 .. Len(heap[c].items)  BY ONLY <3>1, <1>7, MidFacts
    <3>3. heap2[y].items[k] = heap[c].items[k]  BY ONLY <3>1, <1>3, <2>2
    <3>4. lv2[y] = lv[c] /\ c \in 1 .. n  BY ONLY <2>2, <1>1
    <3> QED BY ONLY <3>2, <3>3, <3>4
  <2>3. CASE y = p
    <3>0. k \in 1 .. m + 1  BY ONLY k \in 1 .. Len(heap2[y].items), <1>5, <2>3
    <3>1. lv2[y] = lv[p] /\ p \in 1 .. n /\ c \in 1 .. n  BY ONLY <2>3, <1>1
    <3>2. CASE k \in 1 .. i - 1
      <4>1. k \in 1 .. Len(heap[p].items)  BY ONLY <3>2, <1>6, <1>r
      <4>2. heap2[y].items[k] = heap[p].items[k]  BY ONLY <3>2, <1>5, <2>3
      <4> QED BY ONLY <4>1, <4>2, <3>1
    <3>3. CASE k = i
      <4>1. heap2[y].items[k] = heap[c].items[Mid]  BY ONLY <3>3, <1>5, <2>3
      <4>2. Mid \in 1 .. Len(heap[c].items)  BY ONLY <1>7, MidFacts
      <4>3. PICK z \in 1 .. n : z = c  BY ONLY <3>1
      <4>4. PICK l \in 1 .. Len(heap[c].items) : l = Mid  BY ONLY <4>2
      <4>5. heap2[y].items[k] = heap[z].items[l]  BY ONLY <4>1, <4>3, <4>4
      <4>6. l \in 1 .. Len(heap[z].items)  BY ONLY <4>3
      <4> QED BY ONLY <4>3, <4>4, <4>5, <4>6, <2>3
    <3>4. CASE k \in i + 1 .. m + 1
      <4>1. k - 1 \in i .. m /\ (k - 1) + 1 = k  BY ONLY <3>4, <1>6
      <4>2. k - 1 \in 1 .. Len(heap[p].items)  BY ONLY <4>1, <1>6, <1>r
      <4>3. heap2[p].items[(k - 1) + 1] = heap[p].items[k - 1]  BY ONLY <4>1, <1>5
      <4>4. heap2[y].items[k] = heap[p].items[k - 1]  BY ONLY <4>1, <4>3, <2>3
      <4> QED BY ONLY <4>2, <4>4, <3>1
    <3>5. k \in 1 .. i - 1 \/ k = i \/ k \in i + 1 .. m + 1  BY ONLY <3>0, <1>6
    <3> QED BY ONLY <3>2, <3>3, <3>4, <3>5
  <2>4. CASE y \in 1 .. n /\ y # p /\ y # c
    <3>1. heap2[y] = heap[y] /\ lv2[y] = lv[y]  BY ONLY <2>4, <1>1
    <3>2. k \in 1 .. Len(heap[y].items)  BY ONLY k \in 1 .. Len(heap2[y].items), <3>1
    <3> QED BY ONLY <3>1, <3>2, <2>4
  <2> QED BY ONLY <2>0, <2>1, <2>2, <2>3, <2>4
<1>9. ASSUME NEW z, z \in 1 .. n, NEW l, l \in 1 .. Len(heap[z].items)
      PROVE  \E y \in 1 .. n + 1 : \E k \in 1 .. Len(heap2[y].items) :
                heap2[y].items[k] = heap[z].items[l]
  <2>n. \A q \in 1 .. n : q \in 1 .. n + 1  BY ONLY <1>1
  <2>i. c \in 1 .. n + 1 /\ p \in 1 .. n + 1 /\ r \in 1 .. n + 1
    <3>1. n \in Nat /\ c \in 1 .. n /\ p \in 1 .. n  BY ONLY <1>1
    <3> QED BY ONLY <3>1, <1>r
  <2>1. CASE z = c
    <3>0. l \in 1 .. MaxItems  BY ONLY l \in 1 .. Len(heap[z].items), <1>7, <2>1
    <3>1. CASE l \in 1 .. Mid - 1
      <4>1. l \in 1 .. Len(heap2[c].items) /\ heap2[c].items[l] = heap[z].items[l]
        BY ONLY <3>1, <1>3, <2>1
      <4> QED BY ONLY <4>1, <2>i
    <3>2. CASE l = Mid
      <4>1. i \in 1 .. Len(heap2[p].items) /\ heap2[p].items[i] = heap[z].items[l]
        BY ONLY <3>2, <1>5, <1>6, <2>1
      <4> QED BY ONLY <4>1, <2>i
    <3>3. CASE l \in Mid + 1 .. MaxItems
      <4>1. l - Mid \in 1 .. MaxItems - Mid /\ Mid + (l - Mid) = l  BY ONLY <3>3, MidFacts
      <4>2. heap2[r].items[l - Mid] = heap[c].items[Mid + (l - Mid)]  BY ONLY <4>1, <1>4
      <4>3. l - Mid \in 1 .. Len(heap2[r].items) /\ heap2[r].items[l - Mid] = heap[z].items[l]
        BY ONLY <4>1, <4>2, <1>4, <2>1
      <4> QED BY ONLY <4>3, <2>i
    <3>4. l \in 1 .. Mid - 1 \/ l = Mid \/ l \in Mid + 1 .. MaxItems
      BY ONLY <3>0, MidFacts
    <3> QED BY ONLY <3>1, <3>2, <3>3, <3>4
  <2>2. CASE z = p
    <3>0. l \in 1 .. m  BY ONLY l \in 1 .. Len(heap[z].items), <1>r, <2>2
    <3>1. CASE l < i
      <4>1. l \in 1 .. i - 1 /\ l \in 1 .. m + 1  BY ONLY <3>0, <3>1, <1>6
      <4>2. l \in 1 .. Len(heap2[p].items) /\ heap2[p].items[l] = heap[z].items[l]
        BY ONLY <4>1, <1>5, <2>2
      <4> QED BY ONLY <4>2, <2>i
    <3>2. CASE i <= l
      <4>1. l \in i .. m /\ l + 1 \in 1 .. m + 1  BY ONLY <3>0, <3>2, <1>6
      <4>2. l + 1 \in 1 .. Len(heap2[p].items) /\ heap2[p].items[l + 1] = heap[z].items[l]
        BY ONLY <4>1, <1>5, <2>2
      <4> QED BY ONLY <4>2, <2>i
    <3>3. l < i \/ i <= l  BY ONLY <3>0, <1>6
    <3> QED BY ONLY <3>1, <3>2, <3>3
  <2>3. CASE z # c /\ z # p
    <3>1. heap2[z] = heap[z]  BY ONLY <2>3, <1>1, z \in 1 .. n
    <3>2. l \in 1 .. Len(heap2[z].items)  BY ONLY l \in 1 .. Len(heap[z].items), <3>1
    <3> QED BY ONLY <3>1, <3>2, <2>n, z \in 1 .. n
  <2> QED BY ONLY <2>1, <2>2, <2>3
<1>10. \A y \in 1 .. n + 1 : \A k \in 1 .. Len(heap2[y].items) :
         \E z \in 1 .. n : \E l \in 1 .. Len(heap[z].items) :
           /\ heap2[y].items[k] = heap[z].items[l]
           /\ lv2[y] = lv[z] \/ (y = p /\ z = c /\ l = Mid)
  BY ONLY <1>8
<1>11. \A z \in 1 .. n : \A l \in 1 .. Len(heap[z].items) :
         \E y \in 1 .. n + 1 : \E k \in 1 .. Len(heap2[y].items) :
           heap2[y].items[k] = heap[z].items[l]
  BY ONLY <1>9
<1> QED BY ONLY <1>10, <1>11

LEMMA SplitApart ==
  ASSUME NEW heap, NEW root, NEW height, NEW lv, NEW lo, NEW hi,
         NEW p, NEW i, NEW c, NEW key, NEW heap2, NEW n, NEW lv2, NEW lo2, NEW hi2,
         SplitTo(heap, root, height, lv, lo, hi, p, i, c, key, heap2, n, lv2, lo2, hi2)
  PROVE  Apart(heap2, lv2, lo2, hi2)
<1>1. /\ n \in Nat /\ p \in 1 .. n /\ c \in 1 .. n /\ c # p
      /\ key \in Int /\ lo[c] < key /\ key < hi[c]
      /\ lv2[n + 1] = lv[c] /\ lo2[n + 1] = key /\ hi2[n + 1] = hi[c]
      /\ \A q \in 1 .. n : lv2[q] = lv[q] /\ lo2[q] = lo[q]
      /\ hi2[c] = key
      /\ \A q \in 1 .. n : q # c => hi2[q] = hi[q]
      /\ \A q \in 1 .. n : q # p /\ q # c => heap2[q] = heap[q]
      /\ Len(heap2) = n + 1 /\ heap2 \in Seq(NodeSet)
  BY SplitLevels, SMTT(30)
<1>2. n = Len(heap) /\ Shape(heap, root, height, lv, lo, hi)  BY DEF SplitTo
<1>3. \A x, y \in 1 .. n : x # y /\ lv[x] = lv[y] => hi[x] <= lo[y] \/ hi[y] <= lo[x]
  <2>1. Shape(heap, root, height, lv, lo, hi)  BY ONLY <1>2
  <2>2. \A x, y \in 1 .. Len(heap) :
          x # y /\ lv[x] = lv[y] => hi[x] <= lo[y] \/ hi[y] <= lo[x]
    BY ONLY <2>1 DEF Shape, Apart
  <2> QED BY ONLY <2>2, <1>2
<1>4. \A x \in 1 .. n : lo[x] \in Int /\ hi[x] \in Int
  <2>1. \A x \in 1 .. Len(heap) : lo[x] \in Int /\ hi[x] \in Int  BY ONLY <1>2, NodeTypes
  <2> QED BY ONLY <2>1, <1>2
<1>5. lo[c] \in Int /\ hi[c] \in Int /\ c \in 1 .. n  BY ONLY <1>1, <1>4
<1>6. \A x, y \in 1 .. n : x # y /\ lv2[x] = lv2[y] => hi2[x] <= lo2[y] \/ hi2[y] <= lo2[x]
  <2> SUFFICES ASSUME NEW x, x \in 1 .. n, NEW y, y \in 1 .. n, x # y, lv2[x] = lv2[y]
               PROVE  hi2[x] <= lo2[y] \/ hi2[y] <= lo2[x]
    OBVIOUS
  <2>1. lv2[x] = lv[x] /\ lv2[y] = lv[y] /\ lo2[x] = lo[x] /\ lo2[y] = lo[y]
    BY ONLY x \in 1 .. n, y \in 1 .. n, <1>1
  <2>2. hi[x] <= lo[y] \/ hi[y] <= lo[x]
    BY ONLY x \in 1 .. n, y \in 1 .. n, x # y, lv2[x] = lv2[y], <2>1, <1>3
  <2>3. /\ lo[x] \in Int /\ hi[x] \in Int /\ lo[y] \in Int /\ hi[y] \in Int
    BY ONLY x \in 1 .. n, y \in 1 .. n, <1>4
  <2>4. (x = c /\ hi2[x] = key) \/ hi2[x] = hi[x]  BY ONLY x \in 1 .. n, <1>1
  <2>5. (y = c /\ hi2[y] = key) \/ hi2[y] = hi[y]  BY ONLY y \in 1 .. n, <1>1
  <2>6. key \in Int /\ key < hi[c]  BY ONLY <1>1
  <2>7. hi2[x] \in Int /\ hi2[x] <= hi[x]  BY ONLY <2>3, <2>4, <2>6
  <2>8. hi2[y] \in Int /\ hi2[y] <= hi[y]  BY ONLY <2>3, <2>5, <2>6
  <2> QED BY ONLY <2>1, <2>2, <2>3, <2>7, <2>8
<1>7. \A y \in 1 .. n : lv2[n + 1] = lv2[y] =>
        hi2[n + 1] <= lo2[y] \/ hi2[y] <= lo2[n + 1]
  <2> SUFFICES ASSUME NEW y, y \in 1 .. n, lv2[n + 1] = lv2[y]
               PROVE  hi2[n + 1] <= lo2[y] \/ hi2[y] <= lo2[n + 1]
    OBVIOUS
  <2>1. key \in Int /\ lo[c] < key /\ lo2[n + 1] = key /\ hi2[n + 1] = hi[c]
        /\ hi2[c] = key
    BY ONLY <1>1
  <2>2. CASE y = c  BY ONLY <2>1, <2>2
  <2>3. CASE y # c
    <3>1. lv[y] = lv[c] /\ lo2[y] = lo[y] /\ hi2[y] = hi[y]
      BY ONLY y \in 1 .. n, lv2[n + 1] = lv2[y], <2>3, <1>1
    <3>2. hi[c] <= lo[y] \/ hi[y] <= lo[c]
      BY ONLY y \in 1 .. n, <2>3, <3>1, <1>3, <1>5
    <3>3. lo[y] \in Int /\ hi[y] \in Int  BY ONLY y \in 1 .. n, <1>4
    <3> QED BY ONLY <2>1, <3>1, <3>2, <3>3, <1>5
  <2> QED BY ONLY <2>2, <2>3
<1>8. \A x \in 1 .. n + 1 : x \in 1 .. n \/ x = n + 1
  <2>1. n \in Nat  BY ONLY <1>1
  <2> QED BY ONLY <2>1
<1>9. Len(heap2) = n + 1  BY ONLY <1>1
<1> QED BY ONLY <1>6, <1>7, <1>8, <1>9 DEF Apart

LEMMA SplitOutside ==
  ASSUME NEW heap, NEW root, NEW height, NEW lv, NEW lo, NEW hi,
         NEW p, NEW i, NEW c, NEW key, NEW heap2, NEW n, NEW lv2, NEW lo2, NEW hi2,
         SplitTo(heap, root, height, lv, lo, hi, p, i, c, key, heap2, n, lv2, lo2, hi2)
  PROVE  Outside(heap2, lv2, lo2, hi2)
<1>1. /\ n \in Nat /\ p \in 1 .. n /\ c \in 1 .. n /\ c # p
      /\ key \in Int /\ lo[c] < key /\ key < hi[c]
      /\ lv2[n + 1] = lv[c] /\ lo2[n + 1] = key /\ hi2[n + 1] = hi[c]
      /\ \A q \in 1 .. n : lv2[q] = lv[q] /\ lo2[q] = lo[q]
      /\ hi2[c] = key
      /\ \A q \in 1 .. n : q # c => hi2[q] = hi[q]
      /\ \A q \in 1 .. n : q # p /\ q # c => heap2[q] = heap[q]
      /\ Len(heap2) = n + 1 /\ heap2 \in Seq(NodeSet)
  BY SplitLevels, SMTT(30)
<1>2. /\ n = Len(heap) /\ Shape(heap, root, height, lv, lo, hi)
      /\ Split(heap, p, i, c, heap2) /\ key = heap[c].items[Mid].key
  BY DEF SplitTo
<1>3. \A x, y \in 1 .. n : x # y /\ lv[x] = lv[y] => hi[x] <= lo[y] \/ hi[y] <= lo[x]
  <2>1. Shape(heap, root, height, lv, lo, hi)  BY ONLY <1>2
  <2>2. \A x, y \in 1 .. Len(heap) :
          x # y /\ lv[x] = lv[y] => hi[x] <= lo[y] \/ hi[y] <= lo[x]
    BY ONLY <2>1 DEF Shape, Apart
  <2> QED BY ONLY <2>2, <1>2
<1>4. \A x \in 1 .. n : /\ lo[x] \in Int /\ hi[x] \in Int /\ lv[x] \in Int
                        /\ \A l \in 1 .. Len(heap[x].items) : heap[x].items[l].key \in Int
  <2>1. \A x \in 1 .. Len(heap) :
          /\ lo[x] \in Int /\ hi[x] \in Int /\ lv[x] \in Int
          /\ \A l \in 1 .. Len(heap[x].items) : heap[x].items[l].key \in Int
    BY ONLY <1>2, NodeTypes
  <2> QED BY ONLY <2>1, <1>2
<1>5. lo[c] \in Int /\ hi[c] \in Int /\ c \in 1 .. n /\ lv[c] \in Int /\ lv[p] \in Int
  BY ONLY <1>1, <1>4
<1>6. \A x, z \in 1 .. n : lv[x] < lv[z] =>
        \A l \in 1 .. Len(heap[z].items) :
          heap[z].items[l].key <= lo[x] \/ hi[x] <= heap[z].items[l].key
  <2>1. Shape(heap, root, height, lv, lo, hi)  BY ONLY <1>2
  <2>2. \A x, z \in 1 .. Len(heap) : lv[x] < lv[z] =>
          \A l \in 1 .. Len(heap[z].items) :
            heap[z].items[l].key <= lo[x] \/ hi[x] <= heap[z].items[l].key
    BY ONLY <2>1 DEF Shape, Outside
  <2> QED BY ONLY <2>2, <1>2
<1>7. lv[c] = lv[p] - 1 /\ Mid \in 1 .. Len(heap[c].items)
  <2>1. lv[c] = lv[p] - 1  BY ONLY <1>2, SplitPlace
  <2>2. Split(heap, p, i, c, heap2)  BY ONLY <1>2
  <2>3. Len(heap[c].items) = MaxItems  BY ONLY <2>2 DEF Split
  <2> QED BY ONLY <2>1, <2>3, MidFacts
<1>8. \A y \in 1 .. n + 1 : \A k \in 1 .. Len(heap2[y].items) :
        \E z \in 1 .. n : \E l \in 1 .. Len(heap[z].items) :
          /\ heap2[y].items[k] = heap[z].items[l]
          /\ lv2[y] = lv[z] \/ (y = p /\ z = c /\ l = Mid)
  BY SplitItems, SMTT(30)
\* An item that a node of before has on a level above.
<1>9. \A x \in 1 .. n + 1 : \A z \in 1 .. n : lv2[x] < lv[z] =>
        \A l \in 1 .. Len(heap[z].items) :
          heap[z].items[l].key <= lo2[x] \/ hi2[x] <= heap[z].items[l].key
  <2> SUFFICES ASSUME NEW x, x \in 1 .. n + 1, NEW z, z \in 1 .. n, lv2[x] < lv[z],
                      NEW l, l \in 1 .. Len(heap[z].items), NEW k, k = heap[z].items[l].key
               PROVE  k <= lo2[x] \/ hi2[x] <= k
    OBVIOUS
  <2>0. n \in Nat /\ key \in Int /\ lo[c] < key /\ key < hi[c]  BY ONLY <1>1
  <2>k. k \in Int
    BY ONLY z \in 1 .. n, l \in 1 .. Len(heap[z].items), k = heap[z].items[l].key, <1>4
  <2>1. CASE x = n + 1
    <3>1. lv[c] < lv[z] /\ lo2[x] = key /\ hi2[x] = hi[c]
      BY ONLY lv2[x] < lv[z], <2>1, <1>1
    <3>2. k <= lo[c] \/ hi[c] <= k
      BY ONLY z \in 1 .. n, l \in 1 .. Len(heap[z].items), k = heap[z].items[l].key,
              <3>1, <1>5, <1>6
    <3> QED BY ONLY <2>0, <2>k, <3>1, <3>2, <1>5
  <2>2. CASE x \in 1 .. n
    <3>1. lv[x] < lv[z] /\ lo2[x] = lo[x] /\ (hi2[x] = hi[x] \/ (x = c /\ hi2[x] = key))
      BY ONLY lv2[x] < lv[z], <2>2, <1>1
    <3>2. k <= lo[x] \/ hi[x] <= k
      BY ONLY z \in 1 .. n, l \in 1 .. Len(heap[z].items), k = heap[z].items[l].key,
              <3>1, <2>2, <1>6
    <3>3. lo[x] \in Int /\ hi[x] \in Int  BY ONLY <2>2, <1>4
    <3>4. hi2[x] \in Int /\ hi2[x] <= hi[x]  BY ONLY <2>0, <3>1, <3>3
    <3> QED BY ONLY <2>k, <3>1, <3>2, <3>3, <3>4
  <2>3. x = n + 1 \/ x \in 1 .. n  BY ONLY <2>0, x \in 1 .. n + 1
  <2> QED BY ONLY <2>1, <2>2, <2>3
\* The item that went up.
<1>10. \A x \in 1 .. n + 1 : lv2[x] < lv[p] => key <= lo2[x] \/ hi2[x] <= key
  <2> SUFFICES ASSUME NEW x, x \in 1 .. n + 1, lv2[x] < lv[p]
               PROVE  key <= lo2[x] \/ hi2[x] <= key
    OBVIOUS
  <2>0. n \in Nat /\ key \in Int /\ lo[c] < key /\ key < hi[c]
        /\ lo2[n + 1] = key /\ hi2[c] = key
    BY ONLY <1>1
  <2>1. CASE x = n + 1  BY ONLY <2>0, <2>1
  <2>2. CASE x = c  BY ONLY <2>0, <2>2
  <2>3. CASE x \in 1 .. n /\ x # c
    <3>1. lv2[x] = lv[x] /\ lo2[x] = lo[x] /\ hi2[x] = hi[x]  BY ONLY <2>3, <1>1
    <3>2. lo[x] \in Int /\ hi[x] \in Int /\ lv[x] \in Int  BY ONLY <2>3, <1>4
    <3>l. lv[x] < lv[p]  BY ONLY lv2[x] < lv[p], <3>1
    <3>3. lv[x] = lv[c] \/ lv[x] < lv[c]
      BY ONLY <3>l, <3>2, <1>5, <1>7
    <3>4. CASE lv[x] = lv[c]
      <4>1. hi[c] <= lo[x] \/ hi[x] <= lo[c]  BY ONLY <2>3, <3>4, <1>3, <1>5
      <4> QED BY ONLY <4>1, <2>0, <3>1, <3>2, <1>5
    <3>5. CASE lv[x] < lv[c]
      <4>1. heap[c].items[Mid].key <= lo[x] \/ hi[x] <= heap[c].items[Mid].key
        BY ONLY <2>3, <3>5, <1>5, <1>6, <1>7
      <4> QED BY ONLY <4>1, <3>1, <1>2
    <3> QED BY ONLY <3>3, <3>4, <3>5
  <2>4. x = n + 1 \/ x \in 1 .. n  BY ONLY <2>0, x \in 1 .. n + 1
  <2> QED BY ONLY <2>1, <2>2, <2>3, <2>4
<1>11. ASSUME NEW x, x \in 1 .. n + 1, NEW y, y \in 1 .. n + 1, lv2[x] < lv2[y],
              NEW k, k \in 1 .. Len(heap2[y].items)
       PROVE  heap2[y].items[k].key <= lo2[x] \/ hi2[x] <= heap2[y].items[k].key
  <2>1. PICK z \in 1 .. n : \E l \in 1 .. Len(heap[z].items) :
          /\ heap2[y].items[k] = heap[z].items[l]
          /\ lv2[y] = lv[z] \/ (y = p /\ z = c /\ l = Mid)
    BY ONLY y \in 1 .. n + 1, k \in 1 .. Len(heap2[y].items), <1>8
  <2>2. PICK l \in 1 .. Len(heap[z].items) :
          /\ heap2[y].items[k] = heap[z].items[l]
          /\ lv2[y] = lv[z] \/ (y = p /\ z = c /\ l = Mid)
    BY ONLY <2>1
  <2>3. CASE lv2[y] = lv[z]
    <3>1. lv2[x] < lv[z]  BY ONLY lv2[x] < lv2[y], <2>3
    <3>2. heap[z].items[l].key <= lo2[x] \/ hi2[x] <= heap[z].items[l].key
      BY ONLY x \in 1 .. n + 1, <3>1, <1>9
    <3> QED BY ONLY <2>2, <3>2
  <2>4. CASE y = p /\ z = c /\ l = Mid
    <3>1. lv2[p] = lv[p]  BY ONLY <1>1
    <3>2. lv2[x] < lv[p]  BY ONLY lv2[x] < lv2[y], <2>4, <3>1
    <3>3. key <= lo2[x] \/ hi2[x] <= key  BY ONLY x \in 1 .. n + 1, <3>2, <1>10
    <3>4. heap2[y].items[k].key = key  BY ONLY <2>2, <2>4, <1>2
    <3> QED BY ONLY <3>3, <3>4
  <2> QED BY ONLY <2>2, <2>3, <2>4
<1>12. Len(heap2) = n + 1  BY ONLY <1>1
<1> QED BY ONLY <1>11, <1>12 DEF Outside

LEMMA SplitLinked ==
  ASSUME NEW heap, NEW root, NEW height, NEW lv, NEW lo, NEW hi,
         NEW p, NEW i, NEW c, NEW key, NEW heap2, NEW n, NEW lv2, NEW lo2, NEW hi2,
         SplitTo(heap, root, height, lv, lo, hi, p, i, c, key, heap2, n, lv2, lo2, hi2)
  PROVE  Linked(heap2, root)
<1>1. /\ n \in Nat /\ p \in 1 .. n /\ c \in 1 .. n /\ c # p
      /\ key \in Int /\ lo[c] < key /\ key < hi[c]
      /\ lv2[n + 1] = lv[c] /\ lo2[n + 1] = key /\ hi2[n + 1] = hi[c]
      /\ \A q \in 1 .. n : lv2[q] = lv[q] /\ lo2[q] = lo[q]
      /\ hi2[c] = key
      /\ \A q \in 1 .. n : q # c => hi2[q] = hi[q]
      /\ \A q \in 1 .. n : q # p /\ q # c => heap2[q] = heap[q]
      /\ Len(heap2) = n + 1 /\ heap2 \in Seq(NodeSet)
  BY SplitLevels, SMTT(30)
<1>2. /\ n = Len(heap) /\ Shape(heap, root, height, lv, lo, hi)
      /\ Split(heap, p, i, c, heap2)
  BY DEF SplitTo
<1> DEFINE r == Len(heap) + 1
<1>r. r = Len(heap) + 1 /\ r = n + 1  BY <1>2
<1> HIDE DEF r
<1>3. /\ heap[c].children # <<>> =>
              /\ Len(heap[c].children) = MaxItems + 1
              /\ Len(heap2[c].children) = Mid
              /\ \A j \in 1 .. Mid : heap2[c].children[j] = heap[c].children[j]
              /\ Len(heap2[r].children) = MaxItems + 1 - Mid
              /\ \A j \in 1 .. MaxItems + 1 - Mid :
                   heap2[r].children[j] = heap[c].children[Mid + j]
      /\ Len(heap2[p].children) = Len(heap[p].children) + 1
      /\ \A j \in 1 .. i : heap2[p].children[j] = heap[p].children[j]
      /\ heap2[p].children[i + 1] = r
      /\ \A j \in i + 1 .. Len(heap[p].children) :
           heap2[p].children[j + 1] = heap[p].children[j]
  <2>1. Shape(heap, root, height, lv, lo, hi) /\ Split(heap, p, i, c, heap2)
    BY ONLY <1>2
  <2>2. r = Len(heap) + 1  BY ONLY <1>r
  <2>3. heap[c].children # <<>> =>
              /\ Len(heap[c].children) = MaxItems + 1
              /\ Len(heap2[c].children) = Mid
              /\ \A j \in 1 .. Mid : heap2[c].children[j] = heap[c].children[j]
              /\ Len(heap2[r].children) = MaxItems + 1 - Mid
              /\ \A j \in 1 .. MaxItems + 1 - Mid :
                   heap2[r].children[j] = heap[c].children[Mid + j]
    BY ONLY <2>1, <2>2, SplitKids
  <2>4. /\ Len(heap2[p].children) = Len(heap[p].children) + 1
        /\ \A j \in 1 .. i : heap2[p].children[j] = heap[p].children[j]
        /\ heap2[p].children[i + 1] = r
        /\ \A j \in i + 1 .. Len(heap[p].children) :
             heap2[p].children[j + 1] = heap[p].children[j]
    BY ONLY <2>1, <2>2, SplitKids
  <2> QED BY ONLY <2>3, <2>4
<1>4. /\ i \in 1 .. Len(heap[p].children) /\ Len(heap[p].children) \in Nat
  <2>1. \A q \in 1 .. Len(heap) : Len(heap[q].children) \in Nat  BY ONLY <1>2, NodeTypes
  <2>2. Split(heap, p, i, c, heap2)  BY ONLY <1>2
  <2>3. i \in 1 .. Len(heap[p].children) /\ p \in 1 .. Len(heap)  BY ONLY <2>2 DEF Split
  <2> QED BY ONLY <2>1, <2>3
<1>n. \A q \in 1 .. n : q \in 1 .. n + 1
  <2>1. n \in Nat  BY ONLY <1>1
  <2> QED BY ONLY <2>1
<1>i. c \in 1 .. n + 1 /\ p \in 1 .. n + 1 /\ r \in 1 .. n + 1
  <2>1. n \in Nat /\ c \in 1 .. n /\ p \in 1 .. n  BY ONLY <1>1
  <2> QED BY ONLY <2>1, <1>r
<1>5. ASSUME NEW y, y \in 1 .. n, NEW j, j \in 1 .. Len(heap[y].children)
      PROVE  \E z \in 1 .. n + 1 : \E k \in 1 .. Len(heap2[z].children) :
               heap2[z].children[k] = heap[y].children[j]
  <2>1. CASE y = c
    <3>0. heap[c].children # <<>>
      <4>1. CASE heap[c].children = <<>>
        <5>1. Len(heap[y].children) = 0  BY ONLY <4>1, <2>1
        <5> QED BY ONLY <5>1, j \in 1 .. Len(heap[y].children)
      <4> QED BY <4>1
    <3>1. j \in 1 .. MaxItems + 1
      BY ONLY j \in 1 .. Len(heap[y].children), <2>1, <3>0, <1>3
    <3>2. CASE j <= Mid
      <4>1. j \in 1 .. Mid  BY ONLY <3>1, <3>2, MidFacts
      <4>2. j \in 1 .. Len(heap2[c].children) /\ heap2[c].children[j] = heap[y].children[j]
        BY ONLY <4>1, <3>0, <2>1, <1>3
      <4> QED BY ONLY <4>2, <1>i
    <3>3. CASE Mid < j
      <4>1. j - Mid \in 1 .. MaxItems + 1 - Mid /\ Mid + (j - Mid) = j
        BY ONLY <3>1, <3>3, MidFacts
      <4>2. heap2[r].children[j - Mid] = heap[c].children[Mid + (j - Mid)]
        BY ONLY <4>1, <3>0, <1>3
      <4>3. /\ j - Mid \in 1 .. Len(heap2[r].children)
            /\ heap2[r].children[j - Mid] = heap[y].children[j]
        BY ONLY <4>1, <4>2, <3>0, <2>1, <1>3
      <4> QED BY ONLY <4>3, <1>i
    <3>4. j <= Mid \/ Mid < j  BY ONLY <3>1, MidFacts
    <3> QED BY ONLY <3>2, <3>3, <3>4
  <2>2. CASE y = p
    <3>0. j \in 1 .. Len(heap[p].children)
      BY ONLY j \in 1 .. Len(heap[y].children), <2>2
    <3>1. CASE j <= i
      <4>1. j \in 1 .. i /\ j \in 1 .. Len(heap[p].children) + 1
        BY ONLY <3>0, <3>1, <1>4
      <4>2. j \in 1 .. Len(heap2[p].children) /\ heap2[p].children[j] = heap[y].children[j]
        BY ONLY <4>1, <2>2, <1>3
      <4> QED BY ONLY <4>2, <1>i
    <3>2. CASE i < j
      <4>1. j \in i + 1 .. Len(heap[p].children)
            /\ j + 1 \in 1 .. Len(heap[p].children) + 1
        BY ONLY <3>0, <3>2, <1>4
      <4>2. /\ j + 1 \in 1 .. Len(heap2[p].children)
            /\ heap2[p].children[j + 1] = heap[y].children[j]
        BY ONLY <4>1, <2>2, <1>3
      <4> QED BY ONLY <4>2, <1>i
    <3>3. j <= i \/ i < j  BY ONLY <3>0, <1>4
    <3> QED BY ONLY <3>1, <3>2, <3>3
  <2>3. CASE y # p /\ y # c
    <3>1. heap2[y] = heap[y]  BY ONLY y \in 1 .. n, <2>3, <1>1
    <3>2. j \in 1 .. Len(heap2[y].children)
      BY ONLY j \in 1 .. Len(heap[y].children), <3>1
    <3> QED BY ONLY y \in 1 .. n, <3>1, <3>2, <1>n
  <2> QED BY ONLY <2>1, <2>2, <2>3
<1>6. ASSUME NEW x, x \in 1 .. n + 1, x # root
      PROVE  \E z \in 1 .. n + 1 : \E k \in 1 .. Len(heap2[z].children) :
               heap2[z].children[k] = x
  <2>1. CASE x = r
    <3>1. i + 1 \in 1 .. Len(heap[p].children) + 1  BY ONLY <1>4
    <3>2. i + 1 \in 1 .. Len(heap2[p].children) /\ heap2[p].children[i + 1] = x
      BY ONLY <3>1, <2>1, <1>3
    <3> QED BY ONLY <3>2, <1>i
  <2>2. CASE x # r
    <3>0. x \in 1 .. n
      <4>1. n \in Nat  BY ONLY <1>1
      <4> QED BY ONLY <4>1, <2>2, <1>r, x \in 1 .. n + 1
    <3>1. Shape(heap, root, height, lv, lo, hi) /\ x \in 1 .. Len(heap)
      BY ONLY <1>2, <3>0
    <3>2. PICK y \in 1 .. Len(heap) :
            \E j \in 1 .. Len(heap[y].children) : heap[y].children[j] = x
      BY ONLY <3>1, x # root DEF Shape, Linked
    <3>3. PICK j \in 1 .. Len(heap[y].children) : heap[y].children[j] = x
      BY ONLY <3>2
    <3>4. y \in 1 .. n  BY ONLY <1>2
    <3>5. \E z \in 1 .. n + 1 : \E k \in 1 .. Len(heap2[z].children) :
            heap2[z].children[k] = heap[y].children[j]
      BY ONLY <3>4, <1>5
    <3> QED BY ONLY <3>3, <3>5
  <2> QED BY ONLY <2>1, <2>2
<1>7. Len(heap2) = n + 1  BY ONLY <1>1
<1> QED BY ONLY <1>6, <1>7 DEF Linked

\* So a split keeps the shape, and the items.
LEMMA SplitShape ==
  ASSUME NEW heap, NEW root, NEW height, NEW lv, NEW lo, NEW hi,
         NEW p, NEW i, NEW c, NEW key, NEW heap2, NEW n, NEW lv2, NEW lo2, NEW hi2,
         SplitTo(heap, root, height, lv, lo, hi, p, i, c, key, heap2, n, lv2, lo2, hi2)
  PROVE  Shape(heap2, root, height, lv2, lo2, hi2)
<1>1. /\ Typed(heap2, root, height, lv2, lo2, hi2)
      /\ Sorted(heap2, lo2, hi2) /\ Linked(heap2, root)
      /\ Apart(heap2, lv2, lo2, hi2) /\ Outside(heap2, lv2, lo2, hi2)
  BY SplitTyped, SplitSorted, SplitLinked, SplitApart, SplitOutside
<1>2. /\ \A q \in 1 .. n : q # p /\ q # c => Branch(heap2, lv2, lo2, hi2, q)
      /\ Branch(heap2, lv2, lo2, hi2, c) /\ Branch(heap2, lv2, lo2, hi2, p)
  BY SplitBranchOther, SplitBranchLeft, SplitBranchParent
<1>3. Branch(heap2, lv2, lo2, hi2, n + 1)  BY SplitBranchRight
<1>4. n \in Nat /\ Len(heap2) = n + 1  BY SplitLevels
<1>5. \A q \in 1 .. n + 1 : q \in 1 .. n \/ q = n + 1  BY ONLY <1>4
<1>6. Branches(heap2, lv2, lo2, hi2)
  BY ONLY <1>2, <1>3, <1>4, <1>5 DEF Branches
<1> QED BY ONLY <1>1, <1>6 DEF Shape

LEMMA SplitKeeps ==
  ASSUME NEW heap, NEW root, NEW height, NEW lv, NEW lo, NEW hi,
         NEW p, NEW i, NEW c, NEW key, NEW heap2, NEW n, NEW lv2, NEW lo2, NEW hi2,
         SplitTo(heap, root, height, lv, lo, hi, p, i, c, key, heap2, n, lv2, lo2, hi2)
  PROVE  AllItems(heap2) = AllItems(heap)
<1>1. /\ \A y \in 1 .. n + 1 : \A k \in 1 .. Len(heap2[y].items) :
           \E z \in 1 .. n : \E l \in 1 .. Len(heap[z].items) :
             /\ heap2[y].items[k] = heap[z].items[l]
             /\ lv2[y] = lv[z] \/ (y = p /\ z = c /\ l = Mid)
      /\ \A z \in 1 .. n : \A l \in 1 .. Len(heap[z].items) :
           \E y \in 1 .. n + 1 : \E k \in 1 .. Len(heap2[y].items) :
             heap2[y].items[k] = heap[z].items[l]
  BY SplitItems
<1>2. Len(heap2) = n + 1 /\ heap2 \in Seq(NodeSet)  BY SplitLevels
<1>3. n = Len(heap) /\ Shape(heap, root, height, lv, lo, hi)  BY DEF SplitTo
<1>4. heap \in Seq(NodeSet)  BY ONLY <1>3, ShapeTypes
<1>5. \A e : e \in AllItems(heap) <=>
        \E z \in 1 .. n : \E l \in 1 .. Len(heap[z].items) : e = heap[z].items[l]
  <2>1. \A e : e \in AllItems(heap) <=>
          \E z \in 1 .. Len(heap) : \E l \in 1 .. Len(heap[z].items) : e = heap[z].items[l]
    BY ONLY <1>4, ItemsIn
  <2> QED BY ONLY <2>1, <1>3
<1>6. \A e : e \in AllItems(heap2) <=>
        \E y \in 1 .. n + 1 : \E k \in 1 .. Len(heap2[y].items) : e = heap2[y].items[k]
  <2>1. \A e : e \in AllItems(heap2) <=>
          \E z \in 1 .. Len(heap2) : \E l \in 1 .. Len(heap2[z].items) : e = heap2[z].items[l]
    BY ONLY <1>2, ItemsIn
  <2> QED BY ONLY <2>1, <1>2
<1>7. ASSUME NEW e \in AllItems(heap2) PROVE e \in AllItems(heap)
  <2>1. PICK y \in 1 .. n + 1 : \E k \in 1 .. Len(heap2[y].items) : e = heap2[y].items[k]
    BY <1>6
  <2>2. PICK k \in 1 .. Len(heap2[y].items) : e = heap2[y].items[k]  BY <2>1
  <2>3. \E z \in 1 .. n : \E l \in 1 .. Len(heap[z].items) :
          heap2[y].items[k] = heap[z].items[l]
    BY ONLY <1>1, y \in 1 .. n + 1, k \in 1 .. Len(heap2[y].items)
  <2> QED BY ONLY <2>2, <2>3, <1>5
<1>8. ASSUME NEW e \in AllItems(heap) PROVE e \in AllItems(heap2)
  <2>1. PICK z \in 1 .. n : \E l \in 1 .. Len(heap[z].items) : e = heap[z].items[l]
    BY <1>5
  <2>2. PICK l \in 1 .. Len(heap[z].items) : e = heap[z].items[l]  BY <2>1
  <2>3. \E y \in 1 .. n + 1 : \E k \in 1 .. Len(heap2[y].items) :
          heap2[y].items[k] = heap[z].items[l]
    BY ONLY <1>1, z \in 1 .. n, l \in 1 .. Len(heap[z].items)
  <2>4. \E y \in 1 .. n + 1 : \E k \in 1 .. Len(heap2[y].items) : e = heap2[y].items[k]
    BY ONLY <2>2, <2>3
  <2> QED BY ONLY <2>4, <1>6
<1> QED BY <1>7, <1>8

\* The sizes, when the node above had room.
LEMMA SplitSizes ==
  ASSUME NEW heap, NEW root, NEW height, NEW lv, NEW lo, NEW hi,
         NEW p, NEW i, NEW c, NEW key, NEW heap2, NEW n, NEW lv2, NEW lo2, NEW hi2,
         SplitTo(heap, root, height, lv, lo, hi, p, i, c, key, heap2, n, lv2, lo2, hi2),
         \A q \in 1 .. n : q # p /\ q # c =>
           Len(heap[q].items) \in (IF q = root THEN 1 ELSE MinItems) .. MaxItems,
         Len(heap[p].items) + 1 \in (IF p = root THEN 1 ELSE MinItems) .. MaxItems
  PROVE  Sizes(heap2, root)
<1>1. /\ n \in Nat
      /\ \A q \in 1 .. n : q # p /\ q # c => heap2[q] = heap[q]
      /\ Len(heap2) = n + 1
  BY SplitLevels
<1>2. /\ n = Len(heap) /\ Shape(heap, root, height, lv, lo, hi)
      /\ Split(heap, p, i, c, heap2) /\ key = heap[c].items[Mid].key
  BY DEF SplitTo
<1> DEFINE r == Len(heap) + 1
<1>r. r = Len(heap) + 1 /\ r = n + 1  BY <1>2
<1> HIDE DEF r
<1>3. Len(heap2[c].items) = Mid - 1  BY ONLY <1>2, SplitLeft
<1>4. Len(heap2[r].items) = MaxItems - Mid  BY ONLY <1>2, <1>r, SplitRight
<1>5. Len(heap2[p].items) = Len(heap[p].items) + 1  BY ONLY <1>2, SplitParent
<1>6. ASSUME NEW q, q \in 1 .. n + 1
      PROVE  Len(heap2[q].items) \in (IF q = root THEN 1 ELSE MinItems) .. MaxItems
  <2>1. CASE q = c \/ q = r
    <3>1. Len(heap2[q].items) = MinItems  BY ONLY <2>1, <1>3, <1>4, MidFacts
    <3>2. MinItems \in Nat /\ MinItems >= 1 /\ MinItems <= MaxItems /\ MaxItems \in Nat
      BY ONLY MidFacts
    <3> QED BY ONLY <3>1, <3>2
  <2>2. CASE q = p  BY <2>2, <1>5
  <2>3. CASE q # c /\ q # r /\ q # p
    <3>1. q \in 1 .. n  BY ONLY <2>3, <1>1, <1>r, q \in 1 .. n + 1
    <3>2. heap2[q] = heap[q]  BY ONLY <3>1, <2>3, <1>1
    <3> QED BY <3>1, <3>2, <2>3
  <2> QED BY ONLY <2>1, <2>2, <2>3
<1> QED BY ONLY <1>1, <1>6 DEF Sizes

-----------------------------------------------------------------------------
(* The path of a call.                                                      *)

OnPath(heap, root, height, lv, lo, hi, key, path) ==
  /\ path \in Seq(1 .. Len(heap)) /\ path # <<>> /\ path[1] = root
  /\ \A j \in 1 .. Len(path) :
       lv[path[j]] = height - j + 1 /\ lo[path[j]] < key /\ key < hi[path[j]]
  /\ \A j \in 1 .. Len(path) - 1 :
       /\ ~Found(heap[path[j]], key)
       /\ path[j + 1] = heap[path[j]].children[Place(heap[path[j]], key)]

LEMMA PathTypes ==
  ASSUME NEW heap, NEW root, NEW height, NEW lv, NEW lo, NEW hi, NEW key, NEW path,
         OnPath(heap, root, height, lv, lo, hi, key, path)
  PROVE  /\ Len(path) \in Nat /\ Len(path) >= 1
         /\ \A j \in 1 .. Len(path) : path[j] \in 1 .. Len(heap)
         /\ Last(path) = path[Len(path)] /\ Last(path) \in 1 .. Len(heap)
<1>1. path \in Seq(1 .. Len(heap)) /\ path # <<>>  BY DEF OnPath
<1>2. Len(path) \in Nat /\ Len(path) >= 1 /\ \A j \in 1 .. Len(path) : path[j] \in 1 .. Len(heap)
  BY ONLY <1>1
<1>3. Last(path) = path[Len(path)]  BY DEF Last
<1>4. Len(path) \in 1 .. Len(path)  BY ONLY <1>2
<1> QED BY ONLY <1>2, <1>3, <1>4

LEMMA PathStarts ==
  ASSUME NEW heap, NEW root, NEW height, NEW lv, NEW lo, NEW hi,
         Shape(heap, root, height, lv, lo, hi), NEW key, key \in 0 .. MaxKey
  PROVE  OnPath(heap, root, height, lv, lo, hi, key, <<root>>)
<1>1. /\ root \in 1 .. Len(heap) /\ lv[root] = height /\ lo[root] = -1
      /\ hi[root] = MaxKey + 1 /\ height \in Nat
  BY DEF Shape, Typed
<1>2. Len(<<root>>) = 1 /\ <<root>>[1] = root /\ <<root>> # <<>>  OBVIOUS
<1>3. <<root>> \in Seq(1 .. Len(heap))  BY ONLY <1>1
<1>4. MaxKey \in Nat  BY BTreeAssumption
<1>5. -1 < key /\ key < MaxKey + 1  BY <1>4
<1>6. height = height - 1 + 1  BY ONLY <1>1
<1> DEFINE path == <<root>>
<1>7. \A j \in 1 .. 1 : j = 1  OBVIOUS
<1>8. \A j \in 1 .. 1 - 1 : FALSE  OBVIOUS
<1> HIDE DEF path
<1>9. Len(path) = 1 /\ path[1] = root /\ path # <<>> /\ path \in Seq(1 .. Len(heap))
  BY ONLY <1>2, <1>3 DEF path
<1>10. \A j \in 1 .. Len(path) :
         lv[path[j]] = height - j + 1 /\ lo[path[j]] < key /\ key < hi[path[j]]
  BY ONLY <1>1, <1>5, <1>6, <1>7, <1>9
<1>11. OnPath(heap, root, height, lv, lo, hi, key, path)
  BY ONLY <1>8, <1>9, <1>10 DEF OnPath
<1> QED BY ONLY <1>11 DEF path

LEMMA FrontOf ==
  ASSUME NEW S, NEW s, s \in Seq(S), s # <<>>
  PROVE  /\ Front(s) \in Seq(S) /\ Len(Front(s)) = Len(s) - 1
         /\ \A j \in 1 .. Len(s) - 1 : Front(s)[j] = s[j]
<1>1. Len(s) \in Nat /\ Len(s) >= 1  OBVIOUS
<1>2. Len(s) - 1 \in 0 .. Len(s) /\ 1 <= (Len(s) - 1) + 1 /\ 1 \in Nat \ {0}  BY ONLY <1>1
<1>3. /\ SubSeq(s, 1, Len(s) - 1) \in Seq(S)
      /\ Len(SubSeq(s, 1, Len(s) - 1)) = (Len(s) - 1) - 1 + 1
      /\ \A j \in 1 .. (Len(s) - 1) - 1 + 1 : SubSeq(s, 1, Len(s) - 1)[j] = s[1 + j - 1]
  BY ONLY s \in Seq(S), <1>2, SubSeqOf
<1>4. (Len(s) - 1) - 1 + 1 = Len(s) - 1  BY ONLY <1>1
<1>5. \A j \in 1 .. Len(s) - 1 : 1 + j - 1 = j  OBVIOUS
<1>6. Front(s) = SubSeq(s, 1, Len(s) - 1)  BY DEF Front
<1>7. ASSUME NEW j, j \in 1 .. Len(s) - 1 PROVE SubSeq(s, 1, Len(s) - 1)[j] = s[j]
  <2>1. SubSeq(s, 1, Len(s) - 1)[j] = s[1 + j - 1]
    BY ONLY j \in 1 .. Len(s) - 1, <1>3, <1>4
  <2>2. 1 + j - 1 = j  BY ONLY j \in 1 .. Len(s) - 1, <1>5
  <2> QED BY ONLY <2>1, <2>2
<1> QED BY ONLY <1>3, <1>4, <1>6, <1>7

LEMMA PathDescends ==
  ASSUME NEW heap, NEW root, NEW height, NEW lv, NEW lo, NEW hi,
         Shape(heap, root, height, lv, lo, hi), NEW key, key \in 0 .. MaxKey, NEW path,
         OnPath(heap, root, height, lv, lo, hi, key, path),
         NEW p, p = Last(path), ~Found(heap[p], key), heap[p].children # <<>>,
         NEW c, c = heap[p].children[Place(heap[p], key)]
  PROVE  /\ Place(heap[p], key) \in 1 .. Len(heap[p].children)
         /\ OnPath(heap, root, height, lv, lo, hi, key, Append(path, c))
<1>1. /\ Len(path) \in Nat /\ Len(path) >= 1
      /\ \A j \in 1 .. Len(path) : path[j] \in 1 .. Len(heap)
      /\ Last(path) = path[Len(path)] /\ Last(path) \in 1 .. Len(heap)
  BY ONLY OnPath(heap, root, height, lv, lo, hi, key, path), PathTypes
<1>2. p \in 1 .. Len(heap) /\ p = path[Len(path)] /\ Len(path) \in 1 .. Len(path)
  BY ONLY <1>1, p = Last(path)
<1>3. /\ path \in Seq(1 .. Len(heap)) /\ path[1] = root
      /\ \A j \in 1 .. Len(path) :
           lv[path[j]] = height - j + 1 /\ lo[path[j]] < key /\ key < hi[path[j]]
      /\ \A j \in 1 .. Len(path) - 1 :
           /\ ~Found(heap[path[j]], key)
           /\ path[j + 1] = heap[path[j]].children[Place(heap[path[j]], key)]
  BY ONLY OnPath(heap, root, height, lv, lo, hi, key, path) DEF OnPath
<1>4. lv[p] = height - Len(path) + 1 /\ lo[p] < key /\ key < hi[p]  BY ONLY <1>2, <1>3
<1> DEFINE i == Place(heap[p], key)
<1>5. /\ i \in 1 .. Len(heap[p].items) + 1
      /\ Low(heap, lo, p, i) < key /\ key < High(heap, hi, p, i)
  BY ONLY Shape(heap, root, height, lv, lo, hi), key \in 0 .. MaxKey,
          ~Found(heap[p], key), <1>2, <1>4, PlaceMissed
<1>i. i = Place(heap[p], key)  OBVIOUS
<1> HIDE DEF i
<1>6. Branch(heap, lv, lo, hi, p)  BY <1>2 DEF Shape, Branches
<1>7. Len(heap[p].children) = Len(heap[p].items) + 1
  BY ONLY <1>6, heap[p].children # <<>> DEF Branch
<1>8. i \in 1 .. Len(heap[p].children)  BY ONLY <1>5, <1>7
<1>9. c = heap[p].children[i]  BY <1>i
<1>10. /\ c \in 1 .. Len(heap) /\ lv[c] = lv[p] - 1
       /\ lo[c] = Low(heap, lo, p, i) /\ hi[c] = High(heap, hi, p, i)
  BY ONLY <1>6, <1>8, <1>9 DEF Branch
<1>11. height \in Int
  <2>1. height \in 1 .. Len(heap)
    BY ONLY Shape(heap, root, height, lv, lo, hi), ShapeTypes
  <2> QED BY ONLY <2>1
<1> DEFINE q == Append(path, c)
<1>12. /\ q \in Seq(1 .. Len(heap)) /\ Len(q) = Len(path) + 1 /\ q[Len(path) + 1] = c
       /\ \A j \in 1 .. Len(path) : q[j] = path[j]
  <2>1. /\ q \in Seq(1 .. Len(heap)) /\ Len(q) = Len(path) + 1
        /\ \A j \in 1 .. Len(path) + 1 : q[j] = IF j <= Len(path) THEN path[j] ELSE c
    BY ONLY <1>3, <1>10, AppendProperties
  <2> HIDE DEF q
  <2>2. Len(path) + 1 \in 1 .. Len(path) + 1 /\ ~(Len(path) + 1 <= Len(path))  BY ONLY <1>1
  <2>3. \A j \in 1 .. Len(path) : j \in 1 .. Len(path) + 1 /\ j <= Len(path)  BY ONLY <1>1
  <2> QED BY ONLY <2>1, <2>2, <2>3
<1> HIDE DEF q
<1>13. q # <<>> /\ q[1] = root
  <2>1. Len(q) # 0  BY ONLY <1>1, <1>12
  <2>2. 1 \in 1 .. Len(path)  BY ONLY <1>1
  <2>3. q # <<>>  BY <2>1
  <2> QED BY ONLY <2>2, <2>3, <1>3, <1>12
<1>14. ASSUME NEW j, j \in 1 .. Len(q)
       PROVE  lv[q[j]] = height - j + 1 /\ lo[q[j]] < key /\ key < hi[q[j]]
  <2>1. CASE j \in 1 .. Len(path)
    <3>1. q[j] = path[j]  BY ONLY <2>1, <1>12
    <3> QED BY ONLY <2>1, <3>1, <1>3
  <2>2. CASE j = Len(path) + 1
    <3>1. q[j] = c  BY ONLY <2>2, <1>12
    <3>2. (height - Len(path) + 1) - 1 = height - j + 1  BY ONLY <2>2, <1>1, <1>11
    <3>3. lv[c] = height - j + 1  BY ONLY <3>2, <1>4, <1>10
    <3> QED BY ONLY <3>1, <3>3, <1>5, <1>10
  <2>3. j \in 1 .. Len(path) \/ j = Len(path) + 1
    <3>1. j \in 1 .. Len(path) + 1  BY ONLY j \in 1 .. Len(q), <1>12
    <3> QED BY ONLY <3>1, <1>1
  <2> QED BY ONLY <2>1, <2>2, <2>3
<1>15. ASSUME NEW j, j \in 1 .. Len(q) - 1
       PROVE  ~Found(heap[q[j]], key) /\ q[j + 1] = heap[q[j]].children[Place(heap[q[j]], key)]
  <2>0. j \in 1 .. Len(path)
    <3>1. Len(q) - 1 = Len(path)  BY ONLY <1>1, <1>12
    <3> QED BY ONLY <3>1, j \in 1 .. Len(q) - 1
  <2>1. CASE j = Len(path)
    <3>1. q[j] = p  BY ONLY <2>0, <2>1, <1>2, <1>12
    <3>2. q[j + 1] = c  BY ONLY <2>1, <1>12
    <3> QED BY ONLY <3>1, <3>2, ~Found(heap[p], key), c = heap[p].children[Place(heap[p], key)]
  <2>2. CASE j # Len(path)
    <3>1. j \in 1 .. Len(path) - 1 /\ j + 1 \in 1 .. Len(path)  BY ONLY <2>0, <2>2, <1>1
    <3>2. q[j] = path[j] /\ q[j + 1] = path[j + 1]  BY ONLY <2>0, <3>1, <1>12
    <3> QED BY ONLY <3>1, <3>2, <1>3
  <2> QED BY ONLY <2>1, <2>2
<1>16. OnPath(heap, root, height, lv, lo, hi, key, q)
  BY ONLY <1>12, <1>13, <1>14, <1>15 DEF OnPath
<1> QED BY <1>8, <1>16 DEF i, q

LEMMA PathBack ==
  ASSUME NEW heap, NEW root, NEW height, NEW lv, NEW lo, NEW hi, NEW key, NEW path,
         OnPath(heap, root, height, lv, lo, hi, key, path), Len(path) > 1
  PROVE  OnPath(heap, root, height, lv, lo, hi, key, Front(path))
<1>1. /\ Len(path) \in Nat /\ Len(path) >= 1
      /\ \A j \in 1 .. Len(path) : path[j] \in 1 .. Len(heap)
  BY ONLY OnPath(heap, root, height, lv, lo, hi, key, path), PathTypes
<1>2. /\ path \in Seq(1 .. Len(heap)) /\ path[1] = root /\ path # <<>>
      /\ \A j \in 1 .. Len(path) :
           lv[path[j]] = height - j + 1 /\ lo[path[j]] < key /\ key < hi[path[j]]
      /\ \A j \in 1 .. Len(path) - 1 :
           /\ ~Found(heap[path[j]], key)
           /\ path[j + 1] = heap[path[j]].children[Place(heap[path[j]], key)]
  BY ONLY OnPath(heap, root, height, lv, lo, hi, key, path) DEF OnPath
<1> DEFINE q == Front(path)
<1>3. /\ q \in Seq(1 .. Len(heap)) /\ Len(q) = Len(path) - 1
      /\ \A j \in 1 .. Len(path) - 1 : q[j] = path[j]
  BY ONLY <1>2, FrontOf
<1> HIDE DEF q
<1>4. q # <<>> /\ q[1] = root
  <2>1. Len(path) \in Nat /\ Len(q) = Len(path) - 1  BY ONLY <1>1, <1>3
  <2>2. \A k \in Nat : k > 1 => 1 \in 1 .. k - 1 /\ k - 1 # 0  OBVIOUS
  <2>3. 1 \in 1 .. Len(path) - 1 /\ Len(q) # 0  BY <2>1, <2>2, Zenon
  <2>4. q # <<>>  BY <2>3
  <2> QED BY ONLY <2>3, <2>4, <1>2, <1>3
<1>5. \A j \in 1 .. Len(q) : j \in 1 .. Len(path) /\ q[j] = path[j]
  BY ONLY <1>1, <1>3
<1>6. \A j \in 1 .. Len(q) - 1 :
        j \in 1 .. Len(path) - 1 /\ j \in 1 .. Len(q) /\ j + 1 \in 1 .. Len(q)
  BY ONLY <1>1, <1>3
<1>7. \A j \in 1 .. Len(q) :
        lv[q[j]] = height - j + 1 /\ lo[q[j]] < key /\ key < hi[q[j]]
  BY ONLY <1>2, <1>5
<1>8. \A j \in 1 .. Len(q) - 1 :
        ~Found(heap[q[j]], key) /\ q[j + 1] = heap[q[j]].children[Place(heap[q[j]], key)]
  BY ONLY <1>2, <1>5, <1>6
<1>9. OnPath(heap, root, height, lv, lo, hi, key, q)
  BY ONLY <1>3, <1>4, <1>7, <1>8 DEF OnPath
<1> QED BY <1>9 DEF q

\* The step from a node to the child a search went on to.
LEMMA PathStep ==
  ASSUME NEW heap, NEW root, NEW height, NEW lv, NEW lo, NEW hi,
         Shape(heap, root, height, lv, lo, hi), NEW key, key \in 0 .. MaxKey, NEW path,
         OnPath(heap, root, height, lv, lo, hi, key, path), Len(path) > 1,
         NEW p, p = Last(Front(path)), NEW c, c = Last(path)
  PROVE  /\ p \in 1 .. Len(heap) /\ c \in 1 .. Len(heap)
         /\ Place(heap[p], key) \in 1 .. Len(heap[p].children)
         /\ c = heap[p].children[Place(heap[p], key)]
<1>1. OnPath(heap, root, height, lv, lo, hi, key, Front(path))
  BY ONLY OnPath(heap, root, height, lv, lo, hi, key, path), Len(path) > 1, PathBack
<1>2. /\ Len(path) \in Nat /\ Last(path) = path[Len(path)] /\ Last(path) \in 1 .. Len(heap)
  BY ONLY OnPath(heap, root, height, lv, lo, hi, key, path), PathTypes
<1>3. /\ Len(Front(path)) \in Nat /\ Len(Front(path)) >= 1
      /\ Last(Front(path)) = Front(path)[Len(Front(path))]
      /\ Last(Front(path)) \in 1 .. Len(heap)
  BY ONLY <1>1, PathTypes
<1>4. /\ path \in Seq(1 .. Len(heap)) /\ path # <<>>
      /\ \A j \in 1 .. Len(path) :
           lv[path[j]] = height - j + 1 /\ lo[path[j]] < key /\ key < hi[path[j]]
      /\ \A j \in 1 .. Len(path) - 1 :
           /\ ~Found(heap[path[j]], key)
           /\ path[j + 1] = heap[path[j]].children[Place(heap[path[j]], key)]
  BY ONLY OnPath(heap, root, height, lv, lo, hi, key, path) DEF OnPath
<1>5. /\ Len(Front(path)) = Len(path) - 1
      /\ \A j \in 1 .. Len(path) - 1 : Front(path)[j] = path[j]
  BY ONLY <1>4, FrontOf
<1>6. /\ Len(path) - 1 \in 1 .. Len(path) - 1 /\ (Len(path) - 1) + 1 = Len(path)
      /\ Len(path) - 1 \in 1 .. Len(path)
  BY ONLY <1>2, <1>3, <1>5
<1>7. p = path[Len(path) - 1]  BY ONLY <1>3, <1>5, <1>6, p = Last(Front(path))
<1>8. ~Found(heap[p], key) /\ c = heap[p].children[Place(heap[p], key)]
  BY ONLY <1>2, <1>4, <1>6, <1>7, c = Last(path)
<1>9. p \in 1 .. Len(heap) /\ c \in 1 .. Len(heap)
  BY ONLY <1>2, <1>3, p = Last(Front(path)), c = Last(path)
<1>10. lo[p] < key /\ key < hi[p]  BY ONLY <1>4, <1>6, <1>7
<1>11. heap[p].children # <<>>
  <2> SUFFICES ASSUME heap[p].children = <<>> PROVE FALSE  OBVIOUS
  <2>1. lv[p] = 1  BY <1>9 DEF Shape, Branches, Branch
  <2>2. lv[p] = height - (Len(path) - 1) + 1 /\ lv[c] = height - Len(path) + 1
    <3>1. Len(path) \in 1 .. Len(path)  BY ONLY <1>2, <1>6
    <3> QED BY ONLY <3>1, <1>2, <1>4, <1>6, <1>7, c = Last(path)
  <2>3. lv[c] \in 1 .. height /\ height \in Nat
    <3>1. \A q \in 1 .. Len(heap) : lv[q] \in 1 .. height
      BY ONLY Shape(heap, root, height, lv, lo, hi), ShapeTypes
    <3>2. height \in 1 .. Len(heap)
      BY ONLY Shape(heap, root, height, lv, lo, hi), ShapeTypes
    <3> QED BY ONLY <3>1, <3>2, <1>9
  <2> QED BY ONLY <2>1, <2>2, <2>3, <1>2
<1>12. Len(heap[p].children) = Len(heap[p].items) + 1
  <2>1. Branch(heap, lv, lo, hi, p)  BY <1>9 DEF Shape, Branches
  <2> QED BY ONLY <2>1, <1>11 DEF Branch
<1>13. Place(heap[p], key) \in 1 .. Len(heap[p].items) + 1
  BY ONLY Shape(heap, root, height, lv, lo, hi), key \in 0 .. MaxKey,
          <1>8, <1>9, <1>10, PlaceMissed
<1> QED BY ONLY <1>8, <1>9, <1>12, <1>13


\* After a split the node above is searched again.
LEMMA PathSplit ==
  ASSUME NEW heap, NEW root, NEW height, NEW lv, NEW lo, NEW hi,
         NEW p, NEW i, NEW c, NEW mid, NEW heap2, NEW n, NEW lv2, NEW lo2, NEW hi2,
         SplitTo(heap, root, height, lv, lo, hi, p, i, c, mid, heap2, n, lv2, lo2, hi2),
         NEW key, NEW path, OnPath(heap, root, height, lv, lo, hi, key, path), Len(path) > 1,
         p = Last(Front(path)), c = Last(path)
  PROVE  OnPath(heap2, root, height, lv2, lo2, hi2, key, Front(path))
<1> DEFINE q == Front(path)
<1>1. OnPath(heap, root, height, lv, lo, hi, key, q)
  BY ONLY OnPath(heap, root, height, lv, lo, hi, key, path), Len(path) > 1, PathBack
<1>2. /\ Len(path) \in Nat /\ Last(path) = path[Len(path)]
      /\ \A j \in 1 .. Len(path) : lv[path[j]] = height - j + 1
      /\ path \in Seq(1 .. Len(heap)) /\ path # <<>>
  <2>1. Len(path) \in Nat /\ Last(path) = path[Len(path)]
    BY ONLY OnPath(heap, root, height, lv, lo, hi, key, path), PathTypes
  <2> QED BY ONLY <2>1, OnPath(heap, root, height, lv, lo, hi, key, path) DEF OnPath
<1>3. Len(q) = Len(path) - 1  BY ONLY <1>2, FrontOf
<1> HIDE DEF q
<1>4. /\ q \in Seq(1 .. Len(heap)) /\ q # <<>> /\ q[1] = root
      /\ \A j \in 1 .. Len(q) :
           lv[q[j]] = height - j + 1 /\ lo[q[j]] < key /\ key < hi[q[j]]
      /\ \A j \in 1 .. Len(q) - 1 :
           /\ ~Found(heap[q[j]], key)
           /\ q[j + 1] = heap[q[j]].children[Place(heap[q[j]], key)]
  BY ONLY <1>1 DEF OnPath
<1>5. /\ Len(q) \in Nat /\ Len(q) >= 1 /\ \A j \in 1 .. Len(q) : q[j] \in 1 .. Len(heap)
  BY ONLY <1>1, PathTypes
<1>6. /\ Shape(heap, root, height, lv, lo, hi) /\ Split(heap, p, i, c, heap2)
      /\ mid = heap[c].items[Mid].key /\ n = Len(heap)
  BY DEF SplitTo
<1>7. lv[c] = lv[p] - 1 /\ p \in 1 .. Len(heap)  BY ONLY <1>6, SplitPlace
<1>8. /\ n \in Nat
      /\ \A x \in 1 .. n : lv2[x] = lv[x] /\ lo2[x] = lo[x]
      /\ \A x \in 1 .. n : x # c => hi2[x] = hi[x]
      /\ \A x \in 1 .. n : x # p /\ x # c => heap2[x] = heap[x]
      /\ Len(heap2) = n + 1
  BY SplitLevels
<1>9. height \in Int /\ lv[p] \in Int
  <2>1. /\ height \in 1 .. Len(heap) /\ \A x \in 1 .. Len(heap) : lv[x] \in 1 .. height
        /\ Len(heap) \in Nat
    BY ONLY <1>6, ShapeTypes
  <2>2. lv[p] \in 1 .. height  BY ONLY <2>1, <1>7
  <2> QED BY ONLY <2>1, <2>2
<1>10. lv[c] = height - Len(path) + 1
  <2>1. Len(path) \in 1 .. Len(path)  BY ONLY <1>2, <1>3, <1>5
  <2> QED BY ONLY <2>1, <1>2, c = Last(path)
<1>11. ASSUME NEW j, j \in 1 .. Len(q) PROVE q[j] \in 1 .. n /\ q[j] # c
  <2>1. q[j] \in 1 .. n  BY ONLY <1>5, <1>6, j \in 1 .. Len(q)
  <2>2. lv[q[j]] = height - j + 1  BY ONLY <1>4, j \in 1 .. Len(q)
  <2>3. height - j + 1 # height - Len(path) + 1
    BY ONLY <1>9, <1>2, <1>3, <1>5, j \in 1 .. Len(q)
  <2> QED BY <2>1, <2>2, <2>3, <1>10
<1>12. ASSUME NEW j, j \in 1 .. Len(q) - 1 PROVE j \in 1 .. Len(q) /\ q[j] # p
  <2>1. j \in 1 .. Len(q)  BY ONLY <1>5, j \in 1 .. Len(q) - 1
  <2>2. lv[q[j]] = height - j + 1  BY ONLY <1>4, <2>1
  <2>3. height - j + 1 # lv[p]
    <3>1. lv[p] = height - Len(path) + 2
      <4>1. \A a, b, k \in Int : a - 1 = b - k + 1 => a = b - k + 2  OBVIOUS
      <4>2. lv[p] - 1 = height - Len(path) + 1  BY ONLY <1>7, <1>10
      <4>3. lv[p] \in Int /\ height \in Int /\ Len(path) \in Int  BY ONLY <1>2, <1>9
      <4> QED BY ONLY <4>1, <4>2, <4>3
    <3>2. j \in Int /\ j < Len(path) - 1  BY ONLY <1>2, <1>3, j \in 1 .. Len(q) - 1
    <3>3. height - j + 1 # height - Len(path) + 2  BY ONLY <3>2, <1>9, <1>2
    <3> QED BY ONLY <3>1, <3>3
  <2> QED BY <2>1, <2>2, <2>3
<1>13. \A j \in 1 .. Len(q) : q[j] \in 1 .. n /\ q[j] # c  BY <1>11
<1>14. \A j \in 1 .. Len(q) - 1 : j \in 1 .. Len(q) /\ q[j] # p  BY <1>12
<1>15. \A j \in 1 .. Len(q) :
         lv2[q[j]] = height - j + 1 /\ lo2[q[j]] < key /\ key < hi2[q[j]]
  BY ONLY <1>4, <1>8, <1>13
<1>16. \A j \in 1 .. Len(q) - 1 :
         /\ ~Found(heap2[q[j]], key)
         /\ q[j + 1] = heap2[q[j]].children[Place(heap2[q[j]], key)]
  <2> SUFFICES ASSUME NEW j, j \in 1 .. Len(q) - 1
               PROVE  /\ ~Found(heap2[q[j]], key)
                      /\ q[j + 1] = heap2[q[j]].children[Place(heap2[q[j]], key)]
    OBVIOUS
  <2>1. heap2[q[j]] = heap[q[j]]
    BY ONLY <1>8, <1>13, <1>14, j \in 1 .. Len(q) - 1
  <2> QED BY ONLY <2>1, <1>4, j \in 1 .. Len(q) - 1
<1>17. q \in Seq(1 .. Len(heap2))
  <2>1. 1 .. Len(heap) \subseteq 1 .. Len(heap2)  BY ONLY <1>6, <1>8
  <2> QED BY ONLY <2>1, <1>4, SeqMonotonic
<1>18. OnPath(heap2, root, height, lv2, lo2, hi2, key, q)
  BY ONLY <1>4, <1>15, <1>16, <1>17 DEF OnPath
<1> QED BY ONLY <1>18 DEF q

-----------------------------------------------------------------------------
(* The operators of the tree do what the lemmas above are about.            *)

LEMMA TwoChanged ==
  ASSUME NEW S, NEW s, s \in Seq(S), NEW c, c \in 1 .. Len(s), NEW p, p \in 1 .. Len(s),
         c # p, NEW a, a \in S, NEW b, b \in S, NEW r, r \in S,
         NEW t, t = Append([[s EXCEPT ![c] = a] EXCEPT ![p] = b], r)
  PROVE  /\ t \in Seq(S) /\ Len(t) = Len(s) + 1
         /\ \A q \in 1 .. Len(s) : q # p /\ q # c => t[q] = s[q]
         /\ t[p] = b /\ t[c] = a /\ t[Len(s) + 1] = r
<1> DEFINE u == [s EXCEPT ![c] = a]
           v == [u EXCEPT ![p] = b]
<1>1. /\ u \in Seq(S) /\ Len(u) = Len(s)
      /\ \A j \in 1 .. Len(s) : u[j] = IF j = c THEN a ELSE s[j]
  BY ONLY s \in Seq(S), c \in 1 .. Len(s), a \in S, ExceptSeq
<1>2. t = Append(v, r)  OBVIOUS
<1> HIDE DEF u
<1>3. /\ v \in Seq(S) /\ Len(v) = Len(u)
      /\ \A j \in 1 .. Len(u) : v[j] = IF j = p THEN b ELSE u[j]
  BY ONLY <1>1, p \in 1 .. Len(s), b \in S, ExceptSeq
<1> HIDE DEF v
<1>4. /\ t \in Seq(S) /\ Len(t) = Len(v) + 1
      /\ \A j \in 1 .. Len(v) : t[j] = v[j]
      /\ t[Len(v) + 1] = r
  BY ONLY <1>2, <1>3, r \in S, AppendProperties
<1>5. \A j \in 1 .. Len(s) : t[j] = IF j = p THEN b ELSE IF j = c THEN a ELSE s[j]
  BY ONLY <1>1, <1>3, <1>4
<1> QED BY ONLY <1>1, <1>3, <1>4, <1>5, c # p, c \in 1 .. Len(s), p \in 1 .. Len(s)

LEMMA PartType ==
  ASSUME NEW s, s \in Seq(Nat), NEW a, a \in Nat \ {0}, NEW b, s # <<>> => b \in 0 .. Len(s),
         s # <<>> => a <= b + 1
  PROVE  Part(s, a, b) \in Seq(Nat)
<1>1. CASE s = <<>>  BY <1>1 DEF Part
<1>2. CASE s # <<>>
  <2>1. SubSeq(s, a, b) \in Seq(Nat)
    BY ONLY s \in Seq(Nat), a \in Nat \ {0}, s # <<>> => b \in 0 .. Len(s),
            s # <<>> => a <= b + 1, <1>2, SubSeqOf
  <2> QED BY <1>2, <2>1 DEF Part
<1> QED BY <1>1, <1>2

LEMMA NodeIs ==
  ASSUME NEW x, x \in Seq(Entry), NEW y, y \in Seq(Nat), NEW m, m = Node(x, y)
  PROVE  m \in NodeSet /\ m.items = x /\ m.children = y
BY DEF Node, NodeSet

LEMMA HalvesAre ==
  ASSUME NEW node, node \in NodeSet, Len(node.items) = MaxItems,
         node.children # <<>> => Len(node.children) = MaxItems + 1
  PROVE  /\ Halves(node).left \in NodeSet /\ Halves(node).right \in NodeSet
         /\ Halves(node).median = node.items[Mid] /\ node.items[Mid] \in Entry
         /\ Halves(node).left.items = SubSeq(node.items, 1, Mid - 1)
         /\ Halves(node).left.children = Part(node.children, 1, Mid)
         /\ Halves(node).right.items = SubSeq(node.items, Mid + 1, MaxItems)
         /\ Halves(node).right.children
              = Part(node.children, Mid + 1, Len(node.children))
<1>1. /\ node.items \in Seq(Entry) /\ Len(node.items) \in Nat
      /\ node.children \in Seq(Nat) /\ Len(node.children) \in Nat
      /\ \A j \in 1 .. Len(node.items) : node.items[j] \in Entry
  BY KeyTypes
<1>2. Mid \in 1 .. MaxItems /\ Mid \in Nat /\ MaxItems \in Nat /\ Mid >= 2 /\ Mid < MaxItems
  BY MidFacts
<1>3. node.items[Mid] \in Entry
  BY ONLY <1>1, <1>2, Len(node.items) = MaxItems
<1>4. SubSeq(node.items, 1, Mid - 1) \in Seq(Entry)
  <2>1. 1 \in Nat \ {0} /\ Mid - 1 \in 0 .. Len(node.items) /\ 1 <= (Mid - 1) + 1
    BY ONLY <1>2, Len(node.items) = MaxItems
  <2> QED BY ONLY <1>1, <2>1, SubSeqOf
<1>5. SubSeq(node.items, Mid + 1, MaxItems) \in Seq(Entry)
  <2>1. Mid + 1 \in Nat \ {0} /\ MaxItems \in 0 .. Len(node.items) /\ Mid + 1 <= MaxItems + 1
    BY ONLY <1>2, Len(node.items) = MaxItems
  <2> QED BY ONLY <1>1, <2>1, SubSeqOf
<1>6. Part(node.children, 1, Mid) \in Seq(Nat)
  <2>1. 1 \in Nat \ {0} /\ 1 <= Mid + 1  BY ONLY <1>2
  <2>2. node.children # <<>> => Mid \in 0 .. Len(node.children)
    BY ONLY <1>2, node.children # <<>> => Len(node.children) = MaxItems + 1
  <2> QED BY ONLY <1>1, <2>1, <2>2, PartType
<1>7. Part(node.children, Mid + 1, Len(node.children)) \in Seq(Nat)
  <2>1. Mid + 1 \in Nat \ {0}  BY ONLY <1>2
  <2>2. node.children # <<>> =>
          Len(node.children) \in 0 .. Len(node.children) /\ Mid + 1 <= Len(node.children) + 1
    BY ONLY <1>1, <1>2, node.children # <<>> => Len(node.children) = MaxItems + 1
  <2> QED BY ONLY <1>1, <2>1, <2>2, PartType
<1>8. /\ Halves(node).left = Node(SubSeq(node.items, 1, Mid - 1), Part(node.children, 1, Mid))
      /\ Halves(node).median = node.items[Mid]
      /\ Halves(node).right
           = Node(SubSeq(node.items, Mid + 1, MaxItems),
                  Part(node.children, Mid + 1, Len(node.children)))
  BY DEF Halves, Mid
<1>10. /\ Halves(node).left \in NodeSet
       /\ Halves(node).left.items = SubSeq(node.items, 1, Mid - 1)
       /\ Halves(node).left.children = Part(node.children, 1, Mid)
  <2> DEFINE x == SubSeq(node.items, 1, Mid - 1)
             y == Part(node.children, 1, Mid)
             m == Halves(node).left
  <2>1. x \in Seq(Entry) /\ y \in Seq(Nat) /\ m = Node(x, y)
    BY ONLY <1>4, <1>6, <1>8
  <2> HIDE DEF x, y, m
  <2>2. m \in NodeSet /\ m.items = x /\ m.children = y  BY ONLY <2>1, NodeIs
  <2> QED BY ONLY <2>2 DEF x, y, m
<1>11. /\ Halves(node).right \in NodeSet
       /\ Halves(node).right.items = SubSeq(node.items, Mid + 1, MaxItems)
       /\ Halves(node).right.children
            = Part(node.children, Mid + 1, Len(node.children))
  <2> DEFINE x == SubSeq(node.items, Mid + 1, MaxItems)
             y == Part(node.children, Mid + 1, Len(node.children))
             m == Halves(node).right
  <2>1. x \in Seq(Entry) /\ y \in Seq(Nat) /\ m = Node(x, y)
    BY ONLY <1>5, <1>7, <1>8
  <2> HIDE DEF x, y, m
  <2>2. m \in NodeSet /\ m.items = x /\ m.children = y  BY ONLY <2>1, NodeIs
  <2> QED BY ONLY <2>2 DEF x, y, m
<1> QED BY <1>3, <1>8, <1>10, <1>11, Zenon

LEMMA SplitDone ==
  ASSUME NEW heap, NEW root, NEW height, NEW lv, NEW lo, NEW hi,
         Shape(heap, root, height, lv, lo, hi),
         NEW p, p \in 1 .. Len(heap), NEW i, i \in 1 .. Len(heap[p].children),
         NEW c, c = heap[p].children[i], Len(heap[c].items) = MaxItems
  PROVE  Split(heap, p, i, c, SplitChild(heap, p, i))
<1>1. c \in 1 .. Len(heap) /\ lv[c] = lv[p] - 1
  BY ONLY Shape(heap, root, height, lv, lo, hi), p \in 1 .. Len(heap),
     i \in 1 .. Len(heap[p].children), c = heap[p].children[i], ChildFacts
<1>2. /\ heap \in Seq(NodeSet) /\ Len(heap) \in Nat
      /\ \A q \in 1 .. Len(heap) : heap[q] \in NodeSet /\ lv[q] \in 1 .. height
      /\ height \in 1 .. Len(heap)
  BY ONLY Shape(heap, root, height, lv, lo, hi), ShapeTypes
<1>3. c # p
  <2>1. lv[p] \in Int  BY ONLY <1>2, p \in 1 .. Len(heap)
  <2>2. lv[p] - 1 # lv[p]  BY ONLY <2>1
  <2> QED BY ONLY <2>2, <1>1
<1>4. heap[c] \in NodeSet /\ heap[p] \in NodeSet  BY ONLY <1>1, <1>2, p \in 1 .. Len(heap)
<1>5. /\ heap[c].children # <<>> => Len(heap[c].children) = MaxItems + 1
      /\ heap[p].children # <<>> => Len(heap[p].children) = Len(heap[p].items) + 1
  <2>1. Branch(heap, lv, lo, hi, c) /\ Branch(heap, lv, lo, hi, p)
    BY ONLY <1>1, Shape(heap, root, height, lv, lo, hi), p \in 1 .. Len(heap)
       DEF Shape, Branches
  <2> QED BY ONLY <2>1, Len(heap[c].items) = MaxItems DEF Branch
<1> DEFINE h == Halves(heap[c])
<1>6. /\ h.left \in NodeSet /\ h.right \in NodeSet
      /\ h.median = heap[c].items[Mid] /\ heap[c].items[Mid] \in Entry
      /\ h.left.items = SubSeq(heap[c].items, 1, Mid - 1)
      /\ h.left.children = Part(heap[c].children, 1, Mid)
      /\ h.right.items = SubSeq(heap[c].items, Mid + 1, MaxItems)
      /\ h.right.children = Part(heap[c].children, Mid + 1, Len(heap[c].children))
  BY ONLY <1>4, <1>5, Len(heap[c].items) = MaxItems, HalvesAre
<1> HIDE DEF h
<1> DEFINE b == WithChild(WithItem(heap[p], i, h.median), i, Len(heap) + 1)
<1>7. /\ heap[p].items \in Seq(Entry) /\ Len(heap[p].items) \in Nat
      /\ heap[p].children \in Seq(Nat) /\ Len(heap[p].children) \in Nat
  BY ONLY <1>4, KeyTypes
<1>8. Len(heap[p].children) = Len(heap[p].items) + 1
  <2>1. heap[p].children # <<>>
    <3> SUFFICES ASSUME heap[p].children = <<>> PROVE FALSE  OBVIOUS
    <3>1. Len(heap[p].children) = 0  OBVIOUS
    <3> QED BY ONLY <3>1, i \in 1 .. Len(heap[p].children)
  <2> QED BY ONLY <2>1, <1>5
<1>9. InsertAt(heap[p].items, i, h.median) \in Seq(Entry)
  <2>1. i \in 1 .. Len(heap[p].items) + 1  BY ONLY <1>7, <1>8, i \in 1 .. Len(heap[p].children)
  <2> QED BY ONLY <2>1, <1>6, <1>7, Inserted
<1>10. InsertAt(heap[p].children, i + 1, Len(heap) + 1) \in Seq(Nat)
  <2>a. i \in Nat /\ i >= 1 /\ i <= Len(heap[p].children)
    BY ONLY <1>7, i \in 1 .. Len(heap[p].children)
  <2>b. \A a, m \in Nat : a >= 1 /\ a <= m => a + 1 \in 1 .. m + 1  OBVIOUS
  <2>c. i + 1 \in 1 .. Len(heap[p].children) + 1  BY <2>a, <2>b, <1>7, Zenon
  <2>d. Len(heap) + 1 \in Nat  BY ONLY <1>2
  <2>1. i + 1 \in 1 .. Len(heap[p].children) + 1 /\ Len(heap) + 1 \in Nat
    BY ONLY <2>c, <2>d
  <2> QED BY ONLY <2>1, <1>7, Inserted
<1>11. /\ b \in NodeSet /\ b.items = InsertAt(heap[p].items, i, heap[c].items[Mid])
       /\ b.children = InsertAt(heap[p].children, i + 1, Len(heap) + 1)
  BY ONLY <1>4, <1>6, <1>9, <1>10 DEF WithChild, WithItem, NodeSet
<1>12. SplitChild(heap, p, i)
         = Append([[heap EXCEPT ![c] = h.left] EXCEPT ![p] = b], h.right)
  <2>1. [heap EXCEPT ![c] = h.left][p] = heap[p]  BY ONLY <1>2, <1>3, p \in 1 .. Len(heap)
  <2> QED BY <2>1 DEF SplitChild, h
<1> HIDE DEF b
<1> DEFINE t == SplitChild(heap, p, i)
<1>13. t = Append([[heap EXCEPT ![c] = h.left] EXCEPT ![p] = b], h.right)  BY ONLY <1>12
<1> HIDE DEF t
<1>14. /\ t \in Seq(NodeSet) /\ Len(t) = Len(heap) + 1
       /\ \A q \in 1 .. Len(heap) : q # p /\ q # c => t[q] = heap[q]
       /\ t[p] = b /\ t[c] = h.left /\ t[Len(heap) + 1] = h.right
  BY ONLY <1>13, <1>1, <1>2, <1>3, <1>6, <1>11, p \in 1 .. Len(heap), TwoChanged
<1>15. Split(heap, p, i, c, t)
  <2>1. /\ t[p].items = InsertAt(heap[p].items, i, heap[c].items[Mid])
        /\ t[p].children = InsertAt(heap[p].children, i + 1, Len(heap) + 1)
    BY <1>11, <1>14, Zenon
  <2>2. /\ t[c].items = SubSeq(heap[c].items, 1, Mid - 1)
        /\ t[c].children = Part(heap[c].children, 1, Mid)
    BY <1>6, <1>14, Zenon
  <2>3. /\ t[Len(heap) + 1].items = SubSeq(heap[c].items, Mid + 1, MaxItems)
        /\ t[Len(heap) + 1].children
             = Part(heap[c].children, Mid + 1, Len(heap[c].children))
    BY <1>6, <1>14, Zenon
  <2> QED BY <1>14, <2>1, <2>2, <2>3, Zenon DEF Split
<1> QED BY ONLY <1>15 DEF t

-----------------------------------------------------------------------------
(* The invariant of the tree and of the call under way.                     *)

Typing ==
  /\ nodes \in Seq(NodeSet)
  /\ tree \in [root : Nat, count : Nat, height : Nat, oom : BOOLEAN]
  /\ call \in [op : {"none", "get", "set"}, entry : Entry, path : Seq(Nat), full : BOOLEAN]
  /\ total \in 0 .. MaxTotal
  /\ phase \in {"adding", "walking", "written", "failed"}
  /\ header \in [keys : Nat, items : Nat]
  /\ ret \in BOOLEAN /\ fault \in BOOLEAN

\* Before the first key.
Bare == nodes = <<>> /\ tree.root = 0 /\ tree.height = 0 /\ call.path = <<>>

\* After it: the tree has its shape, and a call its path.
Stands(lv, lo, hi) ==
  /\ Shape(nodes, tree.root, tree.height, lv, lo, hi)
  /\ Sizes(nodes, tree.root)
  /\ call.op # "none" =>
       OnPath(nodes, tree.root, tree.height, lv, lo, hi, call.entry.key, call.path)

Open == phase \in {"adding", "walking"}

Hangs ==
  Open => /\ live = 1 .. Len(nodes)
          /\ Bare \/ \E lv, lo, hi : Stands(lv, lo, hi)

Calls ==
  /\ call.op = "none" => call = NoCall
  /\ call.op # "none" => /\ phase = "adding" /\ total < MaxTotal
                         /\ \E s \in Spellings : call.entry = NewEntry(s)
  /\ call.op = "set" => ~tree.oom
  /\ call.full => call.op = "set" /\ call.path # <<>> /\ Full(nodes[Here])

Closed == ~Open => tree = EmptyTree /\ live = {} /\ total = 0

TreeInv == Typing /\ Hangs /\ Calls /\ Closed

LEMMA NewEntryIs ==
  ASSUME NEW s, s \in Spellings
  PROVE  /\ NewEntry(s) \in Entry /\ NewEntry(s).key \in 0 .. MaxKey
         /\ NewEntry(s).items = <<s>> /\ Head(NewEntry(s).items) = s
<1>1. Fold[s] \in 0 .. MaxKey  BY KeysAssumption
<1>2. <<s>> \in Seq(Spellings) /\ Head(<<s>>) = s  OBVIOUS
<1> QED BY <1>1, <1>2 DEF NewEntry, Entry

\* Where a call is.
LEMMA CallAt ==
  ASSUME TreeInv, call.op # "none", call.path # <<>>
  PROVE  /\ phase = "adding" /\ Open /\ live = 1 .. Len(nodes)
         /\ \E lv, lo, hi :
              /\ Shape(nodes, tree.root, tree.height, lv, lo, hi)
              /\ Sizes(nodes, tree.root)
              /\ OnPath(nodes, tree.root, tree.height, lv, lo, hi, call.entry.key, call.path)
         /\ call.entry \in Entry /\ call.entry.key \in 0 .. MaxKey
         /\ \E s \in Spellings : call.entry = NewEntry(s)
<1>1. phase = "adding" /\ \E s \in Spellings : call.entry = NewEntry(s)
  BY DEF TreeInv, Calls
<1>2. Open  BY <1>1 DEF Open
<1>3. live = 1 .. Len(nodes) /\ (Bare \/ \E lv, lo, hi : Stands(lv, lo, hi))
  BY <1>2 DEF TreeInv, Hangs
<1>4. PICK lv, lo, hi : Stands(lv, lo, hi)  BY <1>3 DEF Bare
<1>5. \E a, b, c :
        /\ Shape(nodes, tree.root, tree.height, a, b, c)
        /\ Sizes(nodes, tree.root)
        /\ OnPath(nodes, tree.root, tree.height, a, b, c, call.entry.key, call.path)
  BY <1>4, Zenon DEF Stands
<1>6. call.entry \in Entry /\ call.entry.key \in 0 .. MaxKey
  <2>1. PICK s \in Spellings : call.entry = NewEntry(s)  BY <1>1
  <2> QED BY <2>1, NewEntryIs
<1> QED BY <1>1, <1>2, <1>3, <1>5, <1>6, Zenon

\* The tree after a step.
LEMMA StandsThen ==
  ASSUME NEW lv, NEW lo, NEW hi,
         Shape(nodes', tree'.root, tree'.height, lv, lo, hi), Sizes(nodes', tree'.root),
         call'.op = "none" \/
           OnPath(nodes', tree'.root, tree'.height, lv, lo, hi, call'.entry.key, call'.path),
         live' = 1 .. Len(nodes')
  PROVE  Hangs'
<1>1. Stands(lv, lo, hi)'  BY Zenon DEF Stands
<1>2. (\E a, b, c : Stands(a, b, c))'  BY <1>1, Zenon
<1> QED BY <1>2, Zenon DEF Hangs

LEMMA DescendHangs ==
  ASSUME TreeInv, Descend
  PROVE  Hangs' /\ call'.path \in Seq(Nat)
<1>1. /\ call.op # "none" /\ call.path # <<>> /\ ~Held /\ ~Ends
      /\ call' = [call EXCEPT !.path = Append(@, nodes[Here].children[Index(Here)])]
      /\ UNCHANGED <<nodes, live, tree>>
  BY DEF Descend, Searching
<1>2. live = 1 .. Len(nodes) /\ call.entry.key \in 0 .. MaxKey  BY <1>1, CallAt
<1>3. PICK lv, lo, hi :
        /\ Shape(nodes, tree.root, tree.height, lv, lo, hi)
        /\ Sizes(nodes, tree.root)
        /\ OnPath(nodes, tree.root, tree.height, lv, lo, hi, call.entry.key, call.path)
  BY <1>1, CallAt
<1> DEFINE key == call.entry.key
           path == call.path
           p == Here
           c == nodes[p].children[Place(nodes[p], key)]
<1>4. p = Last(path) /\ ~Found(nodes[p], key) /\ nodes[p].children # <<>>
  BY <1>1 DEF Here, Held, Ends, IsLeaf
<1>5. call' = [call EXCEPT !.path = Append(path, c)]  BY <1>1 DEF Index
<1>6. call \in [op : {"none", "get", "set"}, entry : Entry, path : Seq(Nat), full : BOOLEAN]
  BY DEF TreeInv, Typing
<1>7. call'.path = Append(path, c) /\ call'.entry.key = key
  BY ONLY <1>5, <1>6
<1>8. OnPath(nodes, tree.root, tree.height, lv, lo, hi, key, path)  BY <1>3
<1> HIDE DEF key, path, p, c
<1>9. key \in 0 .. MaxKey /\ c = nodes[p].children[Place(nodes[p], key)]
  BY <1>2 DEF key, c
<1>10. OnPath(nodes, tree.root, tree.height, lv, lo, hi, key, Append(path, c))
  BY ONLY <1>3, <1>4, <1>8, <1>9, PathDescends
<1>11. Hangs'  BY <1>1, <1>2, <1>3, <1>7, <1>10, StandsThen
<1>12. Append(path, c) \in Seq(Nat)
  <2>1. Append(path, c) \in Seq(1 .. Len(nodes))  BY ONLY <1>10 DEF OnPath
  <2>2. 1 .. Len(nodes) \subseteq Nat  OBVIOUS
  <2> QED BY ONLY <2>1, <2>2, SeqMonotonic
<1> QED BY ONLY <1>7, <1>11, <1>12

\* A step that leaves the nodes alone.
LEMMA Unmoved ==
  ASSUME TreeInv, Open, UNCHANGED <<nodes, live>>,
         tree'.root = tree.root, tree'.height = tree.height,
         tree.root = 0 => call'.path = <<>>,
         \A lv, lo, hi : Stands(lv, lo, hi) =>
           call'.op = "none" \/
             OnPath(nodes, tree.root, tree.height, lv, lo, hi, call'.entry.key, call'.path)
  PROVE  Hangs'
<1>1. live = 1 .. Len(nodes) /\ (Bare \/ \E lv, lo, hi : Stands(lv, lo, hi))
  BY DEF TreeInv, Hangs
<1>2. live' = 1 .. Len(nodes')  BY <1>1
<1>3. CASE Bare
  <2>1. Bare'  BY <1>3 DEF Bare
  <2> QED BY <1>2, <2>1, Zenon DEF Hangs
<1>4. CASE \E lv, lo, hi : Stands(lv, lo, hi)
  <2>1. PICK lv, lo, hi : Stands(lv, lo, hi)  BY <1>4
  <2>2. Shape(nodes, tree.root, tree.height, lv, lo, hi) /\ Sizes(nodes, tree.root)
    BY <2>1 DEF Stands
  <2>3. Shape(nodes', tree'.root, tree'.height, lv, lo, hi) /\ Sizes(nodes', tree'.root)
    BY <2>2
  <2>4. call'.op = "none" \/
          OnPath(nodes', tree'.root, tree'.height, lv, lo, hi, call'.entry.key, call'.path)
    BY <2>1
  <2> QED BY <1>2, <2>3, <2>4, StandsThen
<1> QED BY <1>1, <1>3, <1>4

\* A search begins.
LEMMA CallBegins ==
  ASSUME TreeInv, Open, UNCHANGED <<nodes, live>>,
         tree'.root = tree.root, tree'.height = tree.height,
         NEW op, op \in {"get", "set"},
         NEW entry, entry \in Entry, entry.key \in 0 .. MaxKey, call' = CallOf(op, entry)
  PROVE  Hangs' /\ call'.path \in Seq(Nat)
<1>1. /\ call'.entry = entry /\ call'.path = IF tree.root = 0 THEN <<>> ELSE <<tree.root>>
  BY DEF CallOf
<1>2. ASSUME NEW lv, NEW lo, NEW hi, Stands(lv, lo, hi)
      PROVE  OnPath(nodes, tree.root, tree.height, lv, lo, hi, call'.entry.key, call'.path)
  <2>1. Shape(nodes, tree.root, tree.height, lv, lo, hi)  BY <1>2 DEF Stands
  <2>2. tree.root \in 1 .. Len(nodes)  BY ONLY <2>1, ShapeTypes
  <2>3. call'.path = <<tree.root>>
    <3>1. tree.root # 0  BY ONLY <2>2
    <3> QED BY <3>1, <1>1
  <2>4. OnPath(nodes, tree.root, tree.height, lv, lo, hi, entry.key, <<tree.root>>)
    BY ONLY <2>1, entry.key \in 0 .. MaxKey, PathStarts
  <2> QED BY <2>3, <2>4, <1>1, Zenon
<1>3. Hangs'  BY <1>1, <1>2, Unmoved
<1>4. call'.path \in Seq(Nat)
  <2>1. tree.root \in Nat  BY DEF TreeInv, Typing
  <2> QED BY <2>1, <1>1
<1> QED BY <1>3, <1>4

LEMMA CallStops ==
  ASSUME TreeInv, Open, UNCHANGED <<nodes, live>>,
         tree'.root = tree.root, tree'.height = tree.height, call' = NoCall
  PROVE  Hangs'
<1>1. call'.op = "none" /\ call'.path = <<>>  BY DEF NoCall
<1> QED BY <1>1, Unmoved

LEMMA LeafMustSplitHangs ==
  ASSUME TreeInv, LeafMustSplit
  PROVE  Hangs' /\ call'.path = call.path
<1>1. /\ call.op = "set" /\ call.path # <<>>
      /\ call' = [call EXCEPT !.full = TRUE]
      /\ UNCHANGED <<nodes, live, tree>>
  BY DEF LeafMustSplit, Searching
<1>2. Open  BY <1>1, CallAt
<1>3. call'.path = call.path /\ call'.entry = call.entry /\ call'.op = call.op
  BY <1>1 DEF TreeInv, Typing
<1>4. tree.root = 0 => call.path = <<>>
  <2>1. PICK lv, lo, hi : Shape(nodes, tree.root, tree.height, lv, lo, hi)
    BY <1>1, CallAt
  <2>2. tree.root \in 1 .. Len(nodes)  BY ONLY <2>1, ShapeTypes
  <2>3. tree.root # 0  BY ONLY <2>2
  <2> QED BY <2>3
<1>5. ASSUME NEW lv, NEW lo, NEW hi, Stands(lv, lo, hi)
      PROVE  OnPath(nodes, tree.root, tree.height, lv, lo, hi, call'.entry.key, call'.path)
  BY <1>1, <1>3, <1>5 DEF Stands
<1> QED BY <1>1, <1>2, <1>3, <1>4, <1>5, Unmoved

LEMMA BranchMustSplitHangs ==
  ASSUME TreeInv, BranchMustSplit
  PROVE  Hangs' /\ call'.path \in Seq(Nat) /\ call'.path # <<>>
         /\ Last(call'.path) = Parent
<1>1. /\ call.full /\ Len(call.path) > 1
      /\ call' = [call EXCEPT !.path = Front(@)]
      /\ UNCHANGED <<nodes, live, tree>>
  BY DEF BranchMustSplit, BelowRoot
<1>2. call.op = "set" /\ call.path # <<>>  BY <1>1 DEF TreeInv, Calls
<1>3. Open  BY <1>2, CallAt
<1>4. call'.path = Front(call.path) /\ call'.entry = call.entry /\ call'.op = call.op
  BY <1>1 DEF TreeInv, Typing
<1>5. PICK lv, lo, hi :
        /\ Shape(nodes, tree.root, tree.height, lv, lo, hi)
        /\ OnPath(nodes, tree.root, tree.height, lv, lo, hi, call.entry.key, call.path)
  BY <1>2, CallAt
<1>6. tree.root # 0
  <2>1. tree.root \in 1 .. Len(nodes)  BY ONLY <1>5, ShapeTypes
  <2> QED BY ONLY <2>1
<1>7. ASSUME NEW a, NEW b, NEW c, Stands(a, b, c)
      PROVE  OnPath(nodes, tree.root, tree.height, a, b, c, call'.entry.key, call'.path)
  <2>1. OnPath(nodes, tree.root, tree.height, a, b, c, call.entry.key, call.path)
    BY <1>2, <1>7 DEF Stands
  <2>2. OnPath(nodes, tree.root, tree.height, a, b, c, call.entry.key, Front(call.path))
    BY ONLY <2>1, <1>1, PathBack
  <2> QED BY <2>2, <1>4, Zenon
<1>8. Hangs'  BY <1>1, <1>3, <1>6, <1>7, Unmoved
<1>9. Front(call.path) \in Seq(Nat) /\ Front(call.path) # <<>>
  <2>1. OnPath(nodes, tree.root, tree.height, lv, lo, hi, call.entry.key, Front(call.path))
    BY ONLY <1>5, <1>1, PathBack
  <2>2. Front(call.path) \in Seq(1 .. Len(nodes)) /\ Front(call.path) # <<>>
    BY ONLY <2>1 DEF OnPath
  <2>3. 1 .. Len(nodes) \subseteq Nat  OBVIOUS
  <2> QED BY ONLY <2>2, <2>3, SeqMonotonic
<1> QED BY <1>4, <1>8, <1>9, Zenon DEF Parent

\* The levels and keys after a split.
LEMMA SplitGives ==
  ASSUME NEW heap, NEW root, NEW height, NEW lv, NEW lo, NEW hi,
         Shape(heap, root, height, lv, lo, hi),
         NEW p, p \in 1 .. Len(heap), NEW i, i \in 1 .. Len(heap[p].children),
         NEW c, c = heap[p].children[i], Len(heap[c].items) = MaxItems
  PROVE  \E mid, n, lv2, lo2, hi2 :
           SplitTo(heap, root, height, lv, lo, hi, p, i, c, mid, SplitChild(heap, p, i),
                   n, lv2, lo2, hi2)
<1> DEFINE mid == heap[c].items[Mid].key
           n == Len(heap)
           lv2 == Extended(lv, n, lv[c])
           lo2 == Extended(lo, n, mid)
           hi2 == Extended([hi EXCEPT ![c] = mid], n, hi[c])
<1>1. Split(heap, p, i, c, SplitChild(heap, p, i))
  BY ONLY Shape(heap, root, height, lv, lo, hi), p \in 1 .. Len(heap),
     i \in 1 .. Len(heap[p].children), c = heap[p].children[i],
     Len(heap[c].items) = MaxItems, SplitDone
<1>2. Moved(n, c, mid, lv, lo, hi, lv2, lo2, hi2)  BY DEF Moved
<1>3. n = Len(heap) /\ mid = heap[c].items[Mid].key  OBVIOUS
<1> HIDE DEF mid, n, lv2, lo2, hi2
<1>4. SplitTo(heap, root, height, lv, lo, hi, p, i, c, mid, SplitChild(heap, p, i),
              n, lv2, lo2, hi2)
  BY <1>1, <1>2, <1>3, Zenon DEF SplitTo
<1> QED BY <1>4, Zenon

LEMMA SplitBelowHangs ==
  ASSUME TreeInv, SplitBelow
  PROVE  /\ Hangs' /\ Entries' = Entries
         /\ call'.path \in Seq(Nat) /\ nodes' \in Seq(NodeSet)
<1>1. /\ call.full /\ Len(call.path) > 1 /\ ~Full(nodes[Parent])
      /\ nodes' = SplitChild(nodes, Parent, Index(Parent))
      /\ live' = live \cup {New}
      /\ call' = [call EXCEPT !.path = Front(@), !.full = FALSE]
      /\ UNCHANGED tree
  BY DEF SplitBelow, BelowRoot
<1>2. call.op = "set" /\ call.path # <<>> /\ Full(nodes[Here])
  BY <1>1 DEF TreeInv, Calls
<1>3. live = 1 .. Len(nodes) /\ call.entry.key \in 0 .. MaxKey  BY <1>2, CallAt
<1>4. PICK lv, lo, hi :
        /\ Shape(nodes, tree.root, tree.height, lv, lo, hi)
        /\ Sizes(nodes, tree.root)
        /\ OnPath(nodes, tree.root, tree.height, lv, lo, hi, call.entry.key, call.path)
  BY <1>2, CallAt
<1> DEFINE key == call.entry.key
           path == call.path
           p == Parent
           c == Here
           i == Place(nodes[p], key)
<1>5. /\ p = Last(Front(path)) /\ c = Last(path)
      /\ Len(nodes[c].items) = MaxItems /\ Len(nodes[p].items) # MaxItems
      /\ nodes' = SplitChild(nodes, p, i)
  BY <1>1, <1>2 DEF Parent, Here, Full, Index
<1>6. call'.path = Front(path) /\ call'.entry.key = key
  BY <1>1 DEF TreeInv, Typing
<1>7. OnPath(nodes, tree.root, tree.height, lv, lo, hi, key, path) /\ Len(path) > 1
      /\ key \in 0 .. MaxKey /\ i = Place(nodes[p], key)
  BY <1>1, <1>3, <1>4
<1> HIDE DEF key, path, p, c, i
<1>8. /\ p \in 1 .. Len(nodes) /\ c \in 1 .. Len(nodes)
      /\ i \in 1 .. Len(nodes[p].children) /\ c = nodes[p].children[i]
  BY ONLY <1>4, <1>5, <1>7, PathStep
<1>9. PICK mid, n, lv2, lo2, hi2 :
        SplitTo(nodes, tree.root, tree.height, lv, lo, hi, p, i, c, mid,
                SplitChild(nodes, p, i), n, lv2, lo2, hi2)
  BY ONLY <1>4, <1>5, <1>8, SplitGives
<1>10. SplitTo(nodes, tree.root, tree.height, lv, lo, hi, p, i, c, mid, nodes',
               n, lv2, lo2, hi2)
  BY <1>5, <1>9, Zenon
<1>11. /\ n \in Nat /\ Len(nodes') = n + 1 /\ nodes' \in Seq(NodeSet) /\ n = Len(nodes)
  <2>1. n \in Nat /\ Len(nodes') = n + 1 /\ nodes' \in Seq(NodeSet)
    BY ONLY <1>10, SplitLevels
  <2>2. n = Len(nodes)  BY ONLY <1>10 DEF SplitTo
  <2> QED BY ONLY <2>1, <2>2
<1>12. Shape(nodes', tree.root, tree.height, lv2, lo2, hi2)  BY ONLY <1>10, SplitShape
<1>13. AllItems(nodes') = AllItems(nodes)  BY ONLY <1>10, SplitKeeps
<1>14. OnPath(nodes', tree.root, tree.height, lv2, lo2, hi2, key, Front(path))
  BY ONLY <1>5, <1>7, <1>10, PathSplit
<1>15. Sizes(nodes', tree.root)
  <2>1. \A q \in 1 .. n : Len(nodes[q].items) \in
                            (IF q = tree.root THEN 1 ELSE MinItems) .. MaxItems
    BY ONLY <1>4, <1>11 DEF Sizes
  <2>2. Len(nodes[p].items) \in (IF p = tree.root THEN 1 ELSE MinItems) .. MaxItems
    BY ONLY <2>1, <1>8, <1>11
  <2>3. Len(nodes[p].items) + 1 \in (IF p = tree.root THEN 1 ELSE MinItems) .. MaxItems
    <3>1. MinItems \in Nat /\ MaxItems \in Nat  BY MidFacts
    <3> QED BY ONLY <3>1, <2>2, <1>5
  <2>4. \A q \in 1 .. n : q # p /\ q # c =>
          Len(nodes[q].items) \in (IF q = tree.root THEN 1 ELSE MinItems) .. MaxItems
    BY ONLY <2>1
  <2> QED BY ONLY <2>3, <2>4, <1>10, SplitSizes
<1>16. live' = 1 .. Len(nodes')
  <2>1. live' = 1 .. n \cup {n + 1}  BY <1>1, <1>3, <1>11, Zenon DEF New
  <2> QED BY ONLY <2>1, <1>11
<1>17. Hangs'
  <2>1. OnPath(nodes', tree'.root, tree'.height, lv2, lo2, hi2, call'.entry.key, call'.path)
    BY <1>1, <1>6, <1>14, Zenon
  <2>2. Shape(nodes', tree'.root, tree'.height, lv2, lo2, hi2) /\ Sizes(nodes', tree'.root)
    BY <1>1, <1>12, <1>15, Zenon
  <2> QED BY <2>1, <2>2, <1>16, StandsThen, Zenon
<1>18. Entries' = Entries
  <2>1. Entries = AllItems(nodes)  BY ONLY <1>4, EntriesAre DEF Entries
  <2>2. EntriesOf(nodes', tree.root) = AllItems(nodes')  BY ONLY <1>12, EntriesAre
  <2>3. Entries' = AllItems(nodes')  BY <2>2, <1>1, Zenon DEF Entries
  <2> QED BY <2>1, <2>3, <1>13, Zenon
<1>19. Front(path) \in Seq(Nat)
  <2>1. Front(path) \in Seq(1 .. Len(nodes'))  BY ONLY <1>14 DEF OnPath
  <2>2. 1 .. Len(nodes') \subseteq Nat  OBVIOUS
  <2> QED BY ONLY <2>1, <2>2, SeqMonotonic
<1> QED BY <1>6, <1>11, <1>17, <1>18, <1>19, Zenon

\* A new root above the old one.
Topped(heap, root) == Append(heap, Node(<<>>, <<root>>))

LEMMA GrownGives ==
  ASSUME NEW heap, NEW root, NEW height, NEW lv, NEW lo, NEW hi,
         Shape(heap, root, height, lv, lo, hi),
         NEW n, n = Len(heap),
         NEW heap2, heap2 = Topped(heap, root)
  PROVE  /\ n \in Nat /\ heap2 \in Seq(NodeSet) /\ Len(heap2) = n + 1
         /\ \A q \in 1 .. n : heap2[q] = heap[q]
         /\ heap2[n + 1].items = <<>> /\ heap2[n + 1].children = <<root>>
         /\ \E lv2, lo2, hi2 : Shape(heap2, n + 1, height + 1, lv2, lo2, hi2)
         /\ AllItems(heap2) = AllItems(heap)
<1> DEFINE m == Node(<<>>, <<root>>)
<1>1. heap \in Seq(NodeSet) /\ Len(heap) \in Nat /\ root \in 1 .. Len(heap)
  BY ONLY Shape(heap, root, height, lv, lo, hi), ShapeTypes
<1>2. m \in NodeSet /\ m.items = <<>> /\ m.children = <<root>>
  <2>1. root \in Nat  BY ONLY <1>1
  <2>2. <<>> \in Seq(Entry) /\ <<root>> \in Seq(Nat)  BY ONLY <2>1
  <2> QED BY ONLY <2>2 DEF Node, NodeSet
<1>3. m = Node(<<>>, <<root>>) /\ heap2 = Append(heap, m)  BY DEF Topped
<1> HIDE DEF m
<1>4. /\ heap2 \in Seq(NodeSet) /\ Len(heap2) = n + 1
      /\ \A q \in 1 .. n : heap2[q] = heap[q]
      /\ heap2[n + 1] = m
  BY ONLY <1>1, <1>2, <1>3, n = Len(heap), AppendProperties
<1>5. heap2[n + 1] = Node(<<>>, <<root>>)  BY ONLY <1>3, <1>4
<1> DEFINE lv2 == Extended(lv, n, height + 1)
           lo2 == Extended(lo, n, -1)
           hi2 == Extended(hi, n, MaxKey + 1)
<1>6. n \in Nat  BY ONLY <1>1, n = Len(heap)
<1>7. /\ lv2 = Extended(lv, n, height + 1) /\ lo2 = Extended(lo, n, -1)
      /\ hi2 = Extended(hi, n, MaxKey + 1)
  OBVIOUS
<1> HIDE DEF lv2, lo2, hi2
<1>8. Shape(heap2, n + 1, height + 1, lv2, lo2, hi2)
  BY ONLY Shape(heap, root, height, lv, lo, hi), <1>4, <1>5, <1>6, <1>7, n = Len(heap),
          GrownShape
<1>9. \A e : e \in AllItems(heap2) <=>
        \E p \in 1 .. n + 1 : \E i \in 1 .. Len(heap2[p].items) : e = heap2[p].items[i]
  <2>1. \A e : e \in AllItems(heap2) <=>
          \E p \in 1 .. Len(heap2) : \E i \in 1 .. Len(heap2[p].items) : e = heap2[p].items[i]
    BY ONLY <1>4, ItemsIn
  <2> QED BY ONLY <2>1, <1>4
<1>10. \A e : e \in AllItems(heap) <=>
         \E p \in 1 .. n : \E i \in 1 .. Len(heap[p].items) : e = heap[p].items[i]
  <2>1. \A e : e \in AllItems(heap) <=>
          \E p \in 1 .. Len(heap) : \E i \in 1 .. Len(heap[p].items) : e = heap[p].items[i]
    BY ONLY <1>1, ItemsIn
  <2> QED BY ONLY <2>1, n = Len(heap)
<1>11. ASSUME NEW e \in AllItems(heap2) PROVE e \in AllItems(heap)
  <2>1. PICK p \in 1 .. n + 1 : \E i \in 1 .. Len(heap2[p].items) : e = heap2[p].items[i]
    BY <1>9
  <2>2. PICK i \in 1 .. Len(heap2[p].items) : e = heap2[p].items[i]  BY <2>1
  <2>3. p # n + 1
    <3> SUFFICES ASSUME p = n + 1 PROVE FALSE  OBVIOUS
    <3>1. heap2[p].items = <<>>  BY <1>2, <1>4
    <3>2. Len(heap2[p].items) = 0  BY ONLY <3>1
    <3> QED BY ONLY <3>2, i \in 1 .. Len(heap2[p].items)
  <2>4. p \in 1 .. n  BY <2>3, <1>6
  <2>5. heap2[p] = heap[p]  BY <2>4, <1>4
  <2> QED BY <2>2, <2>4, <2>5, <1>10
<1>12. ASSUME NEW e \in AllItems(heap) PROVE e \in AllItems(heap2)
  <2>1. PICK p \in 1 .. n : \E i \in 1 .. Len(heap[p].items) : e = heap[p].items[i]
    BY <1>10
  <2>2. heap2[p] = heap[p] /\ p \in 1 .. n + 1  BY <1>4, <1>6
  <2> QED BY <2>1, <2>2, <1>9
<1>13. AllItems(heap2) = AllItems(heap)  BY <1>11, <1>12
<1>14. heap2[n + 1].items = <<>> /\ heap2[n + 1].children = <<root>>
  BY <1>2, <1>4
<1>15. \E a, b, c : Shape(heap2, n + 1, height + 1, a, b, c)  BY <1>8, Zenon
<1> QED BY <1>4, <1>6, <1>13, <1>14, <1>15, Zenon

LEMMA SplitRootHangs ==
  ASSUME TreeInv, SplitRoot
  PROVE  /\ Hangs' /\ Entries' = Entries
         /\ call'.path \in Seq(Nat) /\ nodes' \in Seq(NodeSet) /\ tree'.root \in Nat
<1> DEFINE grown == Append(nodes, Node(<<>>, <<tree.root>>))
           n == Len(nodes)
           r == n + 1
<1>1. /\ call.full /\ ~(Len(call.path) > 1)
      /\ nodes' = SplitChild(grown, r, 1)
      /\ live' = live \cup {r, r + 1}
      /\ tree' = [tree EXCEPT !.root = r, !.height = @ + 1]
      /\ call' = [call EXCEPT !.path = <<r>>, !.full = FALSE]
  BY DEF SplitRoot, BelowRoot, Grown, New
<1>2. call.op = "set" /\ call.path # <<>> /\ Full(nodes[Here])
  BY <1>1 DEF TreeInv, Calls
<1>3. live = 1 .. n /\ call.entry.key \in 0 .. MaxKey  BY <1>2, CallAt
<1>4. PICK lv, lo, hi :
        /\ Shape(nodes, tree.root, tree.height, lv, lo, hi)
        /\ Sizes(nodes, tree.root)
        /\ OnPath(nodes, tree.root, tree.height, lv, lo, hi, call.entry.key, call.path)
  BY <1>2, CallAt
<1> DEFINE root == tree.root
           height == tree.height
           key == call.entry.key
<1>5. Here = root
  <2>1. Len(call.path) \in Nat /\ Len(call.path) >= 1 /\ Last(call.path) = call.path[Len(call.path)]
    BY ONLY <1>4, PathTypes
  <2>a. \A k \in Nat : k >= 1 /\ ~(k > 1) => k = 1  OBVIOUS
  <2>2. Len(call.path) = 1  BY <2>1, <2>a, <1>1, Zenon
  <2>3. call.path[1] = tree.root  BY ONLY <1>4 DEF OnPath
  <2> QED BY <2>1, <2>2, <2>3, Zenon DEF Here
<1>6. Len(nodes[root].items) = MaxItems  BY <1>2, <1>5, Zenon DEF Full
<1>7. /\ tree'.root = r /\ tree'.height = height + 1
      /\ call'.path = <<r>> /\ call'.entry.key = key
  BY <1>1 DEF TreeInv, Typing
<1>8. n = Len(nodes) /\ grown = Topped(nodes, root) /\ r = n + 1  BY DEF Topped
<1>9. Shape(nodes, root, height, lv, lo, hi) /\ Sizes(nodes, root) /\ key \in 0 .. MaxKey
  BY <1>3, <1>4
<1> HIDE DEF grown, n, r, root, height, key
<1>10. /\ n \in Nat /\ grown \in Seq(NodeSet) /\ Len(grown) = n + 1
       /\ \A q \in 1 .. n : grown[q] = nodes[q]
       /\ grown[n + 1].items = <<>> /\ grown[n + 1].children = <<root>>
       /\ \E a, b, c : Shape(grown, n + 1, height + 1, a, b, c)
       /\ AllItems(grown) = AllItems(nodes)
  BY ONLY <1>8, <1>9, GrownGives
<1>11. PICK lv1, lo1, hi1 : Shape(grown, r, height + 1, lv1, lo1, hi1)  BY <1>8, <1>10
<1>12. root \in 1 .. n  BY ONLY <1>8, <1>9, ShapeTypes
<1>13. /\ r \in 1 .. Len(grown) /\ 1 \in 1 .. Len(grown[r].children)
       /\ root = grown[r].children[1] /\ Len(grown[root].items) = MaxItems
  <2>1. r \in 1 .. Len(grown)  BY ONLY <1>8, <1>10
  <2>2. grown[r].children = <<root>>  BY ONLY <1>8, <1>10
  <2>3. 1 \in 1 .. Len(grown[r].children) /\ root = grown[r].children[1]  BY ONLY <2>2
  <2>4. grown[root] = nodes[root]  BY ONLY <1>10, <1>12
  <2>5. Len(grown[root].items) = MaxItems  BY ONLY <2>4, <1>6
  <2> QED BY ONLY <2>1, <2>3, <2>5
<1>14. PICK mid, m, lv2, lo2, hi2 :
         SplitTo(grown, r, height + 1, lv1, lo1, hi1, r, 1, root, mid,
                 SplitChild(grown, r, 1), m, lv2, lo2, hi2)
  BY ONLY <1>11, <1>13, SplitGives
<1>15. SplitTo(grown, r, height + 1, lv1, lo1, hi1, r, 1, root, mid, nodes', m, lv2, lo2, hi2)
  BY <1>1, <1>14, Zenon
<1>16. m \in Nat /\ Len(nodes') = m + 1 /\ nodes' \in Seq(NodeSet)
  BY ONLY <1>15, SplitLevels
<1>17. m = Len(grown)  BY ONLY <1>15 DEF SplitTo
<1>18. Shape(nodes', r, height + 1, lv2, lo2, hi2)  BY ONLY <1>15, SplitShape
<1>19. AllItems(nodes') = AllItems(grown)  BY ONLY <1>15, SplitKeeps
<1>20. Sizes(nodes', r)
  <2>1. \A q \in 1 .. n : Len(nodes[q].items) \in
                            (IF q = root THEN 1 ELSE MinItems) .. MaxItems
    BY ONLY <1>8, <1>9 DEF Sizes
  <2>2. ASSUME NEW q, q \in 1 .. m, q # r, q # root
        PROVE  Len(grown[q].items) \in (IF q = r THEN 1 ELSE MinItems) .. MaxItems
    <3>1. q \in 1 .. n
      BY ONLY q \in 1 .. m, q # r, <1>8, <1>10, <1>17
    <3>2. Len(nodes[q].items) \in MinItems .. MaxItems  BY <3>1, <2>1, <2>2
    <3>3. grown[q] = nodes[q]  BY ONLY <3>1, <1>10
    <3> QED BY <3>2, <3>3, <2>2
  <2>3. Len(grown[r].items) + 1 \in (IF r = r THEN 1 ELSE MinItems) .. MaxItems
    <3>1. grown[r].items = <<>>  BY ONLY <1>8, <1>10
    <3>2. Len(grown[r].items) = 0  BY ONLY <3>1
    <3>3. MaxItems \in Nat /\ MaxItems >= 1  BY MidFacts
    <3> QED BY ONLY <3>2, <3>3
  <2>4. \A q \in 1 .. m : q # r /\ q # root =>
          Len(grown[q].items) \in (IF q = r THEN 1 ELSE MinItems) .. MaxItems
    BY <2>2
  <2> QED BY ONLY <2>3, <2>4, <1>15, SplitSizes
<1>21. live' = 1 .. Len(nodes')
  <2>1. live' = 1 .. n \cup {n + 1, n + 2}
    <3>1. r + 1 = n + 2  BY ONLY <1>8, <1>10
    <3> QED BY <3>1, <1>1, <1>3, <1>8, Zenon
  <2>2. Len(nodes') = n + 2  BY ONLY <1>10, <1>16, <1>17
  <2> QED BY ONLY <2>1, <2>2, <1>10
<1>22. OnPath(nodes', r, height + 1, lv2, lo2, hi2, key, <<r>>)
  BY ONLY <1>9, <1>18, PathStarts
<1>23. Hangs'
  <2>1. OnPath(nodes', tree'.root, tree'.height, lv2, lo2, hi2, call'.entry.key, call'.path)
    BY <1>7, <1>22, Zenon
  <2>2. Shape(nodes', tree'.root, tree'.height, lv2, lo2, hi2) /\ Sizes(nodes', tree'.root)
    BY <1>7, <1>18, <1>20, Zenon
  <2> QED BY <2>1, <2>2, <1>21, StandsThen, Zenon
<1>24. Entries' = Entries
  <2>1. Entries = AllItems(nodes)  BY ONLY <1>4, EntriesAre DEF Entries
  <2>2. EntriesOf(nodes', r) = AllItems(nodes')  BY ONLY <1>18, EntriesAre
  <2>3. Entries' = AllItems(nodes')  BY <2>2, <1>7, Zenon DEF Entries
  <2> QED BY <2>1, <2>3, <1>10, <1>19, Zenon
<1>25. r \in Nat  BY ONLY <1>8, <1>10
<1>26. call'.path \in Seq(Nat)  BY ONLY <1>7, <1>25
<1> QED BY <1>7, <1>16, <1>23, <1>24, <1>25, <1>26, Zenon

-----------------------------------------------------------------------------
(* The entries of a tree that takes an entry, or an item.                   *)

LEMMA KeysDiffer ==
  ASSUME NEW heap, NEW root, NEW height, NEW lv, NEW lo, NEW hi,
         Shape(heap, root, height, lv, lo, hi)
  PROVE  \A x, y \in AllItems(heap) : x.key = y.key => x = y
<1>1. heap \in Seq(NodeSet)
  BY ONLY Shape(heap, root, height, lv, lo, hi), ShapeTypes
<1>2. \A e : e \in AllItems(heap) <=>
        \E p \in 1 .. Len(heap) : \E i \in 1 .. Len(heap[p].items) : e = heap[p].items[i]
  BY ONLY <1>1, ItemsIn
<1> SUFFICES ASSUME NEW x, NEW y, x \in AllItems(heap), y \in AllItems(heap), x.key = y.key
             PROVE  x = y
  OBVIOUS
<1>3. PICK p, i : p \in 1 .. Len(heap) /\ i \in 1 .. Len(heap[p].items) /\ x = heap[p].items[i]
  BY <1>2
<1>4. PICK q, j : q \in 1 .. Len(heap) /\ j \in 1 .. Len(heap[q].items) /\ y = heap[q].items[j]
  BY <1>2
<1>5. heap[p].items[i].key = heap[q].items[j].key  BY <1>3, <1>4
<1>6. p = q /\ i = j
  BY ONLY <1>3, <1>4, <1>5, Shape(heap, root, height, lv, lo, hi), KeyOnce
<1> QED BY <1>3, <1>4, <1>6

LEMMA LeafItems ==
  ASSUME NEW heap, NEW root, NEW height, NEW lv, NEW lo, NEW hi,
         Shape(heap, root, height, lv, lo, hi),
         NEW p, p \in 1 .. Len(heap), lv[p] = 1, NEW e, e \in Entry,
         lo[p] < e.key, e.key < hi[p], ~Found(heap[p], e.key),
         NEW heap2, heap2 \in Seq(NodeSet), Len(heap2) = Len(heap),
         \A q \in 1 .. Len(heap) : q # p => heap2[q] = heap[q],
         heap2[p].items = InsertAt(heap[p].items, Place(heap[p], e.key), e)
  PROVE  /\ AllItems(heap2) = AllItems(heap) \cup {e}
         /\ \A x \in AllItems(heap) : x.key # e.key
         /\ Len(heap2[p].items) = Len(heap[p].items) + 1
<1> DEFINE k == Place(heap[p], e.key)
           n == Len(heap[p].items)
<1>1. heap \in Seq(NodeSet) /\ heap[p] \in NodeSet /\ n \in Nat
  BY ONLY Shape(heap, root, height, lv, lo, hi), p \in 1 .. Len(heap), ShapeTypes
<1>2. heap[p].items \in Seq(Entry)  BY ONLY <1>1, KeyTypes
<1>3. e.key \in 0 .. MaxKey  BY DEF Entry
<1>4. k \in 1 .. n + 1
  BY ONLY Shape(heap, root, height, lv, lo, hi), p \in 1 .. Len(heap), <1>3,
          lo[p] < e.key, e.key < hi[p], ~Found(heap[p], e.key), PlaceMissed
<1>5. heap2[p].items = InsertAt(heap[p].items, k, e) /\ n = Len(heap[p].items)  OBVIOUS
<1> HIDE DEF k, n
<1>a. k \in 1 .. Len(heap[p].items) + 1  BY ONLY <1>4, <1>5
<1>6. /\ InsertAt(heap[p].items, k, e) \in Seq(Entry)
      /\ Len(InsertAt(heap[p].items, k, e)) = Len(heap[p].items) + 1
      /\ \A j \in 1 .. k - 1 : InsertAt(heap[p].items, k, e)[j] = heap[p].items[j]
      /\ InsertAt(heap[p].items, k, e)[k] = e
      /\ \A j \in k .. Len(heap[p].items) :
           InsertAt(heap[p].items, k, e)[j + 1] = heap[p].items[j]
  BY ONLY <1>2, <1>a, e \in Entry, Inserted
<1>7. /\ Len(heap2[p].items) = n + 1
      /\ \A j \in 1 .. k - 1 : heap2[p].items[j] = heap[p].items[j]
      /\ heap2[p].items[k] = e
      /\ \A j \in k .. n : heap2[p].items[j + 1] = heap[p].items[j]
  BY ONLY <1>5, <1>6
<1>8. \A x : x \in AllItems(heap) <=>
        \E q \in 1 .. Len(heap) : \E i \in 1 .. Len(heap[q].items) : x = heap[q].items[i]
  BY ONLY <1>1, ItemsIn
<1>9. \A x : x \in AllItems(heap2) <=>
        \E q \in 1 .. Len(heap) : \E i \in 1 .. Len(heap2[q].items) : x = heap2[q].items[i]
  BY ONLY heap2 \in Seq(NodeSet), Len(heap2) = Len(heap), ItemsIn
<1>10. ASSUME NEW x, x \in AllItems(heap2) PROVE x \in AllItems(heap) \/ x = e
  <2>1. PICK q, i : q \in 1 .. Len(heap) /\ i \in 1 .. Len(heap2[q].items)
                    /\ x = heap2[q].items[i]
    BY <1>9, <1>10
  <2>2. CASE q # p
    <3>1. heap2[q] = heap[q]  BY <2>1, <2>2
    <3> QED BY <2>1, <3>1, <1>8
  <2>3. CASE q = p
    <3>1. i \in 1 .. n + 1 /\ x = heap2[p].items[i]  BY ONLY <2>1, <2>3, <1>7
    <3>2. CASE i = k  BY <3>1, <3>2, <1>7
    <3>3. CASE i < k
      <4>1. i \in 1 .. k - 1 /\ i \in 1 .. n  BY ONLY <3>1, <3>3, <1>1, <1>4
      <4>2. x = heap[p].items[i]  BY ONLY <4>1, <3>1, <1>7
      <4> QED BY <4>1, <4>2, <1>5, <1>8
    <3>4. CASE i > k
      <4> DEFINE j == i - 1
      <4>1. j \in k .. n /\ j + 1 = i /\ j \in 1 .. n
        BY ONLY <3>1, <3>4, <1>1, <1>4
      <4> HIDE DEF j
      <4>2. x = heap[p].items[j]  BY ONLY <4>1, <3>1, <1>7
      <4> QED BY <4>1, <4>2, <1>5, <1>8
    <3>5. i = k \/ i < k \/ i > k  BY ONLY <3>1, <1>1, <1>4
    <3> QED BY ONLY <3>2, <3>3, <3>4, <3>5
  <2> QED BY <2>2, <2>3
<1>11. e \in AllItems(heap2)
  <2>1. k \in 1 .. Len(heap2[p].items)  BY ONLY <1>4, <1>7
  <2> QED BY <2>1, <1>7, <1>9
<1>12. ASSUME NEW x, x \in AllItems(heap) PROVE x \in AllItems(heap2)
  <2>1. PICK q, i : q \in 1 .. Len(heap) /\ i \in 1 .. Len(heap[q].items)
                    /\ x = heap[q].items[i]
    BY <1>8, <1>12, SMTT(30)
  <2>2. CASE q # p
    <3>1. heap2[q] = heap[q]  BY <2>1, <2>2
    <3> QED BY <2>1, <3>1, <1>9
  <2>3. CASE q = p
    <3>1. i \in 1 .. n /\ x = heap[p].items[i]  BY ONLY <2>1, <2>3, <1>5
    <3>2. CASE i < k
      <4>1. i \in 1 .. k - 1 /\ i \in 1 .. Len(heap2[p].items)
        BY ONLY <3>1, <3>2, <1>1, <1>4, <1>7
      <4>2. x = heap2[p].items[i]  BY ONLY <4>1, <3>1, <1>7
      <4> QED BY <4>1, <4>2, <1>9
    <3>3. CASE ~(i < k)
      <4>1. i \in k .. n /\ i + 1 \in 1 .. Len(heap2[p].items)
        BY ONLY <3>1, <3>3, <1>1, <1>4, <1>7
      <4>2. x = heap2[p].items[i + 1]  BY ONLY <4>1, <3>1, <1>7
      <4> QED BY <4>1, <4>2, <1>9
    <3> QED BY ONLY <3>2, <3>3
  <2> QED BY <2>2, <2>3
<1>13. ASSUME NEW x, x \in AllItems(heap) PROVE x.key # e.key
  <2>1. PICK q, i : q \in 1 .. Len(heap) /\ i \in 1 .. Len(heap[q].items)
                    /\ x = heap[q].items[i]
    BY <1>8, <1>13, SMTT(30)
  <2> SUFFICES ASSUME heap[q].items[i].key = e.key PROVE FALSE  BY <2>1
  <2>2. lo[p] < heap[q].items[i].key /\ heap[q].items[i].key < hi[p]
    BY ONLY heap[q].items[i].key = e.key, lo[p] < e.key, e.key < hi[p]
  <2>3. q = p
    BY ONLY <2>1, <2>2, Shape(heap, root, height, lv, lo, hi), p \in 1 .. Len(heap),
            lv[p] = 1, LeafOnly
  <2>4. Found(heap[p], e.key)  BY <2>1, <2>3 DEF Found
  <2> QED BY <2>4
<1>14. AllItems(heap2) = AllItems(heap) \cup {e}  BY <1>10, <1>11, <1>12
<1> QED BY <1>5, <1>7, <1>13, <1>14

EntryPut(heap, p, i, y) == [heap EXCEPT ![p].items[i] = y]

LEMMA EntryGrows ==
  ASSUME NEW heap, NEW root, NEW height, NEW lv, NEW lo, NEW hi,
         Shape(heap, root, height, lv, lo, hi),
         NEW p, p \in 1 .. Len(heap), NEW i, i \in 1 .. Len(heap[p].items),
         NEW x, x = heap[p].items[i], NEW y, y \in Entry, y.key = x.key,
         NEW heap2, heap2 = EntryPut(heap, p, i, y)
  PROVE  /\ heap2 \in Seq(NodeSet) /\ Len(heap2) = Len(heap)
         /\ Shape(heap2, root, height, lv, lo, hi)
         /\ \A q \in 1 .. Len(heap) : Len(heap2[q].items) = Len(heap[q].items)
         /\ x \in AllItems(heap)
         /\ AllItems(heap2) = (AllItems(heap) \ {x}) \cup {y}
<1>1. heap \in Seq(NodeSet) /\ heap[p] \in NodeSet /\ Len(heap) \in Nat
  BY ONLY Shape(heap, root, height, lv, lo, hi), p \in 1 .. Len(heap), ShapeTypes
<1>2. heap[p].items \in Seq(Entry) /\ heap[p].children \in Seq(Nat)
  BY ONLY <1>1, KeyTypes
<1> DEFINE items == [heap[p].items EXCEPT ![i] = y]
           node  == [heap[p] EXCEPT !.items = items]
<1>3. /\ items \in Seq(Entry) /\ Len(items) = Len(heap[p].items)
      /\ \A j \in 1 .. Len(heap[p].items) :
           items[j] = IF j = i THEN y ELSE heap[p].items[j]
  BY ONLY <1>2, i \in 1 .. Len(heap[p].items), y \in Entry, ExceptSeq
<1>4. heap2 = [heap EXCEPT ![p] = node]
  BY <1>1 DEF EntryPut
<1> HIDE DEF items
<1>5. node \in NodeSet /\ node.items = items /\ node.children = heap[p].children
  BY ONLY <1>1, <1>2, <1>3 DEF NodeSet
<1> HIDE DEF node
<1>6. /\ heap2 \in Seq(NodeSet) /\ Len(heap2) = Len(heap)
      /\ \A q \in 1 .. Len(heap) : heap2[q] = IF q = p THEN node ELSE heap[q]
  BY ONLY <1>1, <1>4, <1>5, p \in 1 .. Len(heap), ExceptSeq
<1>7. ASSUME NEW q, q \in 1 .. Len(heap)
      PROVE  /\ heap2[q].children = heap[q].children
             /\ Len(heap2[q].items) = Len(heap[q].items)
             /\ \A j \in 1 .. Len(heap[q].items) :
                  heap2[q].items[j] = IF q = p /\ j = i THEN y ELSE heap[q].items[j]
  <2>1. CASE q = p
    <3>1. heap2[q].items = items /\ heap2[q].children = heap[q].children
      BY <1>5, <1>6, <1>7, <2>1
    <3> QED BY ONLY <3>1, <2>1, <1>3
  <2>2. CASE q # p  BY <1>6, <1>7, <2>2
  <2> QED BY <2>1, <2>2
<1>8. Shape(heap2, root, height, lv, lo, hi)
  <2>1. \A q \in 1 .. Len(heap) :
          /\ heap2[q].children = heap[q].children
          /\ Len(heap2[q].items) = Len(heap[q].items)
          /\ \A j \in 1 .. Len(heap[q].items) : heap2[q].items[j].key = heap[q].items[j].key
    BY <1>7
  <2> QED BY ONLY <2>1, <1>6, Shape(heap, root, height, lv, lo, hi), KeysKept
<1>9. \A e : e \in AllItems(heap) <=>
        \E q \in 1 .. Len(heap) : \E j \in 1 .. Len(heap[q].items) : e = heap[q].items[j]
  BY ONLY <1>1, ItemsIn
<1>10. \A e : e \in AllItems(heap2) <=>
         \E q \in 1 .. Len(heap) : \E j \in 1 .. Len(heap2[q].items) : e = heap2[q].items[j]
  BY ONLY <1>6, ItemsIn
<1>11. x \in AllItems(heap)  BY <1>9
<1>12. y \in AllItems(heap2)
  <2>1. heap2[p].items[i] = y /\ i \in 1 .. Len(heap2[p].items)  BY <1>7
  <2> QED BY <2>1, <1>10
<1>13. ASSUME NEW e, e \in AllItems(heap2) PROVE e = y \/ (e \in AllItems(heap) /\ e # x)
  <2>1. PICK q, j : q \in 1 .. Len(heap) /\ j \in 1 .. Len(heap2[q].items)
                    /\ e = heap2[q].items[j]
    BY <1>10, <1>13
  <2>2. j \in 1 .. Len(heap[q].items)
        /\ e = IF q = p /\ j = i THEN y ELSE heap[q].items[j]
    BY <1>7, <2>1
  <2>3. CASE q = p /\ j = i  BY <2>2, <2>3
  <2>4. CASE ~(q = p /\ j = i)
    <3>1. e = heap[q].items[j]  BY ONLY <2>2, <2>4
    <3>2. e # x
      <4> SUFFICES ASSUME e = x PROVE FALSE  OBVIOUS
      <4>1. heap[p].items[i].key = heap[q].items[j].key  BY <3>1
      <4>2. p = q /\ i = j
        BY ONLY <4>1, <2>1, <2>2, Shape(heap, root, height, lv, lo, hi),
                p \in 1 .. Len(heap), i \in 1 .. Len(heap[p].items), KeyOnce
      <4> QED BY ONLY <4>2, <2>4
    <3> QED BY <2>1, <2>2, <3>1, <3>2, <1>9
  <2> QED BY ONLY <2>3, <2>4
<1>14. ASSUME NEW e, e \in AllItems(heap), e # x PROVE e \in AllItems(heap2)
  <2>1. PICK q, j : q \in 1 .. Len(heap) /\ j \in 1 .. Len(heap[q].items)
                    /\ e = heap[q].items[j]
    BY <1>9, <1>14
  <2>2. ~(q = p /\ j = i)  BY <2>1, <1>14
  <2>3. e = heap2[q].items[j] /\ j \in 1 .. Len(heap2[q].items)  BY <1>7, <2>1, <2>2
  <2> QED BY <2>1, <2>3, <1>10
<1>15. AllItems(heap2) = (AllItems(heap) \ {x}) \cup {y}
  BY <1>12, <1>13, <1>14
<1>16. \A q \in 1 .. Len(heap) : Len(heap2[q].items) = Len(heap[q].items)  BY <1>7
<1> QED BY <1>6, <1>8, <1>11, <1>15, <1>16

\* Keys are their entries' own.
OneEach(entries) == \A x, y \in entries : x.key = y.key => x = y

\* The steps that change the entries: a new key, and an item more.
NewKey(old, new, e) == new = old \cup {e} /\ \A x \in old : x.key # e.key
Longer(old, new, x, s) ==
  x \in old /\ new = (old \ {x}) \cup {[key |-> x.key, items |-> Append(x.items, s)]}

LEMMA FirstRootHangs ==
  ASSUME TreeInv, FirstRoot, call' = NoCall
  PROVE  /\ Hangs' /\ NewKey(Entries, Entries', call.entry)
         /\ nodes' \in Seq(NodeSet) /\ tree'.root \in Nat
<1>1. /\ call.op = "set" /\ call.path = <<>>
      /\ nodes' = Append(nodes, Node(<<call.entry>>, <<>>))
      /\ live' = live \cup {New}
      /\ tree' = [tree EXCEPT !.root = New, !.count = @ + 1, !.height = @ + 1]
  BY DEF FirstRoot
<1>2. phase = "adding" /\ \E s \in Spellings : call.entry = NewEntry(s)
  BY <1>1 DEF TreeInv, Calls
<1>3. live = 1 .. Len(nodes) /\ (Bare \/ \E lv, lo, hi : Stands(lv, lo, hi))
  BY <1>2 DEF TreeInv, Hangs, Open
<1>4. ASSUME NEW lv, NEW lo, NEW hi, Stands(lv, lo, hi) PROVE FALSE
  <2>1. OnPath(nodes, tree.root, tree.height, lv, lo, hi, call.entry.key, call.path)
    BY <1>1, <1>4 DEF Stands
  <2> QED BY ONLY <2>1, <1>1 DEF OnPath
<1>5. Bare  BY <1>3, <1>4
<1>6. nodes = <<>> /\ tree.root = 0 /\ tree.height = 0  BY <1>5 DEF Bare
<1>7. nodes' = <<Node(<<call.entry>>, <<>>)>> /\ New = 1 /\ live' = {1}
  <2>1. Len(nodes) = 0  BY <1>6
  <2>2. New = 1  BY ONLY <2>1 DEF New
  <2>3. live = {}  BY ONLY <2>1, <1>3
  <2> QED BY <1>1, <1>6, <2>2, <2>3
<1>8. tree'.root = 1 /\ tree'.height = 1
  BY <1>1, <1>6, <1>7 DEF TreeInv, Typing
<1> DEFINE e == call.entry
<1>9. e \in Entry
  <2>1. PICK s \in Spellings : e = NewEntry(s)  BY <1>2
  <2> QED BY <2>1, NewEntryIs
<1>10. nodes' = <<Node(<<e>>, <<>>)>>  BY <1>7
<1>11. NewKey(Entries, Entries', e) => NewKey(Entries, Entries', call.entry)  OBVIOUS
<1> HIDE DEF e
<1>12. SoundTree(nodes', 1, 1)
  <2>1. SoundTree(<<Node(<<e>>, <<>>)>>, 1, 1)  BY ONLY <1>9, FirstShape
  <2> QED BY <2>1, <1>10, Zenon
<1>13. PICK lv, lo, hi : Shape(nodes', 1, 1, lv, lo, hi)
  BY <1>12, Zenon DEF SoundTree
<1>14. /\ Len(nodes') = 1 /\ nodes'[1].items = <<e>>
  BY <1>10 DEF Node
<1>15. Sizes(nodes', 1)
  <2>1. Len(nodes'[1].items) = 1  BY <1>14
  <2>2. MaxItems \in Nat /\ MaxItems >= 1  BY MidFacts
  <2>3. Len(nodes'[1].items) \in 1 .. MaxItems  BY ONLY <2>1, <2>2
  <2>4. \A p \in 1 .. Len(nodes') : p = 1  BY ONLY <1>14
  <2> QED BY <2>3, <2>4 DEF Sizes
<1>16. live' = 1 .. Len(nodes')  BY ONLY <1>7, <1>14
<1>17. Hangs'
  <2>1. call'.op = "none"  BY DEF NoCall
  <2>2. Shape(nodes', tree'.root, tree'.height, lv, lo, hi) /\ Sizes(nodes', tree'.root)
    BY <1>8, <1>13, <1>15, Zenon
  <2> QED BY <2>1, <2>2, <1>16, StandsThen, Zenon
<1>18. nodes' \in Seq(NodeSet)  BY ONLY <1>13, ShapeTypes
<1>19. Entries' = {e}
  <2>1. EntriesOf(nodes', 1) = AllItems(nodes')  BY ONLY <1>13, EntriesAre
  <2>2. Entries' = AllItems(nodes')  BY <2>1, <1>8, Zenon DEF Entries
  <2>3. \A x : x \in AllItems(nodes') <=>
          \E p \in 1 .. Len(nodes') : \E i \in 1 .. Len(nodes'[p].items) :
            x = nodes'[p].items[i]
    BY ONLY <1>18, ItemsIn
  <2>4. Len(<<e>>) = 1 /\ <<e>>[1] = e  OBVIOUS
  <2>5. 1 \in 1 .. Len(nodes') /\ 1 \in 1 .. Len(nodes'[1].items) /\ nodes'[1].items[1] = e
    BY ONLY <1>14, <2>4
  <2>6. \A p \in 1 .. Len(nodes') : p = 1  BY ONLY <1>14
  <2>7. \A i \in 1 .. Len(nodes'[1].items) : nodes'[1].items[i] = e  BY ONLY <1>14, <2>4
  <2>8. \A x : x \in AllItems(nodes') <=> x = e  BY ONLY <2>3, <2>5, <2>6, <2>7
  <2> QED BY ONLY <2>2, <2>8
<1>20. Entries = {}
  <2>1. Len(nodes) \in Nat  BY <1>6
  <2>2. EntriesOf(nodes, 0) = {}  BY ONLY <2>1, NoneReached
  <2> QED BY <2>2, <1>6, Zenon DEF Entries
<1>21. NewKey(Entries, Entries', e)  BY ONLY <1>19, <1>20 DEF NewKey
<1> QED BY <1>8, <1>11, <1>17, <1>18, <1>21

Takes(heap, lv, lo, hi, p, e, heap2) ==
  /\ p \in 1 .. Len(heap) /\ lv[p] = 1 /\ e \in Entry
  /\ lo[p] < e.key /\ e.key < hi[p] /\ ~Found(heap[p], e.key)
  /\ heap2 \in Seq(NodeSet) /\ Len(heap2) = Len(heap)
  /\ \A q \in 1 .. Len(heap) : q # p => heap2[q] = heap[q]
  /\ heap2[p].children = heap[p].children
  /\ heap2[p].items = InsertAt(heap[p].items, Place(heap[p], e.key), e)

LEMMA TakesGives ==
  ASSUME NEW heap, NEW root, NEW height, NEW lv, NEW lo, NEW hi,
         Shape(heap, root, height, lv, lo, hi),
         NEW p, NEW e, NEW heap2, Takes(heap, lv, lo, hi, p, e, heap2)
  PROVE  /\ Shape(heap2, root, height, lv, lo, hi)
         /\ AllItems(heap2) = AllItems(heap) \cup {e}
         /\ \A x \in AllItems(heap) : x.key # e.key
<1>1. /\ p \in 1 .. Len(heap) /\ lv[p] = 1 /\ e \in Entry
      /\ lo[p] < e.key /\ e.key < hi[p] /\ ~Found(heap[p], e.key)
      /\ heap2 \in Seq(NodeSet) /\ Len(heap2) = Len(heap)
      /\ \A q \in 1 .. Len(heap) : q # p => heap2[q] = heap[q]
      /\ heap2[p].children = heap[p].children
      /\ heap2[p].items = InsertAt(heap[p].items, Place(heap[p], e.key), e)
  BY DEF Takes
<1>2. Shape(heap2, root, height, lv, lo, hi)
  BY ONLY <1>1, Shape(heap, root, height, lv, lo, hi), LeafTakes
<1>3. /\ AllItems(heap2) = AllItems(heap) \cup {e}
      /\ \A x \in AllItems(heap) : x.key # e.key
      /\ Len(heap2[p].items) = Len(heap[p].items) + 1
  BY ONLY <1>1, Shape(heap, root, height, lv, lo, hi), LeafItems
<1> QED BY <1>2, <1>3

LEMMA InsertHangs ==
  ASSUME TreeInv, InsertIntoLeaf, call' = NoCall
  PROVE  /\ Hangs' /\ NewKey(Entries, Entries', call.entry)
         /\ nodes' \in Seq(NodeSet)
<1>1. /\ call.op = "set" /\ call.path # <<>> /\ ~Held /\ Ends /\ ~Full(nodes[Here])
      /\ nodes' = [nodes EXCEPT ![Here] = WithItem(@, Index(Here), call.entry)]
      /\ tree' = [tree EXCEPT !.count = @ + 1]
      /\ UNCHANGED live
  BY DEF InsertIntoLeaf, Searching
<1>2. call.op # "none"  BY <1>1
<1>3. /\ live = 1 .. Len(nodes) /\ call.entry \in Entry /\ call.entry.key \in 0 .. MaxKey
  BY <1>1, <1>2, CallAt
<1>4. PICK lv, lo, hi :
        /\ Shape(nodes, tree.root, tree.height, lv, lo, hi)
        /\ Sizes(nodes, tree.root)
        /\ OnPath(nodes, tree.root, tree.height, lv, lo, hi, call.entry.key, call.path)
  BY <1>1, <1>2, CallAt
<1> DEFINE e == call.entry
           p == Here
           root == tree.root
           height == tree.height
           n == Len(nodes)
<1>5. tree'.root = root /\ tree'.height = height  BY <1>1 DEF TreeInv, Typing
<1>6. /\ p = Last(call.path) /\ ~Found(nodes[p], e.key) /\ nodes[p].children = <<>>
      /\ Len(nodes[p].items) # MaxItems
      /\ nodes' = [nodes EXCEPT ![p] = WithItem(@, Place(nodes[p], e.key), e)]
  BY <1>1 DEF Here, Held, Ends, IsLeaf, Full, Index
<1>7. /\ e \in Entry /\ e.key \in 0 .. MaxKey
      /\ Shape(nodes, root, height, lv, lo, hi) /\ Sizes(nodes, root)
      /\ OnPath(nodes, root, height, lv, lo, hi, e.key, call.path)
      /\ live' = 1 .. n /\ n = Len(nodes)
  BY <1>1, <1>3, <1>4
<1>8. NewKey(Entries, Entries', e) => NewKey(Entries, Entries', call.entry)  OBVIOUS
<1> HIDE DEF e, p, root, height, n
<1>9. p \in 1 .. n /\ lo[p] < e.key /\ e.key < hi[p]
  <2>1. /\ Len(call.path) \in Nat /\ Len(call.path) >= 1
        /\ \A j \in 1 .. Len(call.path) : call.path[j] \in 1 .. Len(nodes)
        /\ Last(call.path) = call.path[Len(call.path)] /\ Last(call.path) \in 1 .. Len(nodes)
    BY ONLY <1>7, PathTypes
  <2>2. Len(call.path) \in 1 .. Len(call.path)  BY ONLY <2>1
  <2>3. \A j \in 1 .. Len(call.path) : lo[call.path[j]] < e.key /\ e.key < hi[call.path[j]]
    BY ONLY <1>7 DEF OnPath
  <2> QED BY ONLY <2>1, <2>2, <2>3, <1>6, <1>7
<1>10. /\ nodes \in Seq(NodeSet) /\ n \in Nat /\ nodes[p] \in NodeSet
       /\ nodes[p].items \in Seq(Entry) /\ Len(nodes[p].items) \in Nat
  <2>1. nodes \in Seq(NodeSet) /\ n \in Nat /\ nodes[p] \in NodeSet
    BY ONLY <1>7, <1>9, ShapeTypes
  <2> QED BY ONLY <2>1, KeyTypes
<1>11. lv[p] = 1
  <2>1. Branch(nodes, lv, lo, hi, p)  BY ONLY <1>7, <1>9 DEF Shape, Branches
  <2> QED BY ONLY <2>1, <1>6 DEF Branch
<1> DEFINE k == Place(nodes[p], e.key)
           items == InsertAt(nodes[p].items, k, e)
           node == [nodes[p] EXCEPT !.items = items]
<1>12. k \in 1 .. Len(nodes[p].items) + 1
  BY ONLY <1>6, <1>7, <1>9, PlaceMissed
<1> HIDE DEF k
<1>13. items \in Seq(Entry) /\ Len(items) = Len(nodes[p].items) + 1
  BY ONLY <1>7, <1>10, <1>12, Inserted
<1>14. nodes' = [nodes EXCEPT ![p] = node]
  BY ONLY <1>6, <1>10 DEF WithItem, k
<1> HIDE DEF items
<1>15. node \in NodeSet /\ node.items = items /\ node.children = nodes[p].children
  BY ONLY <1>10, <1>13 DEF NodeSet
<1> HIDE DEF node
<1>16. /\ nodes' \in Seq(NodeSet) /\ Len(nodes') = n
       /\ \A q \in 1 .. n : nodes'[q] = IF q = p THEN node ELSE nodes[q]
  BY ONLY <1>7, <1>9, <1>10, <1>14, <1>15, ExceptSeq
<1>17. /\ \A q \in 1 .. Len(nodes) : q # p => nodes'[q] = nodes[q]
       /\ nodes'[p].items = InsertAt(nodes[p].items, Place(nodes[p], e.key), e)
       /\ nodes'[p].children = nodes[p].children
       /\ Len(nodes'[p].items) = Len(nodes[p].items) + 1
       /\ p \in 1 .. Len(nodes) /\ Len(nodes') = Len(nodes)
  BY <1>7, <1>9, <1>13, <1>15, <1>16, Zenon DEF items, k
<1>18. Takes(nodes, lv, lo, hi, p, e, nodes')
  BY <1>6, <1>7, <1>9, <1>11, <1>16, <1>17, Zenon DEF Takes
<1>19. /\ Shape(nodes', root, height, lv, lo, hi)
       /\ AllItems(nodes') = AllItems(nodes) \cup {e}
       /\ \A x \in AllItems(nodes) : x.key # e.key
  BY ONLY <1>7, <1>18, TakesGives
<1>20. Sizes(nodes', root)
  <2>1. \A q \in 1 .. n : Len(nodes[q].items) \in (IF q = root THEN 1 ELSE MinItems) .. MaxItems
    BY ONLY <1>7 DEF Sizes
  <2>2. Len(nodes[p].items) + 1 \in (IF p = root THEN 1 ELSE MinItems) .. MaxItems
    <3>1. MinItems \in Nat /\ MaxItems \in Nat  BY MidFacts
    <3>2. Len(nodes[p].items) \in (IF p = root THEN 1 ELSE MinItems) .. MaxItems
      BY ONLY <2>1, <1>9
    <3> QED BY ONLY <3>1, <3>2, <1>6
  <2>3. ASSUME NEW q, q \in 1 .. n
        PROVE  Len(nodes'[q].items) \in (IF q = root THEN 1 ELSE MinItems) .. MaxItems
    <3>1. CASE q = p  BY <3>1, <2>2, <1>17
    <3>2. CASE q # p
      <4>1. nodes'[q] = nodes[q]  BY <3>2, <2>3, <1>16
      <4> QED BY <4>1, <2>1, <2>3
    <3> QED BY <3>1, <3>2
  <2> QED BY <2>3, <1>16 DEF Sizes
<1>21. Hangs'
  <2>1. call'.op = "none"  BY DEF NoCall
  <2>2. Shape(nodes', tree'.root, tree'.height, lv, lo, hi) /\ Sizes(nodes', tree'.root)
    BY <1>5, <1>19, <1>20, Zenon
  <2>3. live' = 1 .. Len(nodes')  BY <1>7, <1>16, Zenon
  <2> QED BY <2>1, <2>2, <2>3, StandsThen, Zenon
<1>22. NewKey(Entries, Entries', e)
  <2>1. Entries = AllItems(nodes)  BY ONLY <1>4, EntriesAre DEF Entries
  <2>2. EntriesOf(nodes', root) = AllItems(nodes')  BY ONLY <1>19, EntriesAre
  <2>3. Entries' = AllItems(nodes')  BY <2>2, <1>5, Zenon DEF Entries
  <2> QED BY <2>1, <2>3, <1>19, Zenon DEF NewKey
<1> QED BY <1>8, <1>16, <1>21, <1>22

LEMMA AddToEntryHangs ==
  ASSUME TreeInv, AddToEntry
  PROVE  /\ Hangs' /\ nodes' \in Seq(NodeSet)
         /\ \E x \in Entries, s \in Spellings :
              /\ Longer(Entries, Entries', x, s)
              /\ call.entry = NewEntry(s) /\ x.key = Fold[s] /\ x \in Entry
<1>1. /\ call.op = "get" /\ call.path # <<>> /\ Held
      /\ nodes' = [nodes EXCEPT ![Here].items[Index(Here)].items = Append(@, Added)]
      /\ UNCHANGED <<live, tree>> /\ call' = NoCall
  BY DEF AddToEntry, GetFinds, Searching, Return
<1>2. call.op # "none"  BY <1>1
<1>3. live = 1 .. Len(nodes) /\ call.entry.key \in 0 .. MaxKey  BY <1>1, <1>2, CallAt
<1>4. PICK s \in Spellings : call.entry = NewEntry(s)  BY <1>1, <1>2, CallAt
<1>5. Added = s /\ call.entry.key = Fold[s]
  BY <1>4, NewEntryIs DEF Added, NewEntry
<1>6. PICK lv, lo, hi :
        /\ Shape(nodes, tree.root, tree.height, lv, lo, hi)
        /\ Sizes(nodes, tree.root)
        /\ OnPath(nodes, tree.root, tree.height, lv, lo, hi, call.entry.key, call.path)
  BY <1>1, <1>2, CallAt
<1> DEFINE p == Here
           key == call.entry.key
           i == Place(nodes[p], key)
           x == nodes[p].items[i]
           y == [key |-> x.key, items |-> Append(x.items, s)]
<1>7. p \in 1 .. Len(nodes)
  <2>1. Last(call.path) \in 1 .. Len(nodes)  BY ONLY <1>6, PathTypes
  <2> QED BY <2>1 DEF Here
<1>8. nodes \in Seq(NodeSet) /\ nodes[p] \in NodeSet  BY ONLY <1>6, <1>7, ShapeTypes
<1>9. i \in 1 .. Len(nodes[p].items) /\ nodes[p].items[i].key = key
  <2>1. Ascend(nodes[p])  BY <1>6, <1>7 DEF Shape, Sorted
  <2>2. Found(nodes[p], key)  BY <1>1 DEF Held
  <2>3. key \in Int  BY <1>3, KeyIsInt
  <2> QED BY ONLY <1>8, <2>1, <2>2, <2>3, PlaceFound
<1>10. x \in Entry /\ x.key = key  BY <1>8, <1>9, KeyTypes
<1>11. y \in Entry /\ y.key = x.key
  <2>1. x.key \in 0 .. MaxKey /\ x.items \in Seq(Spellings)  BY <1>10 DEF Entry
  <2>2. Append(x.items, s) \in Seq(Spellings)  BY <2>1, AppendProperties
  <2> QED BY ONLY <2>1, <2>2 DEF Entry
<1>12. nodes' = EntryPut(nodes, p, i, y)
  <2>1. nodes' = [nodes EXCEPT ![p].items[i].items = Append(@, s)]
    BY <1>1, <1>5 DEF Index
  <2>2. [nodes[p].items[i] EXCEPT !.items = Append(@, s)] = y
    <3> DEFINE t == Append(x.items, s)
               z == [x EXCEPT !.items = t]
    <3>1. t \in Seq(Spellings)  BY <1>11 DEF Entry
    <3>2. x \in Entry /\ t = Append(x.items, s)  BY <1>10
    <3> HIDE DEF x, t
    <3>3. z \in Entry /\ z.key = x.key /\ z.items = t  BY <3>1, <3>2 DEF Entry
    <3>4. \A e \in Entry : e = [key |-> e.key, items |-> e.items]  BY DEF Entry
    <3> HIDE DEF z
    <3>5. z = [key |-> x.key, items |-> t]  BY <3>3, <3>4, Zenon
    <3> QED BY <3>2, <3>5, Zenon DEF x, z
  <2>3. nodes' = [nodes EXCEPT ![p] =
                   [nodes[p] EXCEPT !.items =
                     [nodes[p].items EXCEPT ![i] = [nodes[p].items[i] EXCEPT !.items = Append(@, s)]]]]
    BY <2>1
  <2>4. [nodes EXCEPT ![p].items[i] = y]
          = [nodes EXCEPT ![p] = [nodes[p] EXCEPT !.items = [nodes[p].items EXCEPT ![i] = y]]]
    OBVIOUS
  <2> QED BY <2>2, <2>3, <2>4, Zenon DEF EntryPut
<1>13. /\ Shape(nodes, tree.root, tree.height, lv, lo, hi)
       /\ x = nodes[p].items[i]
       /\ Longer(Entries, Entries', x, s) <=>
            x \in Entries /\ Entries' = (Entries \ {x}) \cup {y}
  BY <1>6 DEF Longer
<1> HIDE DEF p, key, i, x, y
<1>14. /\ nodes' \in Seq(NodeSet) /\ Len(nodes') = Len(nodes)
       /\ Shape(nodes', tree.root, tree.height, lv, lo, hi)
       /\ \A q \in 1 .. Len(nodes) : Len(nodes'[q].items) = Len(nodes[q].items)
       /\ x \in AllItems(nodes)
       /\ AllItems(nodes') = (AllItems(nodes) \ {x}) \cup {y}
  BY ONLY <1>7, <1>9, <1>11, <1>12, <1>13, EntryGrows
<1>15. Sizes(nodes', tree.root)  BY <1>6, <1>14 DEF Sizes
<1>16. Hangs'
  <2>1. call'.op = "none"  BY <1>1 DEF NoCall
  <2>2. Shape(nodes', tree'.root, tree'.height, lv, lo, hi) /\ Sizes(nodes', tree'.root)
    BY <1>1, <1>14, <1>15, Zenon
  <2>3. live' = 1 .. Len(nodes')  BY <1>1, <1>3, <1>14, Zenon
  <2> QED BY <2>1, <2>2, <2>3, StandsThen, Zenon
<1>17. Longer(Entries, Entries', x, s) /\ x \in Entries
  <2>1. Entries = AllItems(nodes)  BY ONLY <1>6, EntriesAre DEF Entries
  <2>2. EntriesOf(nodes', tree.root) = AllItems(nodes')  BY ONLY <1>14, EntriesAre
  <2>3. Entries' = AllItems(nodes')  BY <2>2, <1>1, Zenon DEF Entries
  <2> QED BY <2>1, <2>3, <1>13, <1>14, Zenon
<1>18. x.key = Fold[s]  BY <1>5, <1>10 DEF key
<1> QED BY <1>4, <1>10, <1>14, <1>16, <1>17, <1>18, Zenon

-----------------------------------------------------------------------------
(* Every step keeps the invariant.                                          *)

LEMMA NoCallIs ==
  /\ NoCall \in [op : {"none", "get", "set"}, entry : Entry, path : Seq(Nat), full : BOOLEAN]
  /\ NoCall.op = "none" /\ NoCall.path = <<>> /\ ~NoCall.full
<1>1. NoEntry \in Entry
  <2>1. 0 \in 0 .. MaxKey  BY BTreeAssumption
  <2>2. <<>> \in Seq(Spellings)  OBVIOUS
  <2> QED BY <2>1, <2>2 DEF NoEntry, Entry
<1>2. <<>> \in Seq(Nat)  OBVIOUS
<1> QED BY <1>1, <1>2 DEF NoCall

LEMMA CallStopped ==
  ASSUME call' = NoCall
  PROVE  Calls'
<1>1. call'.op = "none" /\ ~call'.full  BY NoCallIs
<1> QED BY <1>1 DEF Calls

LEMMA InitTree == Init => TreeInv
<1> SUFFICES ASSUME Init PROVE TreeInv  OBVIOUS
<1>1. Typing
  <2>1. EmptyTree \in [root : Nat, count : Nat, height : Nat, oom : BOOLEAN]
    BY DEF EmptyTree
  <2>2. NoHeader \in [keys : Nat, items : Nat]  BY DEF NoHeader
  <2>3. 0 \in 0 .. MaxTotal  BY KeysAssumption
  <2>4. <<>> \in Seq(NodeSet)  OBVIOUS
  <2> QED BY <2>1, <2>2, <2>3, <2>4, NoCallIs DEF Init, Typing
<1>2. Hangs
  <2>1. Bare  BY NoCallIs DEF Init, Bare, EmptyTree
  <2>2. live = 1 .. Len(nodes)
    <3>1. Len(nodes) = 0 /\ live = {}  BY DEF Init
    <3> QED BY <3>1
  <2> QED BY <2>1, <2>2 DEF Hangs
<1>3. Calls  BY NoCallIs DEF Init, Calls
<1>4. Closed  BY DEF Init, Closed, Open
<1> QED BY <1>1, <1>2, <1>3, <1>4 DEF TreeInv

LEMMA AddTree ==
  ASSUME TreeInv, NEW s, s \in Spellings, Add(s)
  PROVE  TreeInv' /\ Entries' = Entries
<1>1. /\ phase = "adding" /\ call.op = "none"
      /\ \/ ret' = FALSE /\ UNCHANGED call
         \/ ~AtLimit /\ call' = CallOf("get", NewEntry(s)) /\ UNCHANGED ret
      /\ UNCHANGED <<nodes, live, tree, iter, total, phase, header, out, fault>>
  BY DEF Add, memory, walk
<1>2. Open /\ Open'  BY <1>1 DEF Open
<1>3. NewEntry(s) \in Entry /\ NewEntry(s).key \in 0 .. MaxKey  BY NewEntryIs
<1>4. Entries' = Entries  BY <1>1 DEF Entries
<1>5. CASE UNCHANGED call
  <2>1. call = NoCall  BY <1>1 DEF TreeInv, Calls
  <2>2. Hangs'  BY <1>1, <1>2, <1>5, <2>1, CallStops
  <2>3. Calls'  BY <1>5, <2>1, CallStopped
  <2>4. ret' \in BOOLEAN  BY <1>1 DEF TreeInv, Typing
  <2>5. Typing'  BY <1>1, <1>5, <2>4 DEF TreeInv, Typing
  <2>6. Closed'  BY <1>2 DEF Closed
  <2> QED BY <1>4, <2>2, <2>3, <2>5, <2>6 DEF TreeInv
<1>6. CASE ~AtLimit /\ call' = CallOf("get", NewEntry(s)) /\ UNCHANGED ret
  <2>1. Hangs' /\ call'.path \in Seq(Nat)
    BY <1>1, <1>2, <1>3, <1>6, CallBegins
  <2>2. /\ call' = [op |-> "get", entry |-> NewEntry(s), full |-> FALSE, path |-> call'.path]
    BY <1>6 DEF CallOf
  <2>3. call' \in [op : {"none", "get", "set"}, entry : Entry, path : Seq(Nat), full : BOOLEAN]
    <3>1. \A e \in Entry, p \in Seq(Nat) :
            [op |-> "get", entry |-> e, full |-> FALSE, path |-> p]
              \in [op : {"none", "get", "set"}, entry : Entry, path : Seq(Nat), full : BOOLEAN]
      OBVIOUS
    <3>2. [op |-> "get", entry |-> NewEntry(s), full |-> FALSE, path |-> call'.path]
            \in [op : {"none", "get", "set"}, entry : Entry, path : Seq(Nat), full : BOOLEAN]
      BY <1>3, <2>1, <3>1, Zenon
    <3> QED BY <2>2, <3>2, Zenon
  <2>4. Typing'  BY <1>1, <1>6, <2>3 DEF TreeInv, Typing
  <2>5. total < MaxTotal
    BY <1>6, KeysAssumption DEF TreeInv, Typing, AtLimit
  <2>6. call'.op = "get" /\ call'.entry = NewEntry(s) /\ ~call'.full  BY <2>2
  <2>7. Calls'  BY <1>1, <2>5, <2>6 DEF Calls
  <2>8. Closed'  BY <1>2 DEF Closed
  <2> QED BY <1>4, <2>1, <2>4, <2>7, <2>8 DEF TreeInv
<1> QED BY <1>1, <1>5, <1>6

LEMMA DescendTree ==
  ASSUME TreeInv, Descend, UNCHANGED <<total, walk, bound, ret>>
  PROVE  TreeInv' /\ Entries' = Entries
<1>1. /\ call.op # "none" /\ call.path # <<>> /\ ~call.full
      /\ call' = [call EXCEPT !.path = Append(@, nodes[Here].children[Index(Here)])]
      /\ UNCHANGED <<nodes, live, tree, total, phase, header, ret, fault>>
  BY DEF Descend, Searching, walk
<1>2. Hangs' /\ call'.path \in Seq(Nat)  BY DescendHangs
<1>3. Entries' = Entries  BY <1>1 DEF Entries
<1>4. /\ call'.op = call.op /\ call'.entry = call.entry /\ call'.full = call.full
      /\ call' \in [op : {"none", "get", "set"}, entry : Entry, path : Seq(Nat), full : BOOLEAN]
  BY <1>1, <1>2 DEF TreeInv, Typing
<1>5. Typing'  BY <1>1, <1>4 DEF TreeInv, Typing
<1>6. Calls'  BY <1>1, <1>4 DEF TreeInv, Calls
<1>7. Closed'  BY <1>1 DEF TreeInv, Closed, Open
<1> QED BY <1>2, <1>3, <1>5, <1>6, <1>7 DEF TreeInv

LEMMA LeafMustSplitTree ==
  ASSUME TreeInv, LeafMustSplit, UNCHANGED <<total, walk, bound, ret>>
  PROVE  TreeInv' /\ Entries' = Entries
<1>1. /\ call.op = "set" /\ call.path # <<>> /\ Full(nodes[Here])
      /\ call' = [call EXCEPT !.full = TRUE]
      /\ UNCHANGED <<nodes, live, tree, total, phase, header, ret, fault>>
  BY DEF LeafMustSplit, Searching, walk
<1>2. Hangs' /\ call'.path = call.path  BY LeafMustSplitHangs
<1>3. Entries' = Entries  BY <1>1 DEF Entries
<1>4. /\ call'.op = call.op /\ call'.entry = call.entry
      /\ call' \in [op : {"none", "get", "set"}, entry : Entry, path : Seq(Nat), full : BOOLEAN]
  BY <1>1, <1>2 DEF TreeInv, Typing
<1>5. Typing'  BY <1>1, <1>4 DEF TreeInv, Typing
<1>6. Calls'
  <2>1. Here' = Here  BY <1>2 DEF Here
  <2>2. Full(nodes[Here])'  BY <1>1, <2>1 DEF Full
  <2> QED BY <1>1, <1>2, <1>4, <2>2 DEF TreeInv, Calls
<1>7. Closed'  BY <1>1 DEF TreeInv, Closed, Open
<1> QED BY <1>2, <1>3, <1>5, <1>6, <1>7 DEF TreeInv

LEMMA BranchMustSplitTree ==
  ASSUME TreeInv, BranchMustSplit, UNCHANGED <<total, walk, bound, ret>>
  PROVE  TreeInv' /\ Entries' = Entries
<1>1. /\ call.full /\ Full(nodes[Parent])
      /\ call' = [call EXCEPT !.path = Front(@)]
      /\ UNCHANGED <<nodes, live, tree, total, phase, header, ret, fault>>
  BY DEF BranchMustSplit, walk
<1>2. /\ Hangs' /\ call'.path \in Seq(Nat) /\ call'.path # <<>>
      /\ Last(call'.path) = Parent
  BY BranchMustSplitHangs
<1>3. Entries' = Entries  BY <1>1 DEF Entries
<1>4. /\ call'.op = call.op /\ call'.entry = call.entry /\ call'.full = call.full
      /\ call' \in [op : {"none", "get", "set"}, entry : Entry, path : Seq(Nat), full : BOOLEAN]
  BY <1>1, <1>2 DEF TreeInv, Typing
<1>5. Typing'  BY <1>1, <1>4 DEF TreeInv, Typing
<1>6. Calls'
  <2>1. Here' = Parent  BY <1>2 DEF Here
  <2>2. Full(nodes[Here])'  BY <1>1, <2>1 DEF Full
  <2> QED BY <1>1, <1>2, <1>4, <2>2 DEF TreeInv, Calls
<1>7. Closed'  BY <1>1 DEF TreeInv, Closed, Open
<1> QED BY <1>2, <1>3, <1>5, <1>6, <1>7 DEF TreeInv

LEMMA SplitBelowTree ==
  ASSUME TreeInv, SplitBelow, UNCHANGED <<total, walk, bound, ret>>
  PROVE  TreeInv' /\ Entries' = Entries
<1>1. /\ call.full
      /\ call' = [call EXCEPT !.path = Front(@), !.full = FALSE]
      /\ UNCHANGED <<tree, total, phase, header, ret, fault>>
  BY DEF SplitBelow, walk
<1>2. /\ Hangs' /\ Entries' = Entries /\ call'.path \in Seq(Nat) /\ nodes' \in Seq(NodeSet)
  BY SplitBelowHangs
<1>4. /\ call'.op = call.op /\ call'.entry = call.entry /\ ~call'.full
      /\ call' \in [op : {"none", "get", "set"}, entry : Entry, path : Seq(Nat), full : BOOLEAN]
  BY <1>1, <1>2 DEF TreeInv, Typing
<1>5. Typing'  BY <1>1, <1>2, <1>4 DEF TreeInv, Typing
<1>6. Calls'  BY <1>1, <1>4 DEF TreeInv, Calls
<1>7. Closed'
  <2>1. Open  BY <1>1 DEF TreeInv, Calls, Open
  <2>2. Open'  BY <1>1, <2>1 DEF Open
  <2> QED BY <2>2 DEF Closed
<1> QED BY <1>2, <1>5, <1>6, <1>7 DEF TreeInv

LEMMA SplitRootTree ==
  ASSUME TreeInv, SplitRoot, UNCHANGED <<total, walk, bound, ret>>
  PROVE  TreeInv' /\ Entries' = Entries
<1>1. /\ call.full
      /\ tree' = [tree EXCEPT !.root = New, !.height = @ + 1]
      /\ call' = [call EXCEPT !.path = <<New>>, !.full = FALSE]
      /\ UNCHANGED <<total, phase, header, ret, fault>>
  BY DEF SplitRoot, Grown, walk
<1>2. /\ Hangs' /\ Entries' = Entries /\ call'.path \in Seq(Nat) /\ nodes' \in Seq(NodeSet)
      /\ tree'.root \in Nat
  BY SplitRootHangs
<1>3. tree' \in [root : Nat, count : Nat, height : Nat, oom : BOOLEAN] /\ tree'.oom = tree.oom
  <2>1. tree \in [root : Nat, count : Nat, height : Nat, oom : BOOLEAN]
    BY DEF TreeInv, Typing
  <2> DEFINE r == New
             h == tree.height + 1
  <2>2. tree' = [tree EXCEPT !.root = r, !.height = h] /\ h \in Nat  BY <1>1, <2>1
  <2> HIDE DEF r, h
  <2>3. tree'.root = r /\ tree'.oom = tree.oom  BY ONLY <2>1, <2>2
  <2>4. r \in Nat  BY <2>3, <1>2
  <2> QED BY ONLY <2>1, <2>2, <2>3, <2>4
<1>4. /\ call'.op = call.op /\ call'.entry = call.entry /\ ~call'.full
      /\ call' \in [op : {"none", "get", "set"}, entry : Entry, path : Seq(Nat), full : BOOLEAN]
  BY <1>1, <1>2 DEF TreeInv, Typing
<1>5. Typing'  BY <1>1, <1>2, <1>3, <1>4 DEF TreeInv, Typing
<1>6. Calls'  BY <1>1, <1>3, <1>4 DEF TreeInv, Calls
<1>7. Closed'
  <2>1. Open  BY <1>1 DEF TreeInv, Calls, Open
  <2>2. Open'  BY <1>1, <2>1 DEF Open
  <2> QED BY <2>2 DEF Closed
<1> QED BY <1>2, <1>5, <1>6, <1>7 DEF TreeInv

\* What a step does to the entries and the two counts.
Keeps ==
  /\ Open /\ Open' /\ Entries' = Entries /\ tree'.count = tree.count /\ total' = total
  /\ ret' = ret \/ ret' = FALSE

Grows ==
  /\ Open /\ Open' /\ ret' = TRUE /\ total' = total + 1
  /\ \E s \in Spellings :
       \/ NewKey(Entries, Entries', NewEntry(s)) /\ tree'.count = tree.count + 1
       \/ /\ \E x \in Entry : x.key = Fold[s] /\ Longer(Entries, Entries', x, s)
          /\ tree'.count = tree.count

Finishes ==
  /\ Open /\ ~Open' /\ Entries' = {} /\ tree'.count = 0 /\ total' = 0 /\ ret' = ret
  /\ phase' = "failed" \/
       (phase = "walking" /\ phase' = "written" /\ out' = out /\ Len(out) = header.keys)

LEMMA AddRefusedTree ==
  ASSUME TreeInv, AddRefused
  PROVE  TreeInv' /\ Keeps
<1>1. /\ call.op = "get" /\ call' = NoCall /\ ret' = FALSE
      /\ UNCHANGED <<nodes, live, tree, total, phase, header, fault>>
  BY DEF AddRefused, Return, GetFinds, GetMisses, memory, walk
<1>2. Open /\ Open'  BY <1>1 DEF TreeInv, Calls, Open
<1>3. Hangs'  BY <1>1, <1>2, CallStops
<1>4. Calls'  BY <1>1, CallStopped
<1>5. Typing'  BY <1>1, NoCallIs DEF TreeInv, Typing
<1>6. Closed'  BY <1>2 DEF Closed
<1>7. Entries' = Entries  BY <1>1 DEF Entries
<1> QED BY <1>1, <1>2, <1>3, <1>4, <1>5, <1>6, <1>7 DEF TreeInv, Keeps

LEMMA AddToEntryTree ==
  ASSUME TreeInv, AddToEntry
  PROVE  TreeInv' /\ Grows
<1>1. /\ call.op = "get" /\ call' = NoCall /\ ret' = TRUE /\ total' = total + 1
      /\ UNCHANGED <<live, tree, phase, header, fault>>
  BY DEF AddToEntry, Return, GetFinds, walk
<1>2. Open /\ Open' /\ total < MaxTotal  BY <1>1 DEF TreeInv, Calls, Open
<1>3. /\ Hangs' /\ nodes' \in Seq(NodeSet)
      /\ \E x \in Entries, s \in Spellings :
           /\ Longer(Entries, Entries', x, s)
           /\ call.entry = NewEntry(s) /\ x.key = Fold[s] /\ x \in Entry
  BY AddToEntryHangs
<1>4. Calls'  BY <1>1, CallStopped
<1>5. total' \in 0 .. MaxTotal
  BY <1>1, <1>2, KeysAssumption DEF TreeInv, Typing
<1>6. Typing'  BY <1>1, <1>3, <1>5, NoCallIs DEF TreeInv, Typing
<1>7. Closed'  BY <1>2 DEF Closed
<1>8. Grows
  <2>1. PICK s \in Spellings : \E x \in Entry : x.key = Fold[s] /\ Longer(Entries, Entries', x, s)
    BY <1>3, Zenon
  <2> QED BY <1>1, <1>2, <2>1, Zenon DEF Grows
<1> QED BY <1>3, <1>4, <1>6, <1>7, <1>8 DEF TreeInv

LEMMA SetBeginsTree ==
  ASSUME TreeInv, SetBegins
  PROVE  TreeInv' /\ Keeps
<1>1. /\ call.op = "get" /\ tree' = CallBegun /\ call' = CallOf("set", call.entry)
      /\ UNCHANGED <<nodes, live, total, phase, header, ret, fault>>
  BY DEF SetBegins, GetMisses, walk
<1>2. /\ Open /\ Open' /\ total < MaxTotal /\ phase = "adding"
      /\ \E s \in Spellings : call.entry = NewEntry(s)
  BY <1>1 DEF TreeInv, Calls, Open
<1>3. call.entry \in Entry /\ call.entry.key \in 0 .. MaxKey
  BY <1>2, NewEntryIs
<1>4. /\ tree' \in [root : Nat, count : Nat, height : Nat, oom : BOOLEAN]
      /\ tree'.root = tree.root /\ tree'.height = tree.height /\ tree'.count = tree.count
      /\ tree'.oom = FALSE
  BY <1>1 DEF CallBegun, TreeInv, Typing
<1>5. Hangs' /\ call'.path \in Seq(Nat)
  BY <1>1, <1>2, <1>3, <1>4, CallBegins
<1>6. call' = [op |-> "set", entry |-> call.entry, full |-> FALSE, path |-> call'.path]
  BY <1>1 DEF CallOf
<1>7. call' \in [op : {"none", "get", "set"}, entry : Entry, path : Seq(Nat), full : BOOLEAN]
  <2>1. \A e \in Entry, p \in Seq(Nat) :
          [op |-> "set", entry |-> e, full |-> FALSE, path |-> p]
            \in [op : {"none", "get", "set"}, entry : Entry, path : Seq(Nat), full : BOOLEAN]
    OBVIOUS
  <2>2. [op |-> "set", entry |-> call.entry, full |-> FALSE, path |-> call'.path]
          \in [op : {"none", "get", "set"}, entry : Entry, path : Seq(Nat), full : BOOLEAN]
    BY <1>3, <1>5, <2>1, Zenon
  <2> QED BY <1>6, <2>2, Zenon
<1>8. call'.op = "set" /\ call'.entry = call.entry /\ ~call'.full  BY <1>6
<1>9. Typing'  BY <1>1, <1>4, <1>7 DEF TreeInv, Typing
<1>10. Calls'  BY <1>1, <1>2, <1>4, <1>8 DEF Calls
<1>11. Closed'  BY <1>2 DEF Closed
<1>12. Entries' = Entries  BY <1>1, <1>4 DEF Entries
<1> QED BY <1>1, <1>2, <1>4, <1>5, <1>9, <1>10, <1>11, <1>12 DEF TreeInv, Keeps

LEMMA SetReturnsTree ==
  ASSUME TreeInv, SetReturns
  PROVE  TreeInv' /\ (Keeps \/ Grows)
<1>1. /\ FirstRoot \/ InsertIntoLeaf \/ OutOfMemory
      /\ total' = Counted(tree'.oom)
      /\ call' = NoCall /\ ret' = ~tree'.oom
      /\ UNCHANGED <<phase, header, fault>>
  BY DEF SetReturns, Return, walk
<1>2. call.op = "set"  BY <1>1 DEF FirstRoot, InsertIntoLeaf, OutOfMemory
<1>3. /\ Open /\ Open' /\ total < MaxTotal /\ ~tree.oom
      /\ \E s \in Spellings : call.entry = NewEntry(s)
  BY <1>1, <1>2 DEF TreeInv, Calls, Open
<1>4. Calls'  BY <1>1, CallStopped
<1>5. Closed'  BY <1>3 DEF Closed
<1>6. CASE OutOfMemory
  <2>1. UNCHANGED <<nodes, live>> /\ tree' = [tree EXCEPT !.oom = TRUE]
    BY <1>6 DEF OutOfMemory, NewRootLeft
  <2>2. /\ tree' \in [root : Nat, count : Nat, height : Nat, oom : BOOLEAN]
        /\ tree'.root = tree.root /\ tree'.height = tree.height /\ tree'.count = tree.count
        /\ tree'.oom = TRUE
    BY <2>1 DEF TreeInv, Typing
  <2>3. Hangs'  BY <1>1, <1>3, <2>1, <2>2, CallStops
  <2>4. total' = total /\ ret' = FALSE  BY <1>1, <2>2 DEF Counted
  <2>5. Typing'  BY <1>1, <2>1, <2>2, <2>4, NoCallIs DEF TreeInv, Typing
  <2>6. Entries' = Entries  BY <2>1, <2>2 DEF Entries
  <2> QED BY <1>3, <1>4, <1>5, <2>2, <2>3, <2>4, <2>5, <2>6 DEF TreeInv, Keeps
<1>7. CASE FirstRoot \/ InsertIntoLeaf
  <2>1. /\ Hangs' /\ NewKey(Entries, Entries', call.entry)
        /\ nodes' \in Seq(NodeSet)
    BY <1>1, <1>7, FirstRootHangs, InsertHangs
  <2>2. /\ tree' \in [root : Nat, count : Nat, height : Nat, oom : BOOLEAN]
        /\ tree'.count = tree.count + 1 /\ tree'.oom = FALSE
    <3>1. tree \in [root : Nat, count : Nat, height : Nat, oom : BOOLEAN]
      BY DEF TreeInv, Typing
    <3>2. CASE InsertIntoLeaf
      <4>1. tree' = [tree EXCEPT !.count = @ + 1]  BY <3>2 DEF InsertIntoLeaf
      <4> QED BY <3>1, <4>1, <1>3
    <3>3. CASE FirstRoot
      <4> DEFINE r == New
                 k == tree.count + 1
                 h == tree.height + 1
      <4>1. tree' = [tree EXCEPT !.root = r, !.count = k, !.height = h]
        BY <3>3 DEF FirstRoot
      <4>2. tree'.root \in Nat  BY <1>1, <3>3, FirstRootHangs
      <4>3. k \in Nat /\ h \in Nat /\ k = tree.count + 1  BY <3>1
      <4>4. tree.oom = FALSE  BY <3>1, <1>3
      <4> HIDE DEF r, k, h
      <4>5. tree'.root = r /\ tree'.count = k /\ tree'.oom = tree.oom
        BY ONLY <3>1, <4>1
      <4>6. r \in Nat  BY <4>2, <4>5
      <4> QED BY ONLY <3>1, <4>1, <4>3, <4>4, <4>5, <4>6
    <3> QED BY <1>7, <3>2, <3>3
  <2>3. total' = total + 1 /\ ret' = TRUE  BY <1>1, <2>2 DEF Counted
  <2>4. total' \in 0 .. MaxTotal
    BY <2>3, <1>3, KeysAssumption DEF TreeInv, Typing
  <2>5. Typing'  BY <1>1, <2>1, <2>2, <2>3, <2>4, NoCallIs DEF TreeInv, Typing
  <2>6. Grows
    <3>1. PICK s \in Spellings : call.entry = NewEntry(s)  BY <1>3
    <3>2. NewKey(Entries, Entries', NewEntry(s))  BY <2>1, <3>1
    <3> QED BY <1>3, <2>2, <2>3, <3>2, Zenon DEF Grows
  <2> QED BY <1>4, <1>5, <2>1, <2>5, <2>6 DEF TreeInv
<1> QED BY <1>1, <1>6, <1>7

-----------------------------------------------------------------------------
(* The walk, and the end of the container.                                  *)

LEMMA WalksOn ==
  ASSUME TreeInv, Open, Open', call.op = "none",
         UNCHANGED <<nodes, live, tree, call, total, ret>>,
         header' \in [keys : Nat, items : Nat], fault' \in BOOLEAN
  PROVE  TreeInv' /\ Keeps
<1>1. call' = NoCall  BY DEF TreeInv, Calls
<1>2. Hangs'  BY <1>1, CallStops
<1>3. Calls'  BY <1>1, CallStopped
<1>4. Closed'  BY DEF Closed
<1>5. phase' \in {"adding", "walking", "written", "failed"}  BY DEF Open
<1>6. Typing'  BY <1>5 DEF TreeInv, Typing
<1>7. Entries' = Entries  BY DEF Entries
<1> QED BY <1>2, <1>3, <1>4, <1>6, <1>7 DEF TreeInv, Keeps

\* All that was allocated hangs in the tree, and udx_keys_destroy frees all of it.
LEMMA AllFreed ==
  ASSUME TreeInv, Open
  PROVE  live \ Reachable = {}
<1>1. live = 1 .. Len(nodes) /\ (Bare \/ \E lv, lo, hi : Stands(lv, lo, hi))
  BY DEF TreeInv, Hangs
<1>2. CASE Bare
  <2>1. Len(nodes) = 0  BY <1>2 DEF Bare
  <2> QED BY <1>1, <2>1
<1>3. CASE \E lv, lo, hi : Stands(lv, lo, hi)
  <2>1. PICK lv, lo, hi : Stands(lv, lo, hi)  BY <1>3
  <2>2. Shape(nodes, tree.root, tree.height, lv, lo, hi)  BY <2>1 DEF Stands
  <2>3. Reachable = 1 .. Len(nodes)  BY <2>2, AllReached DEF Reachable
  <2> QED BY <1>1, <2>3
<1> QED BY <1>1, <1>2, <1>3

LEMMA DestroyedTree ==
  ASSUME TreeInv, Open, call.op = "none", Destroyed,
         phase' \in {"written", "failed"},
         header' = header, ret' = ret, fault' \in BOOLEAN
  PROVE  TreeInv' /\ ~Open' /\ Entries' = {} /\ tree'.count = 0 /\ total' = 0
<1>1. /\ live' = live \ Reachable /\ tree' = EmptyTree /\ UNCHANGED <<nodes, call>>
      /\ total' = 0
  BY DEF Destroyed, FreeNodes
<1>2. live' = {}  BY <1>1, AllFreed
<1>3. ~Open'  BY DEF Open
<1>4. Hangs'  BY <1>3 DEF Hangs
<1>5. call' = NoCall  BY <1>1 DEF TreeInv, Calls
<1>6. Calls'  BY <1>5, CallStopped
<1>7. Closed'  BY <1>1, <1>2 DEF Closed
<1>8. /\ tree' \in [root : Nat, count : Nat, height : Nat, oom : BOOLEAN]
      /\ tree'.root = 0 /\ tree'.count = 0
  BY <1>1 DEF EmptyTree
<1>9. Typing'
  <2>1. total' \in 0 .. MaxTotal  BY <1>1, KeysAssumption
  <2> QED BY <1>1, <1>8, <2>1 DEF TreeInv, Typing
<1>10. Entries' = {}
  <2>1. Len(nodes) \in Nat  BY DEF TreeInv, Typing
  <2>2. EntriesOf(nodes, 0) = {}  BY <2>1, NoneReached
  <2> QED BY <1>1, <1>8, <2>2 DEF Entries
<1> QED BY <1>1, <1>3, <1>4, <1>6, <1>7, <1>8, <1>9, <1>10 DEF TreeInv

LEMMA FinalizeRefusedTree ==
  ASSUME TreeInv, FinalizeRefused
  PROVE  TreeInv' /\ Finishes
<1>1. /\ phase = "adding" /\ call.op = "none"
      /\ fault' = (tree.count # 0) /\ phase' = "failed" /\ Destroyed
      /\ UNCHANGED <<iter, header, out, ret>>
  BY DEF FinalizeRefused
<1>2. Open /\ fault' \in BOOLEAN  BY <1>1 DEF Open
<1>3. TreeInv' /\ ~Open' /\ Entries' = {} /\ tree'.count = 0 /\ total' = 0
  BY <1>1, <1>2, DestroyedTree
<1> QED BY <1>1, <1>2, <1>3 DEF Finishes

\* No call is under way while the walk is.
LEMMA WalkAlone ==
  ASSUME TreeInv, phase = "walking"
  PROVE  Open /\ call.op = "none" /\ call = NoCall
BY DEF TreeInv, Calls, Open

LEMMA WalkFailsTree ==
  ASSUME TreeInv, WalkFails
  PROVE  TreeInv' /\ Finishes
<1>1. /\ phase = "walking" /\ phase' = "failed" /\ fault' = TRUE /\ Destroyed
      /\ UNCHANGED <<iter, header, out, ret>>
  BY DEF WalkFails
<1>2. Open /\ call.op = "none"  BY <1>1, WalkAlone
<1>3. TreeInv' /\ ~Open' /\ Entries' = {} /\ tree'.count = 0 /\ total' = 0
  BY <1>1, <1>2, DestroyedTree
<1> QED BY <1>1, <1>2, <1>3 DEF Finishes

LEMMA WalkEndTree ==
  ASSUME TreeInv, WalkEnd
  PROVE  TreeInv' /\ Finishes
<1>1. /\ phase = "walking" /\ Len(out) = header.keys /\ phase' = "written" /\ Destroyed
      /\ UNCHANGED <<iter, header, out, ret, fault>>
  BY DEF WalkEnd
<1>2. Open /\ call.op = "none"  BY <1>1, WalkAlone
<1>3. fault' \in BOOLEAN  BY <1>1 DEF TreeInv, Typing
<1>4. TreeInv' /\ ~Open' /\ Entries' = {} /\ tree'.count = 0 /\ total' = 0
  BY <1>1, <1>2, <1>3, DestroyedTree
<1> QED BY <1>1, <1>2, <1>4 DEF Finishes

LEMMA WalkBeginTree ==
  ASSUME TreeInv, WalkBegin
  PROVE  TreeInv' /\ Keeps
<1>1. /\ phase = "adding" /\ call.op = "none" /\ phase' = "walking"
      /\ header' = [keys |-> tree.count, items |-> total]
      /\ UNCHANGED <<nodes, live, tree, call, total, out, ret, fault>>
  BY DEF WalkBegin, memory
<1>2. Open /\ Open'  BY <1>1 DEF Open
<1>3. header' \in [keys : Nat, items : Nat] /\ fault' \in BOOLEAN
  BY <1>1, KeysAssumption DEF TreeInv, Typing
<1> QED BY <1>1, <1>2, <1>3, WalksOn

LEMMA WalkStepTree ==
  ASSUME TreeInv, WalkStep
  PROVE  TreeInv' /\ Keeps
<1>1. /\ phase = "walking"
      /\ UNCHANGED <<nodes, live, tree, call, total, phase, header, out, ret, fault>>
  BY DEF WalkStep, IterBegin, IterDown, IterUp, walk
<1>2. Open /\ Open' /\ call.op = "none"  BY <1>1, WalkAlone DEF Open
<1>3. header' \in [keys : Nat, items : Nat] /\ fault' \in BOOLEAN
  BY <1>1 DEF TreeInv, Typing
<1> QED BY <1>1, <1>2, <1>3, WalksOn

LEMMA DeliverTree ==
  ASSUME TreeInv, Deliver
  PROVE  TreeInv' /\ (Keeps \/ Finishes)
<1>1. phase = "walking" /\ UNCHANGED <<header, ret>>  BY DEF Deliver
<1>2. Open /\ call.op = "none"  BY <1>1, WalkAlone
<1>3. \/ UNCHANGED <<nodes, live, tree, call, total, phase, fault>>
      \/ phase' = "failed" /\ Destroyed /\ fault' = fault
  BY DEF Deliver, memory
<1>4. header' \in [keys : Nat, items : Nat] /\ fault' \in BOOLEAN
  BY <1>1, <1>3 DEF TreeInv, Typing
<1>5. CASE UNCHANGED <<nodes, live, tree, call, total, phase, fault>>
  <2>1. Open'  BY <1>2, <1>5 DEF Open
  <2> QED BY <1>1, <1>2, <1>4, <1>5, <2>1, WalksOn
<1>6. CASE phase' = "failed" /\ Destroyed /\ fault' = fault
  <2>1. TreeInv' /\ ~Open' /\ Entries' = {} /\ tree'.count = 0 /\ total' = 0
    BY <1>1, <1>2, <1>4, <1>6, DestroyedTree
  <2> QED BY <1>1, <1>2, <1>6, <2>1 DEF Finishes
<1> QED BY <1>3, <1>5, <1>6

\* A step within a call leaves what is held and counted as it was.
LEMMA CallGoesOn ==
  ASSUME TreeInv, Descend \/ SetStep, UNCHANGED <<total, walk, bound, ret>>
  PROVE  TreeInv' /\ Keeps
<1>1. TreeInv' /\ Entries' = Entries
  <2>1. CASE Descend  BY <2>1, DescendTree
  <2>2. CASE LeafMustSplit  BY <2>2, LeafMustSplitTree
  <2>3. CASE BranchMustSplit  BY <2>3, BranchMustSplitTree
  <2>4. CASE SplitBelow  BY <2>4, SplitBelowTree
  <2>5. CASE SplitRoot  BY <2>5, SplitRootTree
  <2> QED BY <2>1, <2>2, <2>3, <2>4, <2>5 DEF SetStep
<1>2. UNCHANGED <<total, phase, ret>>  BY DEF walk
<1>3. call.op # "none"
  BY DEF TreeInv, Calls, SetStep, Descend, Searching, LeafMustSplit, BranchMustSplit,
         SplitBelow, SplitRoot
<1>4. Open /\ Open'  BY <1>2, <1>3 DEF TreeInv, Calls, Open
<1>5. tree'.count = tree.count
  <2>1. tree \in [root : Nat, count : Nat, height : Nat, oom : BOOLEAN]
    BY DEF TreeInv, Typing
  <2>2. UNCHANGED tree \/ tree' = Grown
    BY DEF SetStep, Descend, LeafMustSplit, BranchMustSplit, SplitBelow, SplitRoot
  <2>3. Grown.count = tree.count  BY <2>1 DEF Grown
  <2> QED BY <2>2, <2>3
<1> QED BY <1>1, <1>2, <1>4, <1>5 DEF Keeps

LEMMA AddKeeps ==
  ASSUME TreeInv, NEW s, s \in Spellings, Add(s)
  PROVE  TreeInv' /\ Keeps
<1>1. TreeInv' /\ Entries' = Entries  BY AddTree
<1>2. /\ phase = "adding" /\ (ret' = ret \/ ret' = FALSE)
      /\ UNCHANGED <<tree, total, phase>>
  BY DEF Add, memory, walk
<1>3. Open /\ Open'  BY <1>2 DEF Open
<1> QED BY <1>1, <1>2, <1>3 DEF Keeps

LEMMA TreeStep ==
  ASSUME TreeInv, Next
  PROVE  TreeInv' /\ (Keeps \/ Grows \/ Finishes)
<1>1. CASE \E s \in Spellings : Add(s)  BY <1>1, AddKeeps
<1>2. CASE CallNext
  <2>1. CASE (Descend \/ SetStep) /\ UNCHANGED <<total, walk, bound, ret>>
    BY <2>1, CallGoesOn
  <2>2. CASE AddRefused  BY <2>2, AddRefusedTree
  <2>3. CASE AddToEntry  BY <2>3, AddToEntryTree
  <2>4. CASE SetBegins  BY <2>4, SetBeginsTree
  <2>5. CASE SetReturns  BY <2>5, SetReturnsTree
  <2> QED BY <1>2, <2>1, <2>2, <2>3, <2>4, <2>5 DEF CallNext
<1>3. CASE FinalizeRefused  BY <1>3, FinalizeRefusedTree
<1>4. CASE WalkBegin  BY <1>4, WalkBeginTree
<1>5. CASE WalkStep  BY <1>5, WalkStepTree
<1>6. CASE Deliver  BY <1>6, DeliverTree
<1>7. CASE WalkFails  BY <1>7, WalkFailsTree
<1>8. CASE WalkEnd  BY <1>8, WalkEndTree
<1> QED BY <1>1, <1>2, <1>3, <1>4, <1>5, <1>6, <1>7, <1>8 DEF Next

LEMMA TreeStutter ==
  ASSUME TreeInv, UNCHANGED vars
  PROVE  TreeInv'
<1>1. UNCHANGED <<nodes, live, tree, call, iter, total, phase, header, out, ret, fault>>
  BY DEF vars, memory, walk
<1>2. Typing'  BY <1>1 DEF TreeInv, Typing
<1>3. Calls' /\ Closed'  BY <1>1 DEF TreeInv, Calls, Closed, Open, Here
<1>4. Hangs'
  <2>1. CASE ~Open  BY <1>1, <2>1 DEF Hangs, Open
  <2>2. CASE Open
    <3>1. \A lv, lo, hi : Stands(lv, lo, hi) =>
             call'.op = "none" \/
               OnPath(nodes, tree.root, tree.height, lv, lo, hi, call'.entry.key, call'.path)
      BY <1>1 DEF Stands
    <3>2. tree.root = 0 => call'.path = <<>>
      <4>1. CASE Bare  BY <1>1, <4>1 DEF Bare
      <4>2. CASE \E lv, lo, hi : Stands(lv, lo, hi)
        <5>1. PICK lv, lo, hi : Stands(lv, lo, hi)  BY <4>2
        <5>2. Shape(nodes, tree.root, tree.height, lv, lo, hi)  BY <5>1 DEF Stands
        <5>3. tree.root # 0  BY <5>2 DEF Shape, Typed
        <5> QED BY <5>3
      <4> QED BY <2>2, <4>1, <4>2 DEF TreeInv, Hangs
    <3> QED BY <1>1, <2>2, <3>1, <3>2, Unmoved
  <2> QED BY <2>1, <2>2
<1> QED BY <1>2, <1>3, <1>4 DEF TreeInv

\* The inductive invariant of the tree: what is allocated hangs in it, in its shape,
\* and a call is on the way from the root to where its key belongs.
THEOREM Hanging == Spec => []TreeInv
<1>1. TreeInv /\ [Next]_vars => TreeInv'  BY TreeStep, TreeStutter
<1> QED BY InitTree, <1>1, PTL DEF Spec

\* What holds of the tree: it is empty, or stands in its shape.
LEMMA EmptyOrStands ==
  ASSUME TreeInv
  PROVE  \/ /\ tree.root = 0 /\ tree.height = 0 /\ Reachable = {} /\ Entries = {}
            /\ live = {}
         \/ \E lv, lo, hi : Stands(lv, lo, hi) /\ live = 1 .. Len(nodes) /\ Open
<1>1. Len(nodes) \in Nat  BY DEF TreeInv, Typing
<1>2. NodesOf(nodes, 0) = {} /\ EntriesOf(nodes, 0) = {}  BY <1>1, NoneReached
<1>3. tree.root = 0 => Reachable = {} /\ Entries = {}
  BY <1>2 DEF Reachable, Entries
<1>4. CASE ~Open
  <2>1. tree = EmptyTree /\ live = {}  BY <1>4 DEF TreeInv, Closed
  <2>2. tree.root = 0 /\ tree.height = 0  BY <2>1 DEF EmptyTree
  <2> QED BY <1>3, <2>1, <2>2
<1>5. CASE Open /\ Bare
  <2>1. Len(nodes) = 0 /\ tree.root = 0 /\ tree.height = 0  BY <1>5 DEF Bare
  <2>2. live = 1 .. Len(nodes)  BY <1>5 DEF TreeInv, Hangs
  <2>3. live = {}  BY <2>1, <2>2
  <2> QED BY <1>3, <2>1, <2>3
<1>6. CASE Open /\ \E lv, lo, hi : Stands(lv, lo, hi)
  <2>1. live = 1 .. Len(nodes)  BY <1>6 DEF TreeInv, Hangs
  <2> QED BY <1>6, <2>1
<1> QED BY <1>4, <1>5, <1>6 DEF TreeInv, Hangs

LEMMA StandsSound ==
  ASSUME NEW lv, NEW lo, NEW hi, Stands(lv, lo, hi)
  PROVE  TreeSound /\ Reachable = 1 .. Len(nodes) /\ Entries = AllItems(nodes)
<1>1. Shape(nodes, tree.root, tree.height, lv, lo, hi) /\ Sizes(nodes, tree.root)
  BY DEF Stands
<1>2. SoundTree(nodes, tree.root, tree.height)
  BY <1>1 DEF SoundTree, Shape, Typed
<1>3. TreeSound  BY <1>1, <1>2, SoundHolds
<1>4. Reachable = 1 .. Len(nodes)  BY <1>1, AllReached DEF Reachable
<1>5. Entries = AllItems(nodes)  BY <1>1, EntriesAre DEF Entries
<1> QED BY <1>3, <1>4, <1>5

LEMMA EmptySound ==
  ASSUME TreeInv, tree.root = 0, tree.height = 0
  PROVE  TreeSound
<1>1. Len(nodes) \in Nat  BY DEF TreeInv, Typing
<1>2. /\ \A d \in 1 .. Len(nodes) : Levels(nodes, 0)[d] = {}
      /\ DOMAIN Levels(nodes, 0) = 1 .. Len(nodes)
  BY <1>1, NoneReached
<1> QED BY <1>2 DEF TreeSound

\* Through the splits of a call, and those that an insertion without memory leaves
\* behind, the tree keeps its shape (btree_node_split, btree_node_set).
THEOREM TreeStaysSound == Spec => []TreeSound
<1>1. TreeInv => TreeSound  BY EmptyOrStands, StandsSound, EmptySound
<1> QED BY Hanging, <1>1, PTL

\* No call, refused or not, and no end of the walk leaves a node behind that nothing
\* points to (udx_btree_set, udx_btree_free).
THEOREM NothingLeaks == Spec => []NoLeak
<1>1. TreeInv => NoLeak
  <2> SUFFICES ASSUME TreeInv PROVE NoLeak  OBVIOUS
  <2>1. CASE Reachable = {} /\ live = {}  BY <2>1 DEF NoLeak
  <2>2. CASE \E lv, lo, hi : Stands(lv, lo, hi) /\ live = 1 .. Len(nodes) /\ Open
    BY <2>2, StandsSound DEF NoLeak
  <2> QED BY <2>1, <2>2, EmptyOrStands
<1> QED BY Hanging, <1>1, PTL

LEMMA EntriesDiffer ==
  ASSUME TreeInv
  PROVE  OneEach(Entries) /\ Entries \subseteq Entry
<1>1. CASE Entries = {}  BY <1>1 DEF OneEach
<1>2. CASE \E lv, lo, hi : Stands(lv, lo, hi)
  <2>1. PICK lv, lo, hi : Stands(lv, lo, hi)  BY <1>2
  <2>2. Shape(nodes, tree.root, tree.height, lv, lo, hi)  BY <2>1 DEF Stands
  <2>3. Entries = AllItems(nodes)  BY <2>1, StandsSound
  <2>4. OneEach(Entries)  BY <2>2, <2>3, KeysDiffer DEF OneEach
  <2>5. nodes \in Seq(NodeSet)  BY DEF TreeInv, Typing
  <2>6. ASSUME NEW e, e \in AllItems(nodes)
        PROVE  e \in Entry
    <3>1. PICK p \in 1 .. Len(nodes) : \E i \in 1 .. Len(nodes[p].items) :
                                          e = nodes[p].items[i]
      BY <2>5, <2>6, ItemsIn
    <3>2. nodes[p] \in NodeSet  BY <2>5
    <3> QED BY <3>1, <3>2, KeyTypes
  <2> QED BY <2>3, <2>4, <2>6
<1> QED BY <1>1, <1>2, EmptyOrStands

-----------------------------------------------------------------------------
(* What is counted.                                                         *)

LEMMA InItems ==
  ASSUME NEW entries
  PROVE  \A z : z \in ItemsOf(entries) <=>
                  \E e \in entries : \E i \in 1 .. Len(e.items) : z = <<e.key, i>>
BY DEF ItemsOf

LEMMA NewKeyItems ==
  ASSUME NEW old, NEW new, NEW s, s \in Spellings, NewKey(old, new, NewEntry(s))
  PROVE  /\ ItemsOf(new) = ItemsOf(old) \cup {<<Fold[s], 1>>}
         /\ <<Fold[s], 1>> \notin ItemsOf(old)
<1>1. NewEntry(s).key = Fold[s] /\ NewEntry(s).items = <<s>>  BY DEF NewEntry
<1>2. Len(NewEntry(s).items) = 1  BY <1>1
<1>3. new = old \cup {NewEntry(s)} /\ \A x \in old : x.key # Fold[s]
  BY <1>1 DEF NewKey
<1>4. \A z : z \in ItemsOf(new) <=> z \in ItemsOf(old) \cup {<<Fold[s], 1>>}
  <2>1. \A z : (\E i \in 1 .. Len(NewEntry(s).items) : z = <<NewEntry(s).key, i>>) <=>
               z = <<Fold[s], 1>>
    BY <1>1, <1>2
  <2>2. \A z : z \in ItemsOf(new) <=>
                 \E e \in new : \E i \in 1 .. Len(e.items) : z = <<e.key, i>>
    BY InItems
  <2>3. \A z : z \in ItemsOf(old) <=>
                 \E e \in old : \E i \in 1 .. Len(e.items) : z = <<e.key, i>>
    BY InItems
  <2>4. \A e : e \in new <=> e \in old \/ e = NewEntry(s)  BY <1>3
  <2> QED BY ONLY <2>1, <2>2, <2>3, <2>4, Zenon
<1>5. <<Fold[s], 1>> \notin ItemsOf(old)
  <2>1. \A e \in old : \A i \in 1 .. Len(e.items) : <<Fold[s], 1>> # <<e.key, i>>
    BY <1>3
  <2>2. \A z : z \in ItemsOf(old) <=>
                 \E e \in old : \E i \in 1 .. Len(e.items) : z = <<e.key, i>>
    BY InItems
  <2> QED BY ONLY <2>1, <2>2, Zenon
<1> QED BY ONLY <1>4, <1>5

\* The entry with the item more is none of the others.
LEMMA LongerEntry ==
  ASSUME NEW old, old \subseteq Entry, OneEach(old), NEW new, NEW x, NEW s, s \in Spellings,
         Longer(old, new, x, s)
  PROVE  \E y \in Entry :
           /\ new = (old \ {x}) \cup {y} /\ y \notin old \ {x} /\ x \in old
           /\ y.key = x.key /\ y.items = Append(x.items, s)
           /\ Len(x.items) \in Nat /\ Len(y.items) = Len(x.items) + 1
           /\ \A z \in old \ {x} : z.key # x.key
<1>1. x \in old /\ new = (old \ {x}) \cup {[key |-> x.key, items |-> Append(x.items, s)]}
  BY DEF Longer
<1>2. x \in Entry  BY <1>1
<1>3. x.key \in 0 .. MaxKey /\ x.items \in Seq(Spellings)  BY <1>2 DEF Entry
<1> DEFINE y == [key |-> x.key, items |-> Append(x.items, s)]
<1>4. Append(x.items, s) \in Seq(Spellings)  BY <1>3
<1>5. y \in Entry /\ y.key = x.key /\ y.items = Append(x.items, s)
  BY <1>3, <1>4 DEF Entry
<1>6. Len(x.items) \in Nat /\ Len(y.items) = Len(x.items) + 1  BY <1>3, <1>5
<1> HIDE DEF y
<1>7. \A z \in old \ {x} : z.key # x.key  BY <1>1 DEF OneEach
<1>8. y \notin old \ {x}  BY <1>5, <1>7
<1>9. new = (old \ {x}) \cup {y}  BY <1>1 DEF y
<1> QED BY <1>1, <1>5, <1>6, <1>7, <1>8, <1>9

LEMMA LongerItems ==
  ASSUME NEW old, old \subseteq Entry, OneEach(old), NEW new, NEW x, NEW s, s \in Spellings,
         Longer(old, new, x, s)
  PROVE  \E z : ItemsOf(new) = ItemsOf(old) \cup {z} /\ z \notin ItemsOf(old)
<1>1. PICK y \in Entry :
           /\ new = (old \ {x}) \cup {y} /\ x \in old
           /\ y.key = x.key
           /\ Len(x.items) \in Nat /\ Len(y.items) = Len(x.items) + 1
           /\ \A z \in old \ {x} : z.key # x.key
  BY LongerEntry
<1> DEFINE n == Len(x.items)
           w == <<x.key, n + 1>>
<1>2. \A i : i \in 1 .. Len(y.items) <=> i \in 1 .. n \/ i = n + 1
  BY <1>1
<1>3. \A z : (\E i \in 1 .. Len(y.items) : z = <<y.key, i>>) <=>
             (\E i \in 1 .. n : z = <<x.key, i>>) \/ z = w
  BY <1>1, <1>2
<1>4. \A z : z \in ItemsOf(new) <=> \E e \in new : \E i \in 1 .. Len(e.items) : z = <<e.key, i>>
  BY InItems
<1>5. \A z : z \in ItemsOf(old) <=> \E e \in old : \E i \in 1 .. Len(e.items) : z = <<e.key, i>>
  BY InItems
<1>6. \A e : e \in new <=> (e \in old /\ e # x) \/ e = y  BY <1>1
<1>7. w \notin ItemsOf(old)
  <2> SUFFICES ASSUME NEW e, e \in old, NEW i, i \in 1 .. Len(e.items), w = <<e.key, i>>
               PROVE FALSE
    BY <1>5, Zenon
  <2>1. e.key = x.key /\ i = n + 1  OBVIOUS
  <2>2. e = x  BY <1>1, <2>1
  <2>3. i \in 1 .. n  BY <2>2
  <2> QED BY <1>1, <2>1, <2>3
<1>8. \A z : z \in ItemsOf(new) <=> z \in ItemsOf(old) \/ z = w
  <2>1. ASSUME NEW z, z \in ItemsOf(new) PROVE z \in ItemsOf(old) \/ z = w
    <3>1. PICK e \in new : \E i \in 1 .. Len(e.items) : z = <<e.key, i>>
      BY <1>4, <2>1, Zenon
    <3>2. CASE e \in old /\ e # x  BY <1>5, <3>1, <3>2, Zenon
    <3>3. CASE e = y
      <4>1. (\E i \in 1 .. n : z = <<x.key, i>>) \/ z = w  BY <1>3, <3>1, <3>3, Zenon
      <4>2. x \in old  BY <1>1
      <4> QED BY <1>5, <4>1, <4>2, Zenon
    <3> QED BY <1>6, <3>2, <3>3, Zenon
  <2>2. ASSUME NEW z, z \in ItemsOf(old) PROVE z \in ItemsOf(new)
    <3>1. PICK e \in old : \E i \in 1 .. Len(e.items) : z = <<e.key, i>>
      BY <1>5, <2>2, Zenon
    <3>2. CASE e # x  BY <1>4, <1>6, <3>1, <3>2, Zenon
    <3>3. CASE e = x  BY <1>3, <1>4, <1>6, <3>1, <3>3, Zenon
    <3> QED BY <3>2, <3>3
  <2>3. w \in ItemsOf(new)  BY <1>3, <1>4, <1>6, Zenon
  <2> HIDE DEF w
  <2> QED BY <2>1, <2>2, <2>3, Zenon
<1> HIDE DEF w
<1>9. ItemsOf(new) = ItemsOf(old) \cup {w}
  BY ONLY <1>8
<1> QED BY <1>7, <1>9, Zenon

LEMMA LongerCard ==
  ASSUME NEW old, IsFiniteSet(old), old \subseteq Entry, OneEach(old), NEW new, NEW x, NEW s,
         s \in Spellings, Longer(old, new, x, s)
  PROVE  IsFiniteSet(new) /\ Cardinality(new) = Cardinality(old)
<1>1. PICK y \in Entry : new = (old \ {x}) \cup {y} /\ y \notin old \ {x} /\ x \in old
  BY LongerEntry
<1>2. /\ IsFiniteSet(old \ {x}) /\ Cardinality(old \ {x}) = Cardinality(old) - 1
  BY <1>1, FS_RemoveElement
<1>3. /\ IsFiniteSet((old \ {x}) \cup {y})
      /\ Cardinality((old \ {x}) \cup {y}) = Cardinality(old \ {x}) + 1
  BY <1>1, <1>2, FS_AddElement
<1>4. Cardinality(old) \in Nat  BY FS_CardinalityType
<1> QED BY <1>1, <1>2, <1>3, <1>4

CountInv ==
  /\ IsFiniteSet(Entries) /\ IsFiniteSet(ItemsOf(Entries))
  /\ CountsAgree

LEMMA NoItems == ItemsOf({}) = {}
BY DEF ItemsOf

LEMMA InitCount == Init => CountInv
<1> SUFFICES ASSUME Init PROVE CountInv  OBVIOUS
<1>1. nodes = <<>> /\ tree = EmptyTree /\ total = 0  BY DEF Init
<1>2. tree.root = 0 /\ tree.count = 0 /\ Len(nodes) = 0  BY <1>1 DEF EmptyTree
<1>3. Entries = {}
  <2>1. EntriesOf(nodes, 0) = {}  BY <1>2, NoneReached
  <2> QED BY <1>2, <2>1 DEF Entries
<1> QED BY <1>1, <1>2, <1>3, NoItems, FS_EmptySet DEF CountInv, CountsAgree

LEMMA CountStep ==
  ASSUME TreeInv, CountInv, Keeps \/ Grows \/ Finishes
  PROVE  CountInv'
<1>1. /\ IsFiniteSet(Entries) /\ IsFiniteSet(ItemsOf(Entries))
      /\ tree.count = Cardinality(Entries) /\ total = Cardinality(ItemsOf(Entries))
  BY DEF CountInv, CountsAgree
<1>2. OneEach(Entries) /\ Entries \subseteq Entry  BY EntriesDiffer
<1>3. SUFFICES /\ IsFiniteSet(Entries') /\ IsFiniteSet(ItemsOf(Entries'))
               /\ tree'.count = Cardinality(Entries')
               /\ total' = Cardinality(ItemsOf(Entries'))
  BY DEF CountInv, CountsAgree, ItemsOf
<1>4. CASE Keeps  BY <1>1, <1>4 DEF Keeps
<1>5. CASE Finishes
  <2>1. Entries' = {} /\ tree'.count = 0 /\ total' = 0  BY <1>5 DEF Finishes
  <2> QED BY <2>1, NoItems, FS_EmptySet
<1>6. CASE Grows
  <2> DEFINE old == Entries
             new == Entries'
             I(e) == ItemsOf(e)
  <2>1. PICK s \in Spellings :
          \/ NewKey(old, new, NewEntry(s)) /\ tree'.count = tree.count + 1
          \/ /\ \E x \in Entry : x.key = Fold[s] /\ Longer(old, new, x, s)
             /\ tree'.count = tree.count
    BY <1>6 DEF Grows
  <2>2. total' = total + 1  BY <1>6 DEF Grows
  <2>3. IsFiniteSet(old) /\ IsFiniteSet(I(old)) /\ OneEach(old) /\ old \subseteq Entry
    BY <1>1, <1>2
  <2>4. tree.count = Cardinality(old) /\ total = Cardinality(I(old))  BY <1>1
  <2> SUFFICES /\ IsFiniteSet(new) /\ IsFiniteSet(I(new))
               /\ tree'.count = Cardinality(new) /\ total' = Cardinality(I(new))
    OBVIOUS
  <2> HIDE DEF old, new
  <2>5. CASE NewKey(old, new, NewEntry(s)) /\ tree'.count = tree.count + 1
    <3>1. /\ ItemsOf(new) = ItemsOf(old) \cup {<<Fold[s], 1>>}
          /\ <<Fold[s], 1>> \notin ItemsOf(old)
      BY <2>5, NewKeyItems
    <3>2. new = old \cup {NewEntry(s)} /\ NewEntry(s) \notin old
      BY <2>5 DEF NewKey
    <3>3. IsFiniteSet(new) /\ Cardinality(new) = Cardinality(old) + 1
      BY <2>3, <3>2, FS_AddElement
    <3>4. IsFiniteSet(I(new)) /\ Cardinality(I(new)) = Cardinality(I(old)) + 1
      BY <2>3, <3>1, FS_AddElement
    <3> QED BY <2>2, <2>4, <2>5, <3>3, <3>4
  <2>6. CASE /\ \E x \in Entry : x.key = Fold[s] /\ Longer(old, new, x, s)
             /\ tree'.count = tree.count
    <3>1. PICK x \in Entry : Longer(old, new, x, s)  BY <2>6
    <3>2. IsFiniteSet(new) /\ Cardinality(new) = Cardinality(old)
      BY <2>3, <3>1, LongerCard
    <3>3. PICK z : ItemsOf(new) = ItemsOf(old) \cup {z} /\ z \notin ItemsOf(old)
      BY <2>3, <3>1, LongerItems
    <3>4. IsFiniteSet(I(new)) /\ Cardinality(I(new)) = Cardinality(I(old)) + 1
      BY <2>3, <3>3, FS_AddElement
    <3> QED BY <2>2, <2>4, <2>6, <3>2, <3>4
  <2> QED BY <2>1, <2>5, <2>6
<1> QED BY <1>4, <1>5, <1>6

LEMMA CountStutter ==
  ASSUME CountInv, UNCHANGED vars
  PROVE  CountInv'
<1>1. UNCHANGED <<nodes, tree, total>>  BY DEF vars, memory
<1> QED BY <1>1 DEF CountInv, CountsAgree, Entries, ItemsOf

THEOREM Counting == Spec => []CountInv
<1>1. TreeInv /\ CountInv /\ [Next]_vars => CountInv'
  BY TreeStep, CountStep, CountStutter
<1> QED BY InitCount, Hanging, <1>1, PTL DEF Spec

\* The two counts that finalize puts into the header are the number of folded keys in
\* the tree and of the items they have, also after adds that failed half way
\* (udx_keys_add, udx_btree_count).
THEOREM CountsAlwaysAgree == Spec => []CountsAgree
<1>1. CountInv => CountsAgree  BY DEF CountInv
<1> QED BY Counting, <1>1, PTL

-----------------------------------------------------------------------------
(* The iterator: what lies between one entry and the next.                  *)

Below(heap, m) == {e \in AllItems(heap) : e.key < m}

\* No entry of the tree lies where a leaf could have one and has none.
LEMMA LeafGap ==
  ASSUME NEW heap, NEW root, NEW height, NEW lv, NEW lo, NEW hi,
         Shape(heap, root, height, lv, lo, hi),
         NEW p, p \in 1 .. Len(heap), lv[p] = 1,
         NEW a, a \in Int, NEW b, b \in Int, lo[p] < a, a <= b, b <= hi[p],
         \A i \in 1 .. Len(heap[p].items) :
           heap[p].items[i].key < a \/ b <= heap[p].items[i].key
  PROVE  Below(heap, a) = Below(heap, b)
<1>1. /\ heap \in Seq(NodeSet)
      /\ \A q \in 1 .. Len(heap) :
           /\ lo[q] \in Int /\ hi[q] \in Int
           /\ \A i \in 1 .. Len(heap[q].items) : heap[q].items[i].key \in 0 .. MaxKey
  BY ONLY Shape(heap, root, height, lv, lo, hi), ShapeTypes
<1>2. \A e : e \in AllItems(heap) <=>
        \E q \in 1 .. Len(heap) : \E i \in 1 .. Len(heap[q].items) : e = heap[q].items[i]
  BY ONLY <1>1, ItemsIn
<1>3. ASSUME NEW e, e \in AllItems(heap)
      PROVE  e.key < a <=> e.key < b
  <2>1. PICK q \in 1 .. Len(heap) : \E i \in 1 .. Len(heap[q].items) : e = heap[q].items[i]
    BY <1>2, <1>3
  <2>2. PICK i \in 1 .. Len(heap[q].items) : e = heap[q].items[i]  BY <2>1
  <2>3. e.key \in Int  BY <1>1, <2>2, KeyIsInt
  <2>4. lo[p] \in Int /\ hi[p] \in Int  BY <1>1
  <2>5. SUFFICES ASSUME a <= e.key, e.key < b PROVE FALSE  BY <2>3
  <2>6. lo[p] < heap[q].items[i].key /\ heap[q].items[i].key < hi[p]
    <3>1. lo[p] < e.key /\ e.key < hi[p]
      <4> DEFINE k == e.key
                 l == lo[p]
                 h == hi[p]
      <4>1. k \in Int /\ l \in Int /\ h \in Int /\ l < a /\ a <= k /\ k < b /\ b <= h
        BY <2>3, <2>4, <2>5
      <4> HIDE DEF k, l, h
      <4>2. l < k /\ k < h  BY ONLY <4>1, a \in Int, b \in Int
      <4> QED BY <4>2 DEF k, l, h
    <3> QED BY ONLY <2>2, <3>1
  <2>7. q = p
    BY ONLY <2>1, <2>2, <2>6, Shape(heap, root, height, lv, lo, hi), p \in 1 .. Len(heap),
       lv[p] = 1, LeafOnly
  <2>8. e.key < a \/ b <= e.key  BY <2>2, <2>7
  <2> QED BY <2>3, <2>5, <2>8
<1> QED BY <1>3 DEF Below

LEMMA FirstOfLeaf ==
  ASSUME NEW heap, NEW root, NEW height, NEW lv, NEW lo, NEW hi,
         Shape(heap, root, height, lv, lo, hi),
         NEW p, p \in 1 .. Len(heap), lv[p] = 1, Len(heap[p].items) >= 1
  PROVE  Below(heap, lo[p] + 1) = Below(heap, heap[p].items[1].key)
<1>1. /\ lo[p] \in Int /\ hi[p] \in Int /\ Len(heap[p].items) \in Nat
      /\ \A i \in 1 .. Len(heap[p].items) : heap[p].items[i].key \in 0 .. MaxKey
  BY ONLY Shape(heap, root, height, lv, lo, hi), p \in 1 .. Len(heap), ShapeTypes
<1>2. /\ \A i \in 1 .. Len(heap[p].items) :
           lo[p] < heap[p].items[i].key /\ heap[p].items[i].key < hi[p]
      /\ \A i, j \in 1 .. Len(heap[p].items) :
           i < j => heap[p].items[i].key < heap[p].items[j].key
  BY DEF Shape, Sorted, Between, Ascend
<1> DEFINE b == heap[p].items[1].key
<1>3. 1 \in 1 .. Len(heap[p].items)  BY <1>1
<1>4. b \in Int /\ lo[p] < b /\ b < hi[p]  BY <1>1, <1>2, <1>3, KeyIsInt
<1>5. \A i \in 1 .. Len(heap[p].items) : i # 1 => b < heap[p].items[i].key
  BY <1>2, <1>3
<1>6. \A i \in 1 .. Len(heap[p].items) : b <= heap[p].items[i].key
  <2> SUFFICES ASSUME NEW i, i \in 1 .. Len(heap[p].items)
               PROVE  b <= heap[p].items[i].key
    OBVIOUS
  <2>1. heap[p].items[i].key \in Int  BY <1>1, KeyIsInt
  <2>2. CASE i = 1  BY <1>4, <2>2
  <2>3. CASE i # 1
    <3>1. b < heap[p].items[i].key  BY <1>5, <2>3
    <3> QED BY <1>4, <2>1, <3>1
  <2> QED BY <2>2, <2>3
<1> HIDE DEF b
<1>7. /\ lo[p] + 1 \in Int /\ lo[p] < lo[p] + 1 /\ lo[p] + 1 <= b /\ b <= hi[p]
  BY ONLY <1>1, <1>4
<1>8. Below(heap, lo[p] + 1) = Below(heap, b)
  BY ONLY <1>4, <1>6, <1>7, Shape(heap, root, height, lv, lo, hi), p \in 1 .. Len(heap),
     lv[p] = 1, LeafGap
<1> QED BY <1>8 DEF b

\* The key after that of item i in a leaf, or the end of the leaf.
After(heap, hi, p, i) ==
  IF i = Len(heap[p].items) THEN hi[p] ELSE heap[p].items[i + 1].key

LEMMA NextInLeaf ==
  ASSUME NEW heap, NEW root, NEW height, NEW lv, NEW lo, NEW hi,
         Shape(heap, root, height, lv, lo, hi),
         NEW p, p \in 1 .. Len(heap), lv[p] = 1,
         NEW i, i \in 1 .. Len(heap[p].items)
  PROVE  Below(heap, heap[p].items[i].key + 1) = Below(heap, After(heap, hi, p, i))
<1> DEFINE n == Len(heap[p].items)
           a == heap[p].items[i].key
           b == IF i = n THEN hi[p] ELSE heap[p].items[i + 1].key
<1>1. /\ lo[p] \in Int /\ hi[p] \in Int /\ n \in Nat
      /\ \A j \in 1 .. n : heap[p].items[j].key \in 0 .. MaxKey
  BY ONLY Shape(heap, root, height, lv, lo, hi), p \in 1 .. Len(heap), ShapeTypes
<1>2. /\ \A j \in 1 .. n : lo[p] < heap[p].items[j].key /\ heap[p].items[j].key < hi[p]
      /\ \A j, k \in 1 .. n : j < k => heap[p].items[j].key < heap[p].items[k].key
  BY DEF Shape, Sorted, Between, Ascend
<1>3. a \in Int /\ lo[p] < a /\ a < hi[p]  BY <1>1, <1>2, KeyIsInt
<1>4. b \in Int /\ a < b /\ b <= hi[p]
  <2>1. CASE i = n
    <3>1. b = hi[p]  BY <2>1
    <3> HIDE DEF a, b
    <3> QED BY ONLY <1>1, <1>3, <3>1
  <2>2. CASE i # n
    <3>1. i + 1 \in 1 .. n /\ i < i + 1  BY <1>1, <2>2
    <3>2. heap[p].items[i + 1].key \in Int /\ a < heap[p].items[i + 1].key
          /\ heap[p].items[i + 1].key < hi[p]
      BY <1>1, <1>2, <3>1, KeyIsInt
    <3> QED BY <1>1, <2>2, <3>2
  <2> QED BY <2>1, <2>2
<1>5. ASSUME NEW j, j \in 1 .. n PROVE heap[p].items[j].key < a + 1 \/ b <= heap[p].items[j].key
  <2>1. heap[p].items[j].key \in Int  BY <1>1, <1>5, KeyIsInt
  <2>2. CASE j < i
    <3>1. heap[p].items[j].key < a  BY <1>2, <1>5, <2>2
    <3> QED BY <1>3, <2>1, <3>1
  <2>3. CASE j = i  BY <1>3, <2>3
  <2>4. CASE i < j
    <3>1. i # n /\ i + 1 \in 1 .. n /\ (j = i + 1 \/ i + 1 < j)  BY <1>1, <1>5, <2>4
    <3>2. heap[p].items[i + 1].key \in Int  BY <1>1, <3>1, KeyIsInt
    <3>3. heap[p].items[i + 1].key <= heap[p].items[j].key
      <4>1. CASE j = i + 1  BY <2>1, <4>1
      <4>2. CASE i + 1 < j
        <5>1. heap[p].items[i + 1].key < heap[p].items[j].key  BY <1>2, <1>5, <3>1, <4>2
        <5> QED BY <2>1, <3>2, <5>1
      <4> QED BY <3>1, <4>1, <4>2
    <3> QED BY <3>1, <3>3
  <2> QED BY <1>1, <1>5, <2>2, <2>3, <2>4
<1> HIDE DEF a, b
<1>6. a + 1 \in Int /\ lo[p] < a + 1 /\ a + 1 <= b /\ b <= hi[p] /\ b \in Int
  BY ONLY <1>1, <1>3, <1>4
<1>7. Below(heap, a + 1) = Below(heap, b)
  BY ONLY <1>5, <1>6, Shape(heap, root, height, lv, lo, hi), p \in 1 .. Len(heap),
     lv[p] = 1, LeafGap
<1> QED BY <1>7 DEF a, b, After

\* With one entry delivered more.
LEMMA BelowNext ==
  ASSUME NEW heap, NEW root, NEW height, NEW lv, NEW lo, NEW hi,
         Shape(heap, root, height, lv, lo, hi), NEW e, e \in AllItems(heap)
  PROVE  /\ e.key \in Int /\ e \in Entry
         /\ Below(heap, e.key + 1) = Below(heap, e.key) \cup {e}
<1>1. /\ heap \in Seq(NodeSet)
      /\ \A q \in 1 .. Len(heap) : heap[q] \in NodeSet
  BY ONLY Shape(heap, root, height, lv, lo, hi), ShapeTypes
<1>2. \A x : x \in AllItems(heap) <=>
        \E q \in 1 .. Len(heap) : \E i \in 1 .. Len(heap[q].items) : x = heap[q].items[i]
  BY ONLY <1>1, ItemsIn
<1>3. ASSUME NEW x, x \in AllItems(heap) PROVE x \in Entry /\ x.key \in Int
  <2>1. PICK q \in 1 .. Len(heap) : \E i \in 1 .. Len(heap[q].items) : x = heap[q].items[i]
    BY <1>2, <1>3
  <2>2. heap[q] \in NodeSet  BY <1>1
  <2> QED BY <2>1, <2>2, KeyTypes, KeyIsInt
<1>4. \A x, y \in AllItems(heap) : x.key = y.key => x = y
  BY ONLY Shape(heap, root, height, lv, lo, hi), KeysDiffer
<1>5. ASSUME NEW x, x \in AllItems(heap)
      PROVE  x.key < e.key + 1 <=> x.key < e.key \/ x = e
  BY <1>3, <1>4, <1>5
<1> QED BY <1>3, <1>5 DEF Below

\* The stack of the iterator: a frame for each level from the root down, and the index
\* in each frame tells which child comes next.
Frame == [node : Nat, index : Nat]

Comes(heap, root, stack, j) ==
  IF j = 1 THEN root ELSE heap[stack[j - 1].node].children[stack[j - 1].index + 1]

Frames(heap, root, height, lv, stack) ==
  /\ stack \in Seq(Frame)
  /\ \A j \in 1 .. Len(stack) :
       /\ stack[j].node \in 1 .. Len(heap)
       /\ lv[stack[j].node] = height + 1 - j
       /\ stack[j].index <= Len(heap[stack[j].node].items)
       /\ stack[j].node = Comes(heap, root, stack, j)

LEMMA FramesTop ==
  ASSUME NEW heap, NEW root, NEW height, NEW lv, NEW lo, NEW hi, NEW stack,
         Shape(heap, root, height, lv, lo, hi),
         Frames(heap, root, height, lv, stack), stack # <<>>
  PROVE  /\ Last(stack) \in Frame /\ Len(stack) \in 1 .. height
         /\ Last(stack) = stack[Len(stack)]
         /\ Last(stack).node \in 1 .. Len(heap)
         /\ lv[Last(stack).node] = height + 1 - Len(stack)
         /\ Last(stack).index \in 0 .. Len(heap[Last(stack).node].items)
         /\ Len(heap[Last(stack).node].items) \in Nat
<1>1. stack \in Seq(Frame)  BY DEF Frames
<1>2. Len(stack) \in Nat /\ Len(stack) \in 1 .. Len(stack) /\ Last(stack) = stack[Len(stack)]
  BY <1>1 DEF Last
<1>3. /\ stack[Len(stack)].node \in 1 .. Len(heap)
      /\ lv[stack[Len(stack)].node] = height + 1 - Len(stack)
      /\ stack[Len(stack)].index <= Len(heap[stack[Len(stack)].node].items)
  BY <1>2 DEF Frames
<1>4. stack[Len(stack)] \in Frame  BY <1>1, <1>2
<1>5. stack[Len(stack)].index \in Nat  BY <1>4 DEF Frame
<1>6. /\ lv[stack[Len(stack)].node] \in 1 .. height /\ height \in 1 .. Len(heap)
      /\ Len(heap) \in Nat /\ Len(heap[stack[Len(stack)].node].items) \in Nat
  BY ONLY <1>3, Shape(heap, root, height, lv, lo, hi), ShapeTypes
<1>7. Len(stack) \in 1 .. height  BY ONLY <1>2, <1>3, <1>6
<1>8. stack[Len(stack)].index \in 0 .. Len(heap[stack[Len(stack)].node].items)
  BY ONLY <1>3, <1>5, <1>6
<1> QED BY ONLY <1>2, <1>3, <1>4, <1>6, <1>7, <1>8

\* The node whose frame comes on the stack.
Following(heap, root, stack) ==
  IF stack = <<>> THEN root
  ELSE heap[Last(stack).node].children[Last(stack).index + 1]

LEMMA FramesPushed ==
  ASSUME NEW heap, NEW root, NEW height, NEW lv, NEW stack,
         Frames(heap, root, height, lv, stack), height \in Nat, Len(heap) \in Nat,
         NEW p, p \in 1 .. Len(heap), lv[p] = height - Len(stack),
         Len(heap[p].items) \in Nat, p = Following(heap, root, stack),
         NEW f, f = [node |-> p, index |-> 0]
  PROVE  /\ Frames(heap, root, height, lv, Append(stack, f))
         /\ Append(stack, f) # <<>> /\ Last(Append(stack, f)) = f
<1> DEFINE new == Append(stack, f)
           n == Len(stack)
<1>1. stack \in Seq(Frame) /\ n \in Nat  BY DEF Frames
<1>2. f \in Frame /\ f.node = p /\ f.index = 0
  <2>1. p \in Nat /\ 0 \in Nat  OBVIOUS
  <2> QED BY <2>1 DEF Frame
<1>3. /\ new \in Seq(Frame) /\ Len(new) = n + 1 /\ new[n + 1] = f
      /\ \A j \in 1 .. n : new[j] = stack[j]
  BY ONLY <1>1, <1>2
<1>4. new # <<>> /\ Last(new) = f
  <2>1. Len(new) # 0  BY <1>1, <1>3
  <2> QED BY <1>3, <2>1 DEF Last
<1> HIDE DEF new
<1>5. ASSUME NEW j, j \in 1 .. n
      PROVE  /\ new[j].node \in 1 .. Len(heap)
             /\ lv[new[j].node] = height + 1 - j
             /\ new[j].index <= Len(heap[new[j].node].items)
             /\ new[j].node = Comes(heap, root, new, j)
  <2>1. new[j] = stack[j]  BY <1>3, <1>5
  <2>2. j = 1 \/ j - 1 \in 1 .. n  BY <1>1, <1>5
  <2>3. j # 1 => new[j - 1] = stack[j - 1]  BY <1>3, <2>2
  <2>4. Comes(heap, root, new, j) = Comes(heap, root, stack, j)  BY <2>3 DEF Comes
  <2> QED BY <2>1, <2>4, <1>5 DEF Frames
<1>6. f.node = Comes(heap, root, new, n + 1)
  <2>1. CASE stack = <<>>
    <3>1. n + 1 = 1  BY <2>1
    <3> QED BY <1>2, <2>1, <3>1 DEF Comes, Following
  <2>2. CASE stack # <<>>
    <3>1. n \in 1 .. n /\ n + 1 # 1 /\ (n + 1) - 1 = n  BY <1>1, <2>2
    <3>2. new[n] = Last(stack)  BY <1>3, <3>1 DEF Last
    <3> QED BY <1>2, <2>2, <3>1, <3>2 DEF Comes, Following
  <2> QED BY <2>1, <2>2
<1>7. height + 1 - (n + 1) = height - n  BY ONLY <1>1, height \in Nat
<1>8. Frames(heap, root, height, lv, new)
  <2> SUFFICES ASSUME NEW j, j \in 1 .. n + 1
               PROVE  /\ new[j].node \in 1 .. Len(heap)
                      /\ lv[new[j].node] = height + 1 - j
                      /\ new[j].index <= Len(heap[new[j].node].items)
                      /\ new[j].node = Comes(heap, root, new, j)
    BY <1>3 DEF Frames
  <2>1. j \in 1 .. n \/ j = n + 1  BY <1>1
  <2>2. CASE j = n + 1
    <3>1. new[j] = f /\ lv[p] = height + 1 - j  BY <1>3, <1>7, <2>2
    <3>2. 0 <= Len(heap[p].items)  OBVIOUS
    <3> QED BY <1>2, <1>6, <2>2, <3>1, <3>2
  <2> QED BY <1>5, <2>1, <2>2
<1> QED BY <1>4, <1>8 DEF new

LEMMA FramesPopped ==
  ASSUME NEW heap, NEW root, NEW height, NEW lv, NEW stack,
         Frames(heap, root, height, lv, stack), stack # <<>>
  PROVE  /\ Frames(heap, root, height, lv, Front(stack))
         /\ Len(Front(stack)) = Len(stack) - 1
         /\ Last(stack).node = Following(heap, root, Front(stack))
<1> DEFINE new == Front(stack)
           n == Len(stack)
<1>1. stack \in Seq(Frame) /\ n \in Nat /\ n >= 1  BY DEF Frames
<1>2. /\ new \in Seq(Frame) /\ Len(new) = n - 1 /\ \A j \in 1 .. n - 1 : new[j] = stack[j]
  BY ONLY <1>1, stack # <<>>, FrontOf
<1> HIDE DEF new
<1>3. ASSUME NEW j, j \in 1 .. n - 1
      PROVE  /\ new[j].node \in 1 .. Len(heap)
             /\ lv[new[j].node] = height + 1 - j
             /\ new[j].index <= Len(heap[new[j].node].items)
             /\ new[j].node = Comes(heap, root, new, j)
  <2>1. new[j] = stack[j] /\ j \in 1 .. n  BY <1>1, <1>2, <1>3
  <2>2. j = 1 \/ j - 1 \in 1 .. n - 1  BY <1>1, <1>3
  <2>3. j # 1 => new[j - 1] = stack[j - 1]  BY <1>2, <2>2
  <2>4. Comes(heap, root, new, j) = Comes(heap, root, stack, j)  BY <2>3 DEF Comes
  <2> QED BY <2>1, <2>4 DEF Frames
<1>4. Frames(heap, root, height, lv, new)  BY <1>2, <1>3 DEF Frames
<1>5. Last(stack).node = Comes(heap, root, stack, n)  BY <1>1 DEF Frames, Last
<1>6. CASE n = 1
  <2>1. new = <<>>  BY <1>2, <1>6
  <2> QED BY <1>2, <1>4, <1>5, <1>6, <2>1 DEF Comes, Following, new
<1>7. CASE n # 1
  <2>1. n - 1 \in 1 .. n - 1
    <3>1. \A k \in Nat : k >= 1 /\ k # 1 => k - 1 \in 1 .. k - 1  OBVIOUS
    <3> QED BY <1>1, <1>7, <3>1, Zenon
  <2>2. new # <<>> /\ Last(new) = stack[n - 1]
    <3>1. Len(new) # 0  BY <1>2, <2>1
    <3>2. new # <<>>  BY <3>1
    <3> QED BY <1>2, <2>1, <3>2 DEF Last
  <2> QED BY <1>2, <1>4, <1>5, <1>7, <2>2 DEF Comes, Following, new
<1> QED BY <1>6, <1>7

Indexed(stack, i) == [stack EXCEPT ![Len(stack)].index = i]

LEMMA FramesIndexed ==
  ASSUME NEW heap, NEW root, NEW height, NEW lv, NEW stack,
         Frames(heap, root, height, lv, stack), stack # <<>>,
         NEW i, i \in 0 .. Len(heap[Last(stack).node].items),
         Len(heap[Last(stack).node].items) \in Nat,
         NEW new, new = Indexed(stack, i)
  PROVE  /\ Frames(heap, root, height, lv, new) /\ new # <<>> /\ Len(new) = Len(stack)
         /\ Last(new).node = Last(stack).node /\ Last(new).index = i
<1> DEFINE n == Len(stack)
<1>1. stack \in Seq(Frame) /\ n \in Nat /\ n >= 1 /\ n \in 1 .. n  BY DEF Frames
<1>2. stack[n] \in Frame /\ i \in Nat  BY <1>1
<1>3. [stack[n] EXCEPT !.index = i] \in Frame
      /\ [stack[n] EXCEPT !.index = i].node = stack[n].node
      /\ [stack[n] EXCEPT !.index = i].index = i
  BY ONLY <1>2 DEF Frame
<1> DEFINE f == [stack[n] EXCEPT !.index = i]
<1>4. new = [stack EXCEPT ![n] = f]  BY DEF Indexed
<1> HIDE DEF f
<1>5. f \in Frame /\ f.node = stack[n].node /\ f.index = i  BY <1>3 DEF f
<1>6. /\ new \in Seq(Frame) /\ Len(new) = n /\ new[n] = f
      /\ \A j \in 1 .. n : j # n => new[j] = stack[j]
  BY ONLY <1>1, <1>4, <1>5
<1>7. new # <<>> /\ Last(new) = f /\ Last(stack) = stack[n]
  <2>1. Len(new) # 0  BY <1>1, <1>6
  <2>2. new # <<>>  BY <2>1
  <2> QED BY <1>6, <2>2 DEF Last
<1>8. ASSUME NEW j, j \in 1 .. n
      PROVE  /\ new[j].node \in 1 .. Len(heap)
             /\ lv[new[j].node] = height + 1 - j
             /\ new[j].index <= Len(heap[new[j].node].items)
             /\ new[j].node = Comes(heap, root, new, j)
  <2>1. /\ stack[j].node \in 1 .. Len(heap)
        /\ lv[stack[j].node] = height + 1 - j
        /\ stack[j].index <= Len(heap[stack[j].node].items)
        /\ stack[j].node = Comes(heap, root, stack, j)
    BY <1>8 DEF Frames
  <2>2. j = 1 \/ (j - 1 \in 1 .. n /\ j - 1 # n)  BY <1>1, <1>8
  <2>3. j # 1 => new[j - 1] = stack[j - 1]  BY <1>6, <2>2
  <2>4. Comes(heap, root, new, j) = Comes(heap, root, stack, j)  BY ONLY <2>3 DEF Comes
  <2>5. new[j].node = stack[j].node  BY <1>5, <1>6, <1>8
  <2>6. new[j].index <= Len(heap[new[j].node].items)
    <3>1. CASE j = n
      <4>1. new[j].index = i /\ new[j].node = Last(stack).node
        BY <1>5, <1>6, <1>7, <3>1
      <4>2. i <= Len(heap[Last(stack).node].items)  OBVIOUS
      <4> QED BY <4>1, <4>2
    <3>2. CASE j # n  BY <1>6, <1>8, <2>1, <3>2
    <3> QED BY <3>1, <3>2
  <2> QED BY <2>1, <2>4, <2>5, <2>6
<1>9. Frames(heap, root, height, lv, new)  BY <1>6, <1>8 DEF Frames
<1> QED BY <1>5, <1>6, <1>7, <1>9

Iter == [slots : Nat, stack : Seq(Frame), seeked : BOOLEAN,
         step : {"idle", "down", "up", "item", "end"}]

\* What was delivered, told by where the iterator is: the entries below m.
At(heap, lo, hi, it, m) ==
  LET top == Last(it.stack) IN
  /\ m \in Int /\ it.step # "end"
  /\ ~it.seeked => it.step = "idle" /\ it.stack = <<>> /\ m = 0
  /\ it.seeked => it.stack # <<>>
  /\ it.seeked /\ it.step \in {"idle", "item"} =>
       /\ top.index < Len(heap[top.node].items)
       /\ m = heap[top.node].items[top.index + 1].key + (IF it.step = "idle" THEN 1 ELSE 0)
  /\ it.step = "down" => ~IsLeaf(heap[top.node]) /\ top.index = 0 /\ m = lo[top.node] + 1
  /\ it.step = "up" => m = hi[top.node]

Walks(lv, lo, hi, it, m) ==
  /\ Shape(nodes, tree.root, tree.height, lv, lo, hi) /\ Sizes(nodes, tree.root)
  /\ it \in Iter /\ Frames(nodes, tree.root, tree.height, lv, it.stack)
  /\ At(nodes, lo, hi, it, m)

LEMMA IterParts ==
  ASSUME NEW stack, stack \in Seq(Frame),
         NEW step, step \in {"idle", "down", "up", "item", "end"}, iter \in Iter,
         NEW it, it = [iter EXCEPT !.stack = stack, !.step = step]
  PROVE  /\ it \in Iter /\ it.slots = iter.slots /\ it.stack = stack
         /\ it.seeked = iter.seeked /\ it.step = step
BY DEF Iter

LEMMA ItemsThere ==
  ASSUME NEW p, p \in 1 .. Len(nodes), Sizes(nodes, tree.root), Len(nodes[p].items) \in Nat
  PROVE  Len(nodes[p].items) >= 1
<1>1. Len(nodes[p].items) \in (IF p = tree.root THEN 1 ELSE MinItems) .. MaxItems
  BY DEF Sizes
<1>2. MinItems \in Nat /\ MinItems >= 1  BY BTreeAssumption DEF MinItems
<1> QED BY <1>1, <1>2

LEMMA WalkPushed ==
  ASSUME NEW lv, NEW lo, NEW hi,
         Shape(nodes, tree.root, tree.height, lv, lo, hi), Sizes(nodes, tree.root),
         iter \in Iter,
         NEW stack, Frames(nodes, tree.root, tree.height, lv, stack),
         NEW p, p \in 1 .. Len(nodes), lv[p] = tree.height - Len(stack),
         p = Following(nodes, tree.root, stack)
  PROVE  \E m : /\ Walks(lv, lo, hi, Pushed(stack, p), m)
                /\ Below(nodes, m) = Below(nodes, lo[p] + 1)
                /\ Pushed(stack, p).slots = iter.slots
<1>1. /\ tree.height \in Nat /\ Len(nodes) \in Nat /\ Len(nodes[p].items) \in Nat
      /\ lo[p] \in Int
      /\ \A i \in 1 .. Len(nodes[p].items) : nodes[p].items[i].key \in 0 .. MaxKey
  BY ONLY Shape(nodes, tree.root, tree.height, lv, lo, hi), p \in 1 .. Len(nodes), ShapeTypes
<1> DEFINE f == [node |-> p, index |-> 0]
           new == Append(stack, f)
           s == IF IsLeaf(nodes[p]) THEN "item" ELSE "down"
           it == Pushed(stack, p)
<1>2. Frames(nodes, tree.root, tree.height, lv, new) /\ new # <<>> /\ Last(new) = f
  <2>1. f = [node |-> p, index |-> 0]  OBVIOUS
  <2> HIDE DEF f
  <2> SUFFICES /\ Frames(nodes, tree.root, tree.height, lv, Append(stack, f))
               /\ Append(stack, f) # <<>> /\ Last(Append(stack, f)) = f
    OBVIOUS
  <2> QED BY ONLY <1>1, <2>1, Frames(nodes, tree.root, tree.height, lv, stack),
         p \in 1 .. Len(nodes), lv[p] = tree.height - Len(stack),
         p = Following(nodes, tree.root, stack), FramesPushed
<1>3. f.node = p /\ f.index = 0  OBVIOUS
<1>4. it = [iter EXCEPT !.seeked = TRUE, !.stack = new, !.step = s]  BY DEF Pushed
<1>5. s \in {"item", "down"} /\ (s = "item" <=> IsLeaf(nodes[p]))  OBVIOUS
<1> HIDE DEF f, new, s, it
<1>6. new \in Seq(Frame) /\ iter.slots \in Nat  BY <1>2 DEF Frames, Iter
<1>7. it \in Iter /\ it.slots = iter.slots /\ it.stack = new /\ it.seeked = TRUE /\ it.step = s
  <2>1. s \in {"idle", "down", "up", "item", "end"}  BY <1>5
  <2> QED BY ONLY <1>4, <1>6, <2>1, iter \in Iter DEF Iter
<1>8. Len(nodes[p].items) >= 1 /\ 0 < Len(nodes[p].items) /\ 0 + 1 = 1
      /\ 1 \in 1 .. Len(nodes[p].items)
  <2>1. Len(nodes[p].items) >= 1
    BY ONLY <1>1, p \in 1 .. Len(nodes), Sizes(nodes, tree.root), ItemsThere
  <2> QED BY ONLY <1>1, <2>1
<1>9. CASE IsLeaf(nodes[p])
  <2> DEFINE m == nodes[p].items[1].key
  <2>1. m \in Int
    <3>1. nodes[p].items[1].key \in Int  BY ONLY <1>1, <1>8, KeyIsInt
    <3> QED BY <3>1
  <2>2. lv[p] = 1  BY <1>9 DEF IsLeaf, Shape, Branches, Branch
  <2>3. Below(nodes, lo[p] + 1) = Below(nodes, m)
    BY ONLY <1>8, <2>2, p \in 1 .. Len(nodes),
       Shape(nodes, tree.root, tree.height, lv, lo, hi), FirstOfLeaf
  <2>4. m + 0 = m  BY ONLY <2>1
  <2>5. nodes[p].items[0 + 1].key + (IF it.step = "idle" THEN 1 ELSE 0) = m
    <3>1. it.step # "idle"  BY <1>5, <1>7
    <3>2. nodes[p].items[0 + 1].key = m  BY <1>8
    <3> HIDE DEF m
    <3> QED BY ONLY <2>4, <3>1, <3>2
  <2> HIDE DEF m
  <2>6. At(nodes, lo, hi, it, m)
    BY ONLY <1>2, <1>3, <1>5, <1>7, <1>8, <1>9, <2>1, <2>5 DEF At
  <2>7. Walks(lv, lo, hi, it, m)
    BY ONLY <1>2, <1>7, <2>6, Shape(nodes, tree.root, tree.height, lv, lo, hi),
       Sizes(nodes, tree.root) DEF Walks
  <2>8. Walks(lv, lo, hi, it, m) /\ Below(nodes, m) = Below(nodes, lo[p] + 1)
        /\ it.slots = iter.slots
    BY ONLY <1>7, <2>3, <2>7
  <2> QED BY <2>8, Zenon DEF it
<1>10. CASE ~IsLeaf(nodes[p])
  <2>1. lo[p] + 1 \in Int  BY ONLY <1>1
  <2>2. At(nodes, lo, hi, it, lo[p] + 1)
    BY ONLY <1>2, <1>3, <1>5, <1>7, <1>10, <2>1 DEF At
  <2>3. Walks(lv, lo, hi, it, lo[p] + 1)
    BY ONLY <1>2, <1>7, <2>2, Shape(nodes, tree.root, tree.height, lv, lo, hi),
       Sizes(nodes, tree.root) DEF Walks
  <2> QED BY <1>7, <2>3, Zenon DEF it
<1> QED BY <1>9, <1>10

\* The frame on top, and what its node says.
LEMMA TopIs ==
  ASSUME NEW lv, NEW lo, NEW hi, NEW m, Walks(lv, lo, hi, iter, m), iter.stack # <<>>
  PROVE  /\ Top.node \in 1 .. Len(nodes) /\ Top.index \in 0 .. Len(nodes[Top.node].items)
         /\ Len(nodes[Top.node].items) \in Nat /\ Len(nodes[Top.node].children) \in Nat
         /\ lv[Top.node] = tree.height + 1 - Len(iter.stack)
         /\ Len(iter.stack) \in 1 .. tree.height /\ tree.height \in Nat
         /\ IsLeaf(nodes[Top.node]) <=> lv[Top.node] = 1
         /\ ~IsLeaf(nodes[Top.node]) =>
              Len(nodes[Top.node].children) = Len(nodes[Top.node].items) + 1
<1>1. /\ Shape(nodes, tree.root, tree.height, lv, lo, hi)
      /\ Frames(nodes, tree.root, tree.height, lv, iter.stack)
  BY DEF Walks
<1>2. /\ Len(iter.stack) \in 1 .. tree.height
      /\ Last(iter.stack).node \in 1 .. Len(nodes)
      /\ lv[Last(iter.stack).node] = tree.height + 1 - Len(iter.stack)
      /\ Last(iter.stack).index \in 0 .. Len(nodes[Last(iter.stack).node].items)
      /\ Len(nodes[Last(iter.stack).node].items) \in Nat
  BY ONLY <1>1, iter.stack # <<>>, FramesTop
<1>3. /\ tree.height \in 1 .. Len(nodes) /\ Len(nodes) \in Nat
      /\ Len(nodes[Last(iter.stack).node].children) \in Nat
  BY ONLY <1>1, <1>2, ShapeTypes
<1>4. Branch(nodes, lv, lo, hi, Last(iter.stack).node)
  BY <1>1, <1>2 DEF Shape, Branches
<1> QED BY <1>2, <1>3, <1>4 DEF Top, Branch, IsLeaf

\* A child of the node on top comes on the stack.
LEMMA WalkDown ==
  ASSUME NEW lv, NEW lo, NEW hi,
         Shape(nodes, tree.root, tree.height, lv, lo, hi), Sizes(nodes, tree.root),
         iter \in Iter,
         NEW stack, Frames(nodes, tree.root, tree.height, lv, stack), stack # <<>>,
         ~IsLeaf(nodes[Last(stack).node]),
         NEW p, p = nodes[Last(stack).node].children[Last(stack).index + 1]
  PROVE  \E m : /\ Walks(lv, lo, hi, Pushed(stack, p), m)
                /\ Below(nodes, m) =
                     Below(nodes, Low(nodes, lo, Last(stack).node, Last(stack).index + 1) + 1)
                /\ Pushed(stack, p).slots = iter.slots
<1> DEFINE q == Last(stack).node
           i == Last(stack).index + 1
<1>1. /\ q \in 1 .. Len(nodes) /\ lv[q] = tree.height + 1 - Len(stack)
      /\ Last(stack).index \in 0 .. Len(nodes[q].items) /\ Len(nodes[q].items) \in Nat
      /\ Len(stack) \in 1 .. tree.height
  BY ONLY Shape(nodes, tree.root, tree.height, lv, lo, hi),
     Frames(nodes, tree.root, tree.height, lv, stack), stack # <<>>, FramesTop
<1>2. Len(nodes[q].children) = Len(nodes[q].items) + 1
  BY <1>1 DEF Shape, Branches, Branch, IsLeaf
<1>3. p = Following(nodes, tree.root, stack)  BY DEF Following
<1>4. i \in 1 .. Len(nodes[q].children) /\ p = nodes[q].children[i]
  <2>1. \A n, k : n \in Nat /\ k \in 0 .. n => k + 1 \in 1 .. n + 1  OBVIOUS
  <2>2. i \in 1 .. Len(nodes[q].items) + 1  BY <1>1, <2>1, Zenon
  <2> QED BY <1>2, <2>2, Zenon
<1> HIDE DEF q, i
<1>5. /\ p \in 1 .. Len(nodes) /\ lv[p] = lv[q] - 1 /\ lo[p] = Low(nodes, lo, q, i)
  BY ONLY <1>1, <1>4, Shape(nodes, tree.root, tree.height, lv, lo, hi), ChildFacts
<1>6. tree.height \in Nat
  <2>1. Len(nodes) \in Nat /\ tree.height \in 1 .. Len(nodes)
    BY ONLY Shape(nodes, tree.root, tree.height, lv, lo, hi), ShapeTypes
  <2> QED BY <2>1
<1>7. lv[p] = tree.height - Len(stack)  BY ONLY <1>1, <1>5, <1>6
<1>8. \E m : /\ Walks(lv, lo, hi, Pushed(stack, p), m)
             /\ Below(nodes, m) = Below(nodes, lo[p] + 1)
             /\ Pushed(stack, p).slots = iter.slots
  BY ONLY <1>3, <1>5, <1>7, Shape(nodes, tree.root, tree.height, lv, lo, hi),
     Sizes(nodes, tree.root), iter \in Iter,
     Frames(nodes, tree.root, tree.height, lv, stack), WalkPushed
<1>9. lo[p] = Low(nodes, lo, Last(stack).node, Last(stack).index + 1)
  BY <1>5 DEF q, i
<1> QED BY ONLY <1>8, <1>9

LEMMA IterDownWalks ==
  ASSUME NEW lv, NEW lo, NEW hi, NEW m, Walks(lv, lo, hi, iter, m), IterDown
  PROVE  \E m2 : /\ Walks(lv, lo, hi, iter', m2) /\ Below(nodes, m2) = Below(nodes, m)
                 /\ iter'.slots = iter.slots
<1>1. /\ Shape(nodes, tree.root, tree.height, lv, lo, hi) /\ Sizes(nodes, tree.root)
      /\ iter \in Iter /\ Frames(nodes, tree.root, tree.height, lv, iter.stack)
      /\ At(nodes, lo, hi, iter, m)
  BY DEF Walks
<1>2. iter.step = "down" /\ iter' = Pushed(iter.stack, nodes[Top.node].children[1])
  BY DEF IterDown
<1>3. /\ iter.stack # <<>> /\ ~IsLeaf(nodes[Last(iter.stack).node])
      /\ Last(iter.stack).index = 0 /\ m = lo[Last(iter.stack).node] + 1
  BY ONLY <1>1, <1>2 DEF At, Iter
<1>4. /\ Last(iter.stack).index + 1 = 1
      /\ Low(nodes, lo, Last(iter.stack).node, Last(iter.stack).index + 1)
           = lo[Last(iter.stack).node]
  BY ONLY <1>3 DEF Low
<1> DEFINE p == nodes[Last(iter.stack).node].children[Last(iter.stack).index + 1]
<1>5. iter' = Pushed(iter.stack, p)  BY <1>2, <1>4 DEF Top
<1>6. p = nodes[Last(iter.stack).node].children[Last(iter.stack).index + 1]  OBVIOUS
<1> HIDE DEF p
<1>7. \E m2 : /\ Walks(lv, lo, hi, Pushed(iter.stack, p), m2)
              /\ Below(nodes, m2) =
                   Below(nodes, Low(nodes, lo, Last(iter.stack).node, Last(iter.stack).index + 1) + 1)
              /\ Pushed(iter.stack, p).slots = iter.slots
  BY ONLY <1>1, <1>3, <1>6, WalkDown
<1> QED BY ONLY <1>3, <1>4, <1>5, <1>7

LEMMA IterUpWalks ==
  ASSUME NEW lv, NEW lo, NEW hi, NEW m, Walks(lv, lo, hi, iter, m), IterUp,
         Below(nodes, m) # AllItems(nodes)
  PROVE  \E m2 : /\ Walks(lv, lo, hi, iter', m2) /\ Below(nodes, m2) = Below(nodes, m)
                 /\ iter'.slots = iter.slots
<1>1. /\ Shape(nodes, tree.root, tree.height, lv, lo, hi) /\ Sizes(nodes, tree.root)
      /\ iter \in Iter /\ Frames(nodes, tree.root, tree.height, lv, iter.stack)
      /\ At(nodes, lo, hi, iter, m)
  BY DEF Walks
<1> DEFINE stack == Front(iter.stack)
           c == Last(iter.stack).node
           step == IF stack = <<>> THEN "end"
                   ELSE IF Last(stack).index < Len(nodes[Last(stack).node].items)
                        THEN "item" ELSE "up"
<1>2. iter.step = "up" /\ iter' = [iter EXCEPT !.stack = stack, !.step = step]
  BY DEF IterUp, Popped
<1>3. iter.stack # <<>> /\ iter.seeked = TRUE /\ m = hi[c] /\ m \in Int
  BY <1>1, <1>2 DEF At, Iter
<1>4. /\ Frames(nodes, tree.root, tree.height, lv, stack)
      /\ Len(stack) = Len(iter.stack) - 1
      /\ c = Following(nodes, tree.root, stack)
  <2> DEFINE s == iter.stack
             r == tree.root
             h == tree.height
  <2>1. Frames(nodes, r, h, lv, s) /\ s # <<>>  BY <1>1, <1>3
  <2> SUFFICES /\ Frames(nodes, r, h, lv, Front(s)) /\ Len(Front(s)) = Len(s) - 1
               /\ Last(s).node = Following(nodes, r, Front(s))
    OBVIOUS
  <2> HIDE DEF s, r, h
  <2> QED BY ONLY <2>1, FramesPopped
<1>5. c \in 1 .. Len(nodes)
  BY ONLY <1>1, <1>3, FramesTop
<1>6. stack # <<>>
  <2> SUFFICES ASSUME stack = <<>> PROVE FALSE  OBVIOUS
  <2>1. c = tree.root  BY <1>4 DEF Following
  <2>2. hi[c] = MaxKey + 1  BY <1>1, <2>1 DEF Shape, Typed
  <2>3. /\ nodes \in Seq(NodeSet)
        /\ \A p \in 1 .. Len(nodes) : \A i \in 1 .. Len(nodes[p].items) :
             nodes[p].items[i].key \in 0 .. MaxKey
    BY ONLY <1>1, ShapeTypes
  <2>4. \A e : e \in AllItems(nodes) <=>
          \E p \in 1 .. Len(nodes) : \E i \in 1 .. Len(nodes[p].items) :
            e = nodes[p].items[i]
    BY ONLY <2>3, ItemsIn
  <2>5. ASSUME NEW e, e \in AllItems(nodes) PROVE e.key < MaxKey + 1
    <3>1. e.key \in 0 .. MaxKey  BY <2>3, <2>4, <2>5
    <3> QED BY <3>1, BTreeAssumption
  <2>6. Below(nodes, m) = AllItems(nodes)  BY <1>3, <2>2, <2>5 DEF Below
  <2> QED BY <2>6
<1> DEFINE q == Last(stack).node
           i == Last(stack).index + 1
           n == Len(nodes[q].items)
<1>7. c = nodes[q].children[i]  BY <1>4, <1>6 DEF Following
<1>8. /\ q \in 1 .. Len(nodes) /\ lv[q] = tree.height + 1 - Len(stack)
      /\ Last(stack).index \in 0 .. n /\ n \in Nat
  BY ONLY <1>1, <1>4, <1>6, FramesTop
<1>9. Len(iter.stack) \in Nat /\ Len(stack) = Len(iter.stack) - 1
      /\ Len(iter.stack) \in 1 .. tree.height /\ tree.height \in Nat
  <2>2. Len(iter.stack) \in 1 .. tree.height /\ tree.height \in Nat
    BY ONLY <1>3, Walks(lv, lo, hi, iter, m), TopIs
  <2> QED BY <1>4, <2>2
<1>10. ~IsLeaf(nodes[q])
  <2>1. lv[q] # 1  BY ONLY <1>8, <1>9
  <2> QED BY <1>1, <1>8, <2>1 DEF Shape, Branches, Branch, IsLeaf
<1>11. Len(nodes[q].children) = n + 1  BY <1>1, <1>8, <1>10 DEF Shape, Branches, Branch, IsLeaf
<1>12. i \in 1 .. n + 1 /\ (i = n + 1 <=> ~(Last(stack).index < n))
  <2>1. \A k, a : a \in Nat /\ k \in 0 .. a =>
          k + 1 \in 1 .. a + 1 /\ (k + 1 = a + 1 <=> ~(k < a))
    OBVIOUS
  <2> QED BY <1>8, <2>1, Zenon
<1>13. i \in 1 .. Len(nodes[q].children)  BY <1>11, <1>12, Zenon
<1>14. hi[c] = High(nodes, hi, q, i)
  <2> HIDE DEF stack, c, q, i, n
  <2> QED BY ONLY <1>1, <1>7, <1>8, <1>13, ChildFacts
<1>15. step = (IF Last(stack).index < n THEN "item" ELSE "up")  BY <1>6
<1>16. step \in {"idle", "down", "up", "item", "end"}  BY <1>15
<1>17. stack \in Seq(Frame)  BY <1>4 DEF Frames
<1> HIDE DEF stack, step
<1>18. /\ iter' \in Iter /\ iter'.slots = iter.slots /\ iter'.stack = stack
       /\ iter'.seeked = TRUE /\ iter'.step = step
  BY ONLY <1>1, <1>2, <1>3, <1>16, <1>17 DEF Iter
<1>19. At(nodes, lo, hi, iter', m)
  <2>1. CASE Last(stack).index < n
    <3>1. step = "item"  BY <1>15, <2>1
    <3>2. m = nodes[q].items[i].key  BY <1>3, <1>12, <1>14, <2>1 DEF High
    <3>3. nodes[q].items[i].key + 0 = nodes[q].items[i].key  BY <1>3, <3>2
    <3>4. m = nodes[q].items[i].key + (IF step = "idle" THEN 1 ELSE 0)
      BY ONLY <3>1, <3>2, <3>3
    <3> QED BY ONLY <1>3, <1>6, <1>18, <2>1, <3>1, <3>4 DEF At
  <2>2. CASE ~(Last(stack).index < n)
    <3>1. step = "up"  BY <1>15, <2>2
    <3>2. m = hi[q]  BY <1>3, <1>12, <1>14, <2>2 DEF High
    <3> QED BY ONLY <1>3, <1>6, <1>18, <3>1, <3>2 DEF At
  <2> QED BY <2>1, <2>2
<1>20. Walks(lv, lo, hi, iter', m)  BY ONLY <1>1, <1>4, <1>18, <1>19 DEF Walks
<1> QED BY ONLY <1>18, <1>20

\* The first call goes down from the root.
LEMMA IterFirstWalks ==
  ASSUME NEW lv, NEW lo, NEW hi, NEW m, Walks(lv, lo, hi, iter, m), ~iter.seeked,
         iter' = Pushed(<<>>, tree.root)
  PROVE  \E m2 : /\ Walks(lv, lo, hi, iter', m2) /\ Below(nodes, m2) = Below(nodes, m)
                 /\ iter'.slots = iter.slots
<1>1. /\ Shape(nodes, tree.root, tree.height, lv, lo, hi) /\ Sizes(nodes, tree.root)
      /\ iter \in Iter /\ At(nodes, lo, hi, iter, m)
  BY DEF Walks
<1>2. m = 0  BY <1>1 DEF At
<1> DEFINE p == tree.root
           stack == <<>>
<1>3. /\ p \in 1 .. Len(nodes) /\ lv[p] = tree.height /\ lo[p] = -1 /\ tree.height \in Nat
  BY <1>1 DEF Shape, Typed
<1>4. Frames(nodes, tree.root, tree.height, lv, stack)  BY DEF Frames
<1>5. p = Following(nodes, tree.root, stack)  BY DEF Following
<1>6. lv[p] = tree.height - Len(stack)
  <2>1. Len(stack) = 0  OBVIOUS
  <2> QED BY <1>3, <2>1
<1>7. lo[p] + 1 = 0  BY <1>3
<1>8. iter' = Pushed(stack, p)  OBVIOUS
<1> HIDE DEF p, stack
<1>9. \E m2 : /\ Walks(lv, lo, hi, Pushed(stack, p), m2)
              /\ Below(nodes, m2) = Below(nodes, lo[p] + 1)
              /\ Pushed(stack, p).slots = iter.slots
  BY ONLY <1>1, <1>3, <1>4, <1>5, <1>6, WalkPushed
<1> QED BY ONLY <1>2, <1>7, <1>8, <1>9

\* The calls after it go on from the entry that was delivered last.
LEMMA IterNextWalks ==
  ASSUME NEW lv, NEW lo, NEW hi, NEW m, Walks(lv, lo, hi, iter, m), iter.seeked, IterBegin
  PROVE  \E m2 : /\ Walks(lv, lo, hi, iter', m2) /\ Below(nodes, m2) = Below(nodes, m)
                 /\ iter'.slots = iter.slots
<1>1. /\ Shape(nodes, tree.root, tree.height, lv, lo, hi) /\ Sizes(nodes, tree.root)
      /\ iter \in Iter /\ Frames(nodes, tree.root, tree.height, lv, iter.stack)
      /\ At(nodes, lo, hi, iter, m)
  BY DEF Walks
<1> DEFINE t == iter.stack
           p == Last(t).node
           i == Last(t).index + 1
           n == Len(nodes[p].items)
           stack == [t EXCEPT ![Len(t)].index = i]
           step == IF i = n THEN "up" ELSE "item"
<1>2. /\ iter.step = "idle"
      /\ IsLeaf(nodes[p]) => iter' = [iter EXCEPT !.stack = stack, !.step = step]
      /\ ~IsLeaf(nodes[p]) => iter' = Pushed(stack, nodes[p].children[i + 1])
  BY DEF IterBegin, Top
<1>3. /\ t # <<>> /\ m \in Int /\ Last(t).index < n /\ m = nodes[p].items[i].key + 1
      /\ iter.seeked = TRUE
  BY <1>1, <1>2 DEF At, Iter
<1>10. Frames(nodes, tree.root, tree.height, lv, t)  BY <1>1
<1>11. t # <<>>  BY <1>3
<1> HIDE DEF t
<1>4. /\ p \in 1 .. Len(nodes) /\ Last(t).index \in 0 .. n /\ n \in Nat
      /\ lv[p] = tree.height + 1 - Len(t) /\ Len(t) \in 1 .. tree.height
  BY ONLY <1>1, <1>10, <1>11, FramesTop
<1>5. i \in 1 .. n /\ i \in 0 .. n /\ i # 1 - 1 /\ (i = n \/ i < n) /\ i + 1 # 1
  <2>1. \A a, k : a \in Nat /\ k \in 0 .. a /\ k < a =>
          /\ k + 1 \in 1 .. a /\ k + 1 \in 0 .. a /\ k + 1 # 1 - 1
          /\ (k + 1 = a \/ k + 1 < a) /\ (k + 1) + 1 # 1
    OBVIOUS
  <2> QED BY <1>3, <1>4, <2>1, Zenon
<1>6. /\ Frames(nodes, tree.root, tree.height, lv, stack) /\ stack # <<>>
      /\ Len(stack) = Len(t) /\ Last(stack).node = p /\ Last(stack).index = i
  <2>1. /\ i \in 0 .. Len(nodes[Last(t).node].items)
        /\ Len(nodes[Last(t).node].items) \in Nat
    BY <1>4, <1>5
  <2>2. stack = Indexed(t, i)  BY DEF Indexed
  <2> SUFFICES /\ Frames(nodes, tree.root, tree.height, lv, stack) /\ stack # <<>>
               /\ Len(stack) = Len(t) /\ Last(stack).node = Last(t).node
               /\ Last(stack).index = i
    OBVIOUS
  <2> HIDE DEF i, stack, p, n
  <2> QED BY ONLY <1>10, <1>11, <2>1, <2>2, FramesIndexed
<1>7. stack \in Seq(Frame)  BY <1>6 DEF Frames
<1>8. CASE IsLeaf(nodes[p])
  <2>1. lv[p] = 1  BY <1>1, <1>4, <1>8 DEF IsLeaf, Shape, Branches, Branch
  <2> DEFINE m2 == IF i = n THEN hi[p] ELSE nodes[p].items[i + 1].key
  <2>2. Below(nodes, nodes[p].items[i].key + 1) = Below(nodes, After(nodes, hi, p, i))
    <3> HIDE DEF p, i
    <3> QED BY ONLY <1>1, <1>4, <1>5, <2>1, NextInLeaf
  <2>3. iter' = [iter EXCEPT !.stack = stack, !.step = step]  BY <1>2, <1>8
  <2>4. step \in {"idle", "down", "up", "item", "end"}  OBVIOUS
  <2>5. /\ iter' \in Iter /\ iter'.slots = iter.slots /\ iter'.stack = stack
        /\ iter'.seeked = TRUE /\ iter'.step = step
    <3> HIDE DEF stack, step
    <3> QED BY ONLY <1>1, <1>3, <1>7, <2>3, <2>4 DEF Iter
  <2>6. At(nodes, lo, hi, iter', m2)
    <3> HIDE DEF stack, i
    <3>1. CASE i = n
      <4>1. step = "up" /\ m2 = hi[p]  BY <3>1
      <4>2. hi[p] \in Int
        <5> HIDE DEF p
        <5> QED BY ONLY <1>1, <1>4, ShapeTypes
      <4> HIDE DEF m2, step, p
      <4> QED BY ONLY <1>6, <2>5, <4>1, <4>2 DEF At
    <3>2. CASE i # n
      <4>1. step = "item" /\ m2 = nodes[p].items[i + 1].key /\ i < n  BY <3>2, <1>5
      <4>2. i + 1 \in 1 .. n
        <5>1. \A a, k : a \in Nat /\ k \in 1 .. a /\ k < a => k + 1 \in 1 .. a  OBVIOUS
        <5> QED BY <1>4, <1>5, <4>1, <5>1, Zenon
      <4>3. nodes[p].items[i + 1].key \in Int
        <5> HIDE DEF p
        <5>1. nodes[p].items[i + 1].key \in 0 .. MaxKey
          BY <1>1, <1>4, <4>2, ShapeTypes
        <5> QED BY <5>1, KeyIsInt
      <4>4. nodes[p].items[i + 1].key + 0 = nodes[p].items[i + 1].key  BY ONLY <4>3
      <4>5. m2 = nodes[p].items[i + 1].key + (IF step = "idle" THEN 1 ELSE 0)
        <5>1. step # "idle"  BY <4>1
        <5> HIDE DEF m2, step, p
        <5> QED BY ONLY <4>1, <4>4, <5>1
      <4>6. i < Len(nodes[p].items)  BY <4>1
      <4>7. m2 \in Int  BY <4>1, <4>3
      <4> HIDE DEF m2, step, p, n
      <4> QED BY ONLY <1>6, <2>5, <4>1, <4>5, <4>6, <4>7 DEF At
    <3> QED BY <3>1, <3>2
  <2>7. Below(nodes, m2) = Below(nodes, m)
    <3>1. m = nodes[p].items[i].key + 1  BY <1>3
    <3>2. m2 = After(nodes, hi, p, i)  BY DEF After
    <3> HIDE DEF i, p, m2
    <3> QED BY <2>2, <3>1, <3>2, Zenon
  <2> HIDE DEF m2, stack
  <2>8. Walks(lv, lo, hi, iter', m2)  BY ONLY <1>1, <1>6, <2>5, <2>6 DEF Walks
  <2> QED BY ONLY <2>5, <2>7, <2>8
<1>9. CASE ~IsLeaf(nodes[p])
  <2> DEFINE c == nodes[p].children[i + 1]
  <2>1. iter' = Pushed(stack, c)  BY <1>2, <1>9
  <2>2. c = nodes[Last(stack).node].children[Last(stack).index + 1]  BY <1>6
  <2>3. ~IsLeaf(nodes[Last(stack).node])  BY <1>6, <1>9
  <2> HIDE DEF c, stack
  <2>4. \E m2 : /\ Walks(lv, lo, hi, Pushed(stack, c), m2)
                /\ Below(nodes, m2) =
                     Below(nodes, Low(nodes, lo, Last(stack).node, Last(stack).index + 1) + 1)
                /\ Pushed(stack, c).slots = iter.slots
    BY ONLY <1>1, <1>6, <2>2, <2>3, WalkDown
  <2>5. Low(nodes, lo, Last(stack).node, Last(stack).index + 1) = nodes[p].items[i].key
    <3>1. \A k : k \in Nat => (k + 1) - 1 = k  OBVIOUS
    <3>2. i \in Nat  BY <1>4, <1>5
    <3>3. (i + 1) - 1 = i  BY <3>1, <3>2, Zenon
    <3> HIDE DEF i, p
    <3> QED BY <1>5, <1>6, <3>3 DEF Low
  <2> QED BY ONLY <1>3, <2>1, <2>4, <2>5
<1> QED BY <1>8, <1>9

-----------------------------------------------------------------------------
(* What the walk has delivered.                                             *)

Climbs(s) == \A i, j \in 1 .. Len(s) : i < j => s[i].key < s[j].key

\* As many entries as the sequence is long.
LEMMA ClimbsCount ==
  ASSUME NEW s, s \in Seq(Entry), Climbs(s)
  PROVE  IsFiniteSet(ToSet(s)) /\ Cardinality(ToSet(s)) = Len(s)
<1> DEFINE n == Len(s)
<1>1. n \in Nat /\ DOMAIN s = 1 .. n /\ s \in [1 .. n -> Entry]  BY SMT
<1>2. \A i \in 1 .. n : s[i].key \in Int
  <2> SUFFICES ASSUME NEW i, i \in 1 .. n PROVE s[i].key \in Int  OBVIOUS
  <2>1. s[i] \in Entry  BY <1>1
  <2>2. s[i].key \in 0 .. MaxKey  BY <2>1 DEF Entry
  <2> QED BY <2>2, KeyIsInt
<1>3. ASSUME NEW i, i \in 1 .. n, NEW j, j \in 1 .. n, s[i] = s[j]
      PROVE  i = j
  <2>1. s[i].key \in Int /\ s[i].key = s[j].key  BY <1>2, <1>3
  <2>2. ~(i < j) /\ ~(j < i)
    <3>1. i < j => s[i].key < s[j].key  BY <1>3 DEF Climbs
    <3>2. j < i => s[j].key < s[i].key  BY <1>3 DEF Climbs
    <3> QED BY <2>1, <3>1, <3>2
  <2> QED BY <1>1, <1>3, <2>2
<1>4. ToSet(s) = {s[i] : i \in 1 .. n}  BY <1>1 DEF ToSet
<1>5. s \in Bijection(1 .. n, ToSet(s))
  <2>1. s \in [1 .. n -> ToSet(s)]  BY <1>1, <1>4
  <2>2. \A t \in ToSet(s) : \E i \in 1 .. n : s[i] = t  BY <1>4
  <2>3. \A i, j \in 1 .. n : s[i] = s[j] => i = j  BY <1>3
  <2>4. IsInjective(s)  BY <1>1, <2>3 DEF IsInjective
  <2> QED BY <2>1, <2>2, <2>4 DEF Bijection, Injection, Surjection
<1>6. ExistsBijection(1 .. n, ToSet(s))  BY <1>5, Zenon DEF ExistsBijection
<1> HIDE DEF n
<1>7. n \in Nat /\ ExistsBijection(1 .. n, ToSet(s))  BY <1>1, <1>6
<1>8. IsFiniteSet(1 .. n) /\ Cardinality(1 .. n) = n
  <2>1. 1 \in Int /\ n \in Int  BY <1>7
  <2>2. IsFiniteSet(1 .. n) /\ Cardinality(1 .. n) = IF 1 > n THEN 0 ELSE n - 1 + 1
    BY <2>1, FS_Interval
  <2> QED BY <1>7, <2>2
<1>9. IsFiniteSet(ToSet(s)) /\ Cardinality(ToSet(s)) = n
  BY <1>7, <1>8, FS_Bijection
<1> QED BY <1>9 DEF n

\* Fewer than all of them, or all.
LEMMA ClimbsAll ==
  ASSUME NEW s, s \in Seq(Entry), Climbs(s), NEW S, IsFiniteSet(S), ToSet(s) \subseteq S
  PROVE  Len(s) = Cardinality(S) <=> ToSet(s) = S
<1>1. IsFiniteSet(ToSet(s)) /\ Cardinality(ToSet(s)) = Len(s)  BY ClimbsCount
<1>2. Cardinality(S) = Cardinality(ToSet(s)) => S = ToSet(s)
  <2>1. ToSet(s) \in SUBSET S  OBVIOUS
  <2> QED BY <2>1, FS_Subset
<1> QED BY <1>1, <1>2

LEMMA ClimbsOn ==
  ASSUME NEW s, s \in Seq(Entry), Climbs(s), NEW e, e \in Entry,
         \A x \in ToSet(s) : x.key < e.key
  PROVE  /\ Append(s, e) \in Seq(Entry) /\ Climbs(Append(s, e))
         /\ ToSet(Append(s, e)) = ToSet(s) \cup {e}
<1> DEFINE n == Len(s)
           t == Append(s, e)
<1>1. n \in Nat /\ DOMAIN s = 1 .. n  OBVIOUS
<1>2. /\ t \in Seq(Entry) /\ Len(t) = n + 1 /\ DOMAIN t = 1 .. n + 1 /\ t[n + 1] = e
      /\ \A i \in 1 .. n : t[i] = s[i]
  OBVIOUS
<1>3. \A i \in 1 .. n : s[i] \in ToSet(s)  BY <1>1 DEF ToSet
<1>4. \A x : x \in ToSet(s) <=> \E i \in 1 .. n : x = s[i]  BY <1>1 DEF ToSet
<1>5. \A x : x \in ToSet(t) <=> \E i \in 1 .. n + 1 : x = t[i]  BY <1>2 DEF ToSet
<1> HIDE DEF n, t
<1>6. \A i : i \in 1 .. n + 1 <=> i \in 1 .. n \/ i = n + 1  BY <1>1
<1>7. \A x : x \in ToSet(t) <=> x \in ToSet(s) \/ x = e
  <2>1. ASSUME NEW x, x \in ToSet(t) PROVE x \in ToSet(s) \/ x = e
    <3>1. PICK i \in 1 .. n + 1 : x = t[i]  BY <2>1, <1>5
    <3>2. CASE i \in 1 .. n
      <4>1. x = s[i]  BY <3>1, <3>2, <1>2
      <4> QED BY <3>2, <4>1, <1>4
    <3>3. CASE i = n + 1  BY <3>1, <3>3, <1>2
    <3> QED BY <1>6, <3>2, <3>3
  <2>2. ASSUME NEW x, x \in ToSet(s) \/ x = e PROVE x \in ToSet(t)
    <3>1. CASE x \in ToSet(s)
      <4>1. PICK i \in 1 .. n : x = s[i]  BY <3>1, <1>4
      <4>2. i \in 1 .. n + 1 /\ x = t[i]  BY <4>1, <1>2, <1>6
      <4> QED BY <4>2, <1>5
    <3>2. CASE x = e
      <4>1. n + 1 \in 1 .. n + 1  BY <1>6
      <4> QED BY <3>2, <4>1, <1>2, <1>5
    <3> QED BY <2>2, <3>1, <3>2
  <2> QED BY <2>1, <2>2, Zenon
<1>8. Climbs(t)
  <2> SUFFICES ASSUME NEW i, i \in 1 .. n + 1, NEW j, j \in 1 .. n + 1, i < j
               PROVE  t[i].key < t[j].key
    BY <1>2 DEF Climbs
  <2>1. i \in 1 .. n /\ t[i] = s[i]  BY <1>1, <1>2
  <2>2. CASE j \in 1 .. n
    <3>1. t[j] = s[j] /\ s[i].key < s[j].key  BY <1>2, <2>1, <2>2 DEF Climbs, n
    <3> QED BY <2>1, <3>1
  <2>3. CASE j = n + 1
    <3>1. s[i].key < e.key  BY <1>3, <2>1
    <3> QED BY <1>2, <2>1, <2>3, <3>1
  <2> QED BY <1>6, <2>2, <2>3
<1>9. ToSet(t) = ToSet(s) \cup {e}  BY <1>7
<1> QED BY <1>2, <1>8, <1>9 DEF t

Walking ==
  /\ header.keys = tree.count /\ header.items = total /\ iter.slots = tree.height
  /\ Climbs(out)
  /\ iter.step # "idle" => Len(out) < header.keys
  /\ \E lv, lo, hi, m : Walks(lv, lo, hi, iter, m) /\ ToSet(out) = Below(nodes, m)

Delivered ==
  Climbs(out) /\ Len(out) = header.keys /\ Cardinality(ItemsOf(ToSet(out))) = header.items

WalkInv ==
  /\ iter \in Iter /\ out \in Seq(Entry)
  /\ phase = "adding" => out = <<>>
  /\ phase = "walking" => Walking
  /\ phase = "written" => Delivered

LEMMA InitWalk == Init => WalkInv
<1> SUFFICES ASSUME Init PROVE WalkInv  OBVIOUS
<1>1. iter = NoIter /\ out = <<>> /\ phase = "adding"  BY DEF Init
<1>2. NoIter \in Iter
  <2>1. <<>> \in Seq(Frame)  OBVIOUS
  <2> QED BY <2>1 DEF NoIter, Iter
<1>3. out \in Seq(Entry)  BY <1>1
<1> QED BY <1>1, <1>2, <1>3 DEF WalkInv

\* The walk is at m, in the next state.
LEMMA WalkingThen ==
  ASSUME NEW lv, NEW lo, NEW hi, NEW m, UNCHANGED <<nodes, tree>>,
         Walks(lv, lo, hi, iter', m), ToSet(out') = Below(nodes, m),
         header'.keys = tree.count, header'.items = total', iter'.slots = tree.height,
         Climbs(out'), iter'.step # "idle" => Len(out') < header'.keys
  PROVE  Walking'
<1>1. Walks(lv, lo, hi, iter, m)'  BY DEF Walks
<1>2. (ToSet(out) = Below(nodes, m))'  BY DEF Below
<1>3. (\E a, b, c, d : Walks(a, b, c, iter, d) /\ ToSet(out) = Below(nodes, d))'
  BY <1>1, <1>2, Zenon
<1> QED BY <1>3 DEF Walking

\* Where the entries are, and how many.
LEMMA WalkKnows ==
  ASSUME TreeInv, CountInv, NEW lv, NEW lo, NEW hi,
         Shape(nodes, tree.root, tree.height, lv, lo, hi)
  PROVE  /\ Entries = AllItems(nodes) /\ IsFiniteSet(AllItems(nodes))
         /\ tree.count = Cardinality(AllItems(nodes))
         /\ total = Cardinality(ItemsOf(AllItems(nodes)))
<1>1. Entries = AllItems(nodes)  BY EntriesAre DEF Entries
<1> QED BY <1>1 DEF CountInv, CountsAgree

LEMMA WalkBeginWalks ==
  ASSUME TreeInv, CountInv, WalkInv, WalkBegin
  PROVE  WalkInv'
<1>1. /\ phase = "adding" /\ tree.count # 0 /\ phase' = "walking"
      /\ header' = [keys |-> tree.count, items |-> total] /\ iter' = NewIter
      /\ UNCHANGED <<nodes, live, tree, call, total, out>>
  BY DEF WalkBegin, memory
<1>2. Entries # {}
  <2>1. tree.count = Cardinality(Entries)  BY DEF CountInv, CountsAgree
  <2> QED BY <1>1, <2>1, FS_EmptySet
<1>3. PICK lv, lo, hi : Stands(lv, lo, hi)  BY <1>2, EmptyOrStands
<1>4. Shape(nodes, tree.root, tree.height, lv, lo, hi) /\ Sizes(nodes, tree.root)
  BY <1>3 DEF Stands
<1>5. tree.height \in Nat  BY <1>4 DEF Shape, Typed
<1>6. /\ iter' \in Iter /\ iter'.slots = tree.height /\ iter'.stack = <<>>
      /\ iter'.seeked = FALSE /\ iter'.step = "idle"
  <2>1. <<>> \in Seq(Frame)  OBVIOUS
  <2> QED BY <1>1, <1>5, <2>1 DEF NewIter, NoIter, Iter
<1>7. Frames(nodes, tree.root, tree.height, lv, iter'.stack)  BY <1>6 DEF Frames
<1>8. At(nodes, lo, hi, iter', 0)  BY ONLY <1>6 DEF At
<1>9. Walks(lv, lo, hi, iter', 0)  BY <1>4, <1>6, <1>7, <1>8 DEF Walks
<1>10. out' = <<>> /\ out' \in Seq(Entry)  BY <1>1 DEF WalkInv
<1>11. ToSet(out') = Below(nodes, 0)
  <2>1. ASSUME NEW e, e \in AllItems(nodes) PROVE ~(e.key < 0)
    <3>1. e \in Entry  BY <1>4, <2>1, BelowNext
    <3>2. e.key \in 0 .. MaxKey  BY <3>1 DEF Entry
    <3> QED BY <3>2
  <2>2. Below(nodes, 0) = {}  BY <2>1 DEF Below
  <2> QED BY <1>10, <2>2 DEF ToSet
<1>12. Climbs(out')  BY <1>10 DEF Climbs
<1>13. header'.keys = tree.count /\ header'.items = total'  BY <1>1
<1>14. Walking'
  BY <1>1, <1>6, <1>9, <1>11, <1>12, <1>13, WalkingThen
<1> QED BY <1>1, <1>6, <1>10, <1>14 DEF WalkInv

LEMMA WalkStepWalks ==
  ASSUME TreeInv, CountInv, WalkInv, WalkStep
  PROVE  WalkInv'
<1>1. /\ phase = "walking"
      /\ (Len(out) < header.keys /\ IterBegin) \/ IterDown \/ IterUp
      /\ UNCHANGED <<nodes, live, tree, call, total, phase, header, out>>
  BY DEF WalkStep, IterBegin, IterDown, IterUp, walk
<1>2. Walking /\ iter \in Iter /\ out \in Seq(Entry)  BY <1>1 DEF WalkInv
<1>3. PICK lv, lo, hi, m : Walks(lv, lo, hi, iter, m) /\ ToSet(out) = Below(nodes, m)
  BY <1>2 DEF Walking
<1>4. Shape(nodes, tree.root, tree.height, lv, lo, hi)  BY <1>3 DEF Walks
<1>5. /\ header.keys = tree.count /\ header.items = total /\ iter.slots = tree.height
      /\ Climbs(out)
      /\ iter.step # "idle" => Len(out) < header.keys
  BY <1>2 DEF Walking
<1>6. Len(out) < header.keys
  <2>1. IterDown => iter.step # "idle"  BY DEF IterDown
  <2>2. IterUp => iter.step # "idle"  BY DEF IterUp
  <2> QED BY <1>1, <1>5, <2>1, <2>2
<1>7. Below(nodes, m) # AllItems(nodes)
  <2>1. /\ IsFiniteSet(AllItems(nodes)) /\ tree.count = Cardinality(AllItems(nodes))
    BY <1>4, WalkKnows
  <2>2. ToSet(out) \subseteq AllItems(nodes)  BY <1>3 DEF Below
  <2>3. Len(out) = Cardinality(AllItems(nodes)) <=> ToSet(out) = AllItems(nodes)
    BY <1>2, <1>5, <2>1, <2>2, ClimbsAll
  <2>4. Len(out) \in Nat /\ header.keys \in Nat  BY <1>2 DEF TreeInv, Typing
  <2> QED BY <1>3, <1>5, <1>6, <2>1, <2>3, <2>4
<1>8. \E m2 : /\ Walks(lv, lo, hi, iter', m2) /\ Below(nodes, m2) = Below(nodes, m)
              /\ iter'.slots = iter.slots
  <2>1. CASE IterBegin /\ ~iter.seeked
    <3>1. iter' = Pushed(<<>>, tree.root)  BY <2>1 DEF IterBegin
    <3> QED BY <1>3, <2>1, <3>1, IterFirstWalks
  <2>2. CASE IterBegin /\ iter.seeked  BY <1>3, <2>2, IterNextWalks
  <2>3. CASE IterDown  BY <1>3, <2>3, IterDownWalks
  <2>4. CASE IterUp  BY <1>3, <1>7, <2>4, IterUpWalks
  <2> QED BY <1>1, <2>1, <2>2, <2>3, <2>4
<1>9. PICK m2 : /\ Walks(lv, lo, hi, iter', m2) /\ Below(nodes, m2) = Below(nodes, m)
                /\ iter'.slots = iter.slots
  BY <1>8
<1>10. iter' \in Iter  BY <1>9 DEF Walks
<1>11. Walking'
  <2>1. ToSet(out') = Below(nodes, m2)  BY <1>1, <1>3, <1>9
  <2>2. /\ header'.keys = tree.count /\ header'.items = total' /\ iter'.slots = tree.height
        /\ Climbs(out')
        /\ iter'.step # "idle" => Len(out') < header'.keys
    BY <1>1, <1>5, <1>6, <1>9
  <2> QED BY <1>1, <1>9, <2>1, <2>2, WalkingThen
<1> QED BY <1>1, <1>2, <1>10, <1>11 DEF WalkInv

\* An entry whose count fits is listed as it is.
LEMMA SerializedWhole ==
  ASSUME NEW e, e \in Entry, Fits(e)
  PROVE  Serialized(e) = e
<1>1. e.items \in Seq(Spellings) /\ Len(e.items) <= MaxListed  BY DEF Fits, Entry
<1>2. Len(e.items) % (MaxListed + 1) = Len(e.items)
  <2>1. \A a, b \in Nat : a <= b => a % (b + 1) = a  OBVIOUS
  <2>2. Len(e.items) \in Nat /\ MaxListed \in Nat  BY <1>1, KeysAssumption
  <2> QED BY <1>1, <2>1, <2>2, Zenon
<1> DEFINE s == e.items
<1>3. s \in Seq(Spellings)  BY <1>1
<1> HIDE DEF s
<1>4. SubSeq(s, 1, Len(s)) = s
  <2>1. Len(s) \in Nat /\ Len(s) \in 0 .. Len(s) /\ 1 <= Len(s) + 1 /\ 1 \in Nat \ {0}
    BY <1>3
  <2>2. /\ SubSeq(s, 1, Len(s)) \in Seq(Spellings) /\ Len(SubSeq(s, 1, Len(s))) = Len(s) - 1 + 1
        /\ \A i \in 1 .. Len(s) - 1 + 1 : SubSeq(s, 1, Len(s))[i] = s[1 + i - 1]
    BY ONLY <1>3, <2>1, SubSeqOf
  <2>3. \A i \in 1 .. Len(s) : 1 + i - 1 = i  OBVIOUS
  <2>4. Len(s) - 1 + 1 = Len(s)  BY <2>1
  <2>5. ASSUME NEW i, i \in 1 .. Len(s) PROVE SubSeq(s, 1, Len(s))[i] = s[i]
    BY <2>2, <2>3, <2>4, <2>5
  <2>6. SubSeq(s, 1, Len(s)) \in Seq(Spellings) /\ Len(SubSeq(s, 1, Len(s))) = Len(s)
    BY <2>2, <2>4
  <2> QED BY ONLY <1>3, <2>5, <2>6, SeqEqual
<1>5. Serialized(e) = [key |-> e.key, items |-> s]
  <2>1. Serialized(e) = [key |-> e.key, items |-> SubSeq(e.items, 1, Len(e.items))]
    BY <1>2 DEF Serialized
  <2>2. SubSeq(e.items, 1, Len(e.items)) = s  BY <1>4 DEF s
  <2> QED BY <2>1, <2>2
<1>6. \A z : z \in Entry => z = [key |-> z.key, items |-> z.items]  BY DEF Entry
<1> QED BY <1>5, <1>6 DEF s

LEMMA DeliveredWalks ==
  ASSUME TreeInv, CountInv, WalkInv, phase = "walking", iter.step = "item",
         iter' = [iter EXCEPT !.step = "idle"], Fits(IterItem),
         out' = Append(out, Serialized(IterItem)),
         UNCHANGED <<nodes, tree, total, phase, header>>
  PROVE  WalkInv'
<1>2. Walking /\ iter \in Iter /\ out \in Seq(Entry)  BY DEF WalkInv
<1>3. PICK lv, lo, hi, m : Walks(lv, lo, hi, iter, m) /\ ToSet(out) = Below(nodes, m)
  BY <1>2 DEF Walking
<1>4. /\ Shape(nodes, tree.root, tree.height, lv, lo, hi) /\ Sizes(nodes, tree.root)
      /\ Frames(nodes, tree.root, tree.height, lv, iter.stack)
      /\ At(nodes, lo, hi, iter, m)
  BY <1>3 DEF Walks
<1>5. /\ header.keys = tree.count /\ header.items = total /\ iter.slots = tree.height
      /\ Climbs(out)
  BY <1>2 DEF Walking
<1>6. /\ iter.seeked = TRUE /\ iter.stack # <<>> /\ m \in Int
      /\ Last(iter.stack).index < Len(nodes[Last(iter.stack).node].items)
      /\ m = IterItem.key + 0
  BY <1>2, <1>4 DEF At, Iter, IterItem, Top
<1>7. IterItem \in AllItems(nodes)
  <2> DEFINE p == Last(iter.stack).node
             k == Last(iter.stack).index
             n == Len(nodes[p].items)
  <2>1. p \in 1 .. Len(nodes) /\ k \in 0 .. n /\ n \in Nat
    <3>1. /\ Top.node \in 1 .. Len(nodes) /\ Top.index \in 0 .. Len(nodes[Top.node].items)
          /\ Len(nodes[Top.node].items) \in Nat
      BY ONLY <1>3, <1>6, TopIs
    <3> QED BY <3>1 DEF Top
  <2>2. k + 1 \in 1 .. n
    <3>1. \A a, b : a \in Nat /\ b \in 0 .. a /\ b < a => b + 1 \in 1 .. a  OBVIOUS
    <3> QED BY <1>6, <2>1, <3>1, Zenon
  <2>3. IterItem = nodes[p].items[k + 1]  BY DEF IterItem, Top
  <2>4. nodes \in Seq(NodeSet)  BY DEF TreeInv, Typing
  <2> HIDE DEF p, k, n
  <2>5. \A e : e \in AllItems(nodes) <=>
          \E q \in 1 .. Len(nodes) : \E i \in 1 .. Len(nodes[q].items) : e = nodes[q].items[i]
    BY ONLY <2>4, ItemsIn
  <2> QED BY <2>1, <2>2, <2>3, <2>5 DEF n
<1> DEFINE e == IterItem
<1>8. e \in AllItems(nodes) /\ m = e.key + 0 /\ Fits(e) /\ out' = Append(out, Serialized(e))
  BY <1>6, <1>7
<1> HIDE DEF e
<1>9. e.key \in Int /\ e \in Entry /\ Below(nodes, e.key + 1) = Below(nodes, e.key) \cup {e}
  BY ONLY <1>4, <1>8, BelowNext
<1>10. m = e.key /\ out' = Append(out, e)
  <2>1. Serialized(e) = e  BY ONLY <1>8, <1>9, SerializedWhole
  <2> QED BY ONLY <1>8, <1>9, <2>1
<1>11. /\ out' \in Seq(Entry) /\ Climbs(out') /\ ToSet(out') = ToSet(out) \cup {e}
  <2>1. \A x \in ToSet(out) : x.key < e.key  BY <1>3, <1>10 DEF Below
  <2>2. /\ Append(out, e) \in Seq(Entry) /\ Climbs(Append(out, e))
        /\ ToSet(Append(out, e)) = ToSet(out) \cup {e}
    BY ONLY <1>2, <1>5, <1>9, <2>1, ClimbsOn
  <2> QED BY ONLY <1>10, <2>2
<1>12. ToSet(out') = Below(nodes, e.key + 1)  BY <1>3, <1>9, <1>10, <1>11
<1>13. /\ iter' \in Iter /\ iter'.slots = iter.slots /\ iter'.stack = iter.stack
       /\ iter'.seeked = TRUE /\ iter'.step = "idle"
  BY <1>2, <1>6 DEF Iter
<1>14. At(nodes, lo, hi, iter', e.key + 1)
  <2>1. nodes[Last(iter.stack).node].items[Last(iter.stack).index + 1].key = e.key
    BY DEF e, IterItem, Top
  <2>2. e.key + 1 \in Int  BY <1>9
  <2> QED BY ONLY <1>6, <1>13, <2>1, <2>2 DEF At
<1>15. Walks(lv, lo, hi, iter', e.key + 1)
  BY ONLY <1>4, <1>13, <1>14 DEF Walks
<1>16. Walking'
  <2>1. /\ header'.keys = tree.count /\ header'.items = total' /\ iter'.slots = tree.height
        /\ iter'.step # "idle" => Len(out') < header'.keys
    BY <1>5, <1>13
  <2> QED BY <1>11, <1>12, <1>15, <2>1, WalkingThen
<1> QED BY <1>11, <1>13, <1>16 DEF WalkInv

\* When as many entries are out as there are keys, they are all of them.
LEMMA WalkDelivers ==
  ASSUME TreeInv, CountInv, WalkInv, phase = "walking", Len(out) = header.keys
  PROVE  ToSet(out) = Entries /\ Delivered
<1>1. Walking /\ out \in Seq(Entry)  BY DEF WalkInv
<1>2. PICK lv, lo, hi, m : Walks(lv, lo, hi, iter, m) /\ ToSet(out) = Below(nodes, m)
  BY <1>1 DEF Walking
<1>3. Shape(nodes, tree.root, tree.height, lv, lo, hi)  BY <1>2 DEF Walks
<1>4. header.keys = tree.count /\ header.items = total /\ Climbs(out)
  BY <1>1 DEF Walking
<1>5. /\ Entries = AllItems(nodes) /\ IsFiniteSet(AllItems(nodes))
      /\ tree.count = Cardinality(AllItems(nodes))
      /\ total = Cardinality(ItemsOf(AllItems(nodes)))
  BY <1>3, WalkKnows
<1>6. ToSet(out) = Entries
  <2>1. ToSet(out) \subseteq AllItems(nodes)  BY <1>2 DEF Below
  <2>2. Len(out) = Cardinality(AllItems(nodes)) <=> ToSet(out) = AllItems(nodes)
    BY <1>1, <1>4, <1>5, <2>1, ClimbsAll
  <2> QED BY <1>4, <1>5, <2>2
<1>7. Cardinality(ItemsOf(ToSet(out))) = header.items  BY <1>4, <1>5, <1>6
<1> QED BY <1>4, <1>6, <1>7 DEF Delivered

LEMMA WalkEndWalks ==
  ASSUME TreeInv, CountInv, WalkInv, WalkEnd
  PROVE  WalkInv'
<1>1. /\ phase = "walking" /\ Len(out) = header.keys /\ phase' = "written"
      /\ UNCHANGED <<iter, header, out>>
  BY DEF WalkEnd
<1>2. Delivered  BY <1>1, WalkDelivers
<1>3. Delivered'  BY <1>1, <1>2 DEF Delivered, Climbs, ItemsOf
<1>4. iter \in Iter /\ out \in Seq(Entry)  BY DEF WalkInv
<1> QED BY <1>1, <1>3, <1>4 DEF WalkInv

\* The container ends without a database.
LEMMA FailsWalk ==
  ASSUME WalkInv, phase' = "failed", iter' \in Iter, out' = out
  PROVE  WalkInv'
BY DEF WalkInv

LEMMA CallWalks ==
  ASSUME WalkInv, phase = "adding", UNCHANGED <<iter, phase, out>>
  PROVE  WalkInv'
BY DEF WalkInv

LEMMA CallAlone ==
  ASSUME TreeInv, CallNext
  PROVE  phase = "adding" /\ UNCHANGED <<iter, phase, out>>
<1>1. call.op # "none"
  BY DEF TreeInv, Calls, CallNext, SetStep, Descend, Searching, LeafMustSplit, BranchMustSplit,
         SplitBelow, SplitRoot, AddRefused, AddToEntry, SetBegins, SetReturns, GetFinds,
         GetMisses, FirstRoot, InsertIntoLeaf, OutOfMemory
<1>2. phase = "adding"  BY <1>1 DEF TreeInv, Calls
<1>3. UNCHANGED <<iter, phase, out>>
  <2>1. CASE (Descend \/ SetStep) /\ UNCHANGED <<total, walk, bound, ret>>
    BY <2>1 DEF Descend, SetStep, LeafMustSplit, BranchMustSplit, SplitBelow, SplitRoot, walk
  <2>2. CASE AddRefused \/ AddToEntry \/ SetReturns
    BY <2>2 DEF AddRefused, AddToEntry, SetReturns, Return, walk
  <2>3. CASE SetBegins  BY <2>3 DEF SetBegins, walk
  <2> QED BY <2>1, <2>2, <2>3 DEF CallNext
<1> QED BY <1>2, <1>3

LEMMA DeliverWalks ==
  ASSUME TreeInv, CountInv, WalkInv, Deliver
  PROVE  WalkInv'
<1>1. /\ phase = "walking" /\ iter.step = "item" /\ iter' = [iter EXCEPT !.step = "idle"]
      /\ UNCHANGED header
      /\ \/ Fits(IterItem) /\ out' = Append(out, Serialized(IterItem))
              /\ UNCHANGED <<nodes, live, tree, call, total, phase, fault>>
         \/ phase' = "failed" /\ out' = out
  BY DEF Deliver, memory
<1>2. CASE Fits(IterItem) /\ out' = Append(out, Serialized(IterItem))
              /\ UNCHANGED <<nodes, live, tree, call, total, phase, fault>>
  BY <1>1, <1>2, DeliveredWalks
<1>3. CASE phase' = "failed" /\ out' = out
  <2>1. iter' \in Iter  BY <1>1 DEF WalkInv, Iter
  <2> QED BY <1>3, <2>1, FailsWalk
<1> QED BY <1>1, <1>2, <1>3

LEMMA WalkNext ==
  ASSUME TreeInv, CountInv, WalkInv, Next
  PROVE  WalkInv'
<1>1. CASE \E s \in Spellings : Add(s)
  <2>1. phase = "adding" /\ UNCHANGED <<iter, phase, out>>  BY <1>1 DEF Add, walk
  <2> QED BY <2>1, CallWalks
<1>2. CASE CallNext  BY <1>2, CallAlone, CallWalks
<1>3. CASE FinalizeRefused \/ WalkFails
  <2>1. phase' = "failed" /\ UNCHANGED <<iter, out>>
    BY <1>3 DEF FinalizeRefused, WalkFails
  <2>2. iter' \in Iter  BY <2>1 DEF WalkInv
  <2> QED BY <2>1, <2>2, FailsWalk
<1>4. CASE WalkBegin  BY <1>4, WalkBeginWalks
<1>5. CASE WalkStep  BY <1>5, WalkStepWalks
<1>6. CASE Deliver  BY <1>6, DeliverWalks
<1>7. CASE WalkEnd  BY <1>7, WalkEndWalks
<1> QED BY <1>1, <1>2, <1>3, <1>4, <1>5, <1>6, <1>7 DEF Next

LEMMA WalkStutter ==
  ASSUME WalkInv, UNCHANGED vars
  PROVE  WalkInv'
<1>1. UNCHANGED <<nodes, tree, iter, total, phase, header, out>>
  BY DEF vars, memory, walk
<1>2. Walking => Walking'
  <2> SUFFICES ASSUME Walking PROVE Walking'  OBVIOUS
  <2>1. PICK lv, lo, hi, m : Walks(lv, lo, hi, iter, m) /\ ToSet(out) = Below(nodes, m)
    BY DEF Walking
  <2>2. Walks(lv, lo, hi, iter', m) /\ ToSet(out') = Below(nodes, m)  BY <1>1, <2>1
  <2>3. /\ header'.keys = tree.count /\ header'.items = total' /\ iter'.slots = tree.height
        /\ Climbs(out')
        /\ iter'.step # "idle" => Len(out') < header'.keys
    BY <1>1 DEF Walking
  <2> QED BY <1>1, <2>2, <2>3, WalkingThen
<1>3. Delivered => Delivered'  BY <1>1 DEF Delivered, Climbs, ItemsOf
<1> QED BY <1>1, <1>2, <1>3 DEF WalkInv

\* The inductive invariant of the walk: the iterator's stack is a way down the tree,
\* and what was delivered are the entries below the place it has come to.
THEOREM WalkingOn == Spec => []WalkInv
<1>1. TreeInv /\ CountInv /\ WalkInv /\ [Next]_vars => WalkInv'
  BY WalkNext, WalkStutter
<1> QED BY InitWalk, Hanging, Counting, <1>1, PTL DEF Spec

\* Nodes, counts, the path of a call and the iterator's frames keep their types, and the
\* total of items its 32 bits, for any spellings and any folding (udx_keys_add,
\* udx_btree_set, udx_btree_iter_next).
THEOREM Types == Spec => []TypeOK
<1>1. TreeInv /\ WalkInv => TypeOK
  <2> SUFFICES ASSUME TreeInv, WalkInv PROVE TypeOK  OBVIOUS
  <2>1. live \subseteq Nat
    <3>1. CASE Open
      <4>1. live = 1 .. Len(nodes)  BY <3>1 DEF TreeInv, Hangs
      <4> QED BY <4>1
    <3>2. CASE ~Open  BY <3>2 DEF TreeInv, Closed
    <3> QED BY <3>1, <3>2
  <2>2. iter \in [slots : Nat, stack : Seq([node : Nat, index : Nat]), seeked : BOOLEAN,
                  step : {"idle", "down", "up", "item", "end"}]
    BY DEF WalkInv, Iter, Frame
  <2>3. nodes \in Seq([items : Seq(Entry), children : Seq(Nat)])
    BY DEF TreeInv, Typing, NodeSet
  <2>4. out \in Seq(Entry)  BY DEF WalkInv
  <2> QED BY <2>1, <2>2, <2>3, <2>4 DEF TreeInv, Typing, TypeOK
<1> QED BY Hanging, WalkingOn, <1>1, PTL

\* The iterator's stack has a slot for each frame that udx_btree_iter_next pushes, and
\* when it goes on after an entry there is a frame on top.
THEOREM StackFits == Spec => []IterFits
<1>1. WalkInv => IterFits
  <2> SUFFICES ASSUME WalkInv, phase = "walking"
               PROVE  /\ Len(iter.stack) <= iter.slots
                      /\ iter.seeked => iter.stack # <<>>
    BY DEF IterFits
  <2>1. Walking  BY DEF WalkInv
  <2>2. PICK lv, lo, hi, m : Walks(lv, lo, hi, iter, m)  BY <2>1 DEF Walking
  <2>3. iter.slots = tree.height  BY <2>1 DEF Walking
  <2>4. iter.seeked => iter.stack # <<>>  BY <2>2 DEF Walks, At
  <2>5. Len(iter.stack) <= iter.slots
    <3>1. CASE iter.stack = <<>>
      <4>1. Len(iter.stack) = 0 /\ iter.slots \in Nat  BY <3>1 DEF WalkInv, Iter
      <4> QED BY <4>1
    <3>2. CASE iter.stack # <<>>
      <4>1. Len(iter.stack) \in 1 .. tree.height /\ tree.height \in Nat
        BY ONLY <2>2, <3>2, TopIs
      <4> QED BY <2>3, <4>1
    <3> QED BY <3>1, <3>2
  <2> QED BY <2>4, <2>5
<1> QED BY WalkingOn, <1>1, PTL

\* The walk lists the entries from the least key on and leaves none out, and what was
\* written when it ends are the numbers the header says (build_leaf_node,
\* udx_db_builder_finalize).
THEOREM WalkIsExact == Spec => []WalkExact
<1>1. TreeInv /\ CountInv /\ WalkInv => WalkExact
  <2> SUFFICES ASSUME TreeInv, CountInv, WalkInv PROVE WalkExact  OBVIOUS
  <2>1. ASSUME phase = "walking"
        PROVE  /\ ToSet(out) \subseteq Entries
               /\ \A i, j \in 1 .. Len(out) : i < j => out[i].key < out[j].key
               /\ \A entry \in Entries \ ToSet(out), i \in 1 .. Len(out) :
                    out[i].key < entry.key
    <3>1. Walking /\ out \in Seq(Entry)  BY <2>1 DEF WalkInv
    <3>2. PICK lv, lo, hi, m : Walks(lv, lo, hi, iter, m) /\ ToSet(out) = Below(nodes, m)
      BY <3>1 DEF Walking
    <3>3. Shape(nodes, tree.root, tree.height, lv, lo, hi) /\ m \in Int
      BY <3>2 DEF Walks, At
    <3>4. Entries = AllItems(nodes)  BY <3>3, WalkKnows
    <3>5. ToSet(out) \subseteq Entries  BY <3>2, <3>4 DEF Below
    <3>6. \A i, j \in 1 .. Len(out) : i < j => out[i].key < out[j].key
      BY <3>1 DEF Walking, Climbs
    <3>7. ASSUME NEW e, e \in Entries, e \notin ToSet(out), NEW i, i \in 1 .. Len(out)
          PROVE  out[i].key < e.key
      <4>1. out[i] \in ToSet(out)  BY <3>1, <3>7 DEF ToSet
      <4>2. out[i].key < m /\ ~(e.key < m) /\ out[i] \in AllItems(nodes)
        BY <3>2, <3>4, <3>7, <4>1 DEF Below
      <4>3. e.key \in Int /\ out[i].key \in Int
        BY <3>3, <3>4, <3>7, <4>2, BelowNext
      <4> QED BY <3>3, <4>2, <4>3
    <3> QED BY <3>5, <3>6, <3>7
  <2>2. ASSUME phase = "written"
        PROVE  Len(out) = header.keys /\ Cardinality(ItemsOf(ToSet(out))) = header.items
    BY <2>2 DEF WalkInv, Delivered
  <2> QED BY <2>1, <2>2 DEF WalkExact
<1> QED BY Hanging, Counting, WalkingOn, <1>1, PTL

-----------------------------------------------------------------------------
(* The container implements the map.                                        *)

Listed == IF phase = "written" THEN out ELSE <<>>

\* What an add makes of the map, as KeyMap says it.
LEMMA NewKeyAppends ==
  ASSUME NEW s, s \in Spellings, NEW new, NewKey(Entries, new, NewEntry(s))
  PROVE  new = KM!Appended(s)
<1>1. /\ new = Entries \cup {NewEntry(s)} /\ \A x \in Entries : x.key # Fold[s]
  BY DEF NewKey, NewEntry
<1>2. KM!Own(Fold[s]) = {}  BY <1>1 DEF KM!Own
<1>3. KM!Items(Fold[s]) = <<>>  BY <1>2 DEF KM!Items
<1>4. Append(<<>>, s) = <<s>>  OBVIOUS
<1> QED BY <1>1, <1>2, <1>3, <1>4 DEF KM!Appended, NewEntry

LEMMA LongerAppends ==
  ASSUME TreeInv, NEW s, s \in Spellings, NEW x, x.key = Fold[s],
         NEW new, Longer(Entries, new, x, s)
  PROVE  new = KM!Appended(s)
<1>1. /\ x \in Entries
      /\ new = (Entries \ {x}) \cup {[key |-> x.key, items |-> Append(x.items, s)]}
  BY DEF Longer
<1>2. OneEach(Entries)  BY EntriesDiffer
<1>3. KM!Own(Fold[s]) = {x}  BY <1>1, <1>2 DEF KM!Own, OneEach
<1>4. KM!Items(Fold[s]) = x.items  BY <1>3 DEF KM!Items
<1> QED BY <1>1, <1>3, <1>4 DEF KM!Appended

LEMMA KeepsMap ==
  ASSUME TreeInv, Keeps
  PROVE  KM!Add \/ UNCHANGED <<Entries, phase \in {"adding", "walking"}, Listed, ret>>
<1>1. /\ phase \in {"adding", "walking"} /\ phase' \in {"adding", "walking"}
      /\ Entries' = Entries
      /\ ret' = ret \/ ret' = FALSE
  BY DEF Keeps, Open
<1>2. Listed = <<>> /\ Listed' = <<>>  BY <1>1 DEF Listed
<1>3. (phase' \in {"adding", "walking"}) = (phase \in {"adding", "walking"})
  BY <1>1
<1>4. UNCHANGED <<phase \in {"adding", "walking"}, Listed>>  BY <1>2, <1>3
<1>5. CASE ret' = ret  BY <1>1, <1>4, <1>5
<1>6. CASE ret' = FALSE
  <2>1. KM!Add  BY <1>1, <1>4, <1>6 DEF KM!Add, Listed
  <2> QED BY <2>1
<1> QED BY <1>1, <1>5, <1>6, Zenon

LEMMA GrowsMap ==
  ASSUME TreeInv, Grows
  PROVE  KM!Add
<1>1. /\ phase \in {"adding", "walking"} /\ phase' \in {"adding", "walking"}
      /\ ret' = TRUE
  BY DEF Grows, Open
<1>2. PICK s \in Spellings :
        \/ NewKey(Entries, Entries', NewEntry(s))
        \/ \E x \in Entry : x.key = Fold[s] /\ Longer(Entries, Entries', x, s)
  BY DEF Grows
<1>3. Entries' = KM!Appended(s)
  <2>1. CASE NewKey(Entries, Entries', NewEntry(s))  BY <2>1, NewKeyAppends
  <2>2. CASE \E x \in Entry : x.key = Fold[s] /\ Longer(Entries, Entries', x, s)
    BY <2>2, LongerAppends
  <2> QED BY <1>2, <2>1, <2>2
<1>4. Listed = <<>> /\ Listed' = <<>>  BY <1>1 DEF Listed
<1>5. (phase' \in {"adding", "walking"}) = (phase \in {"adding", "walking"})
  BY <1>1
<1>6. UNCHANGED <<phase \in {"adding", "walking"}, Listed>>  BY <1>4, <1>5
<1> QED BY <1>1, <1>3, <1>6 DEF KM!Add, Listed

LEMMA FinishesMap ==
  ASSUME TreeInv, CountInv, WalkInv, Finishes
  PROVE  KM!Finish
<1>1. /\ phase \in {"adding", "walking"} /\ ~(phase' \in {"adding", "walking"})
      /\ Entries' = {} /\ ret' = ret
      /\ phase' = "failed" \/
           (phase = "walking" /\ phase' = "written" /\ out' = out /\ Len(out) = header.keys)
  BY DEF Finishes, Open
<1>2. (phase' \in {"adding", "walking"}) = FALSE  BY <1>1
<1>3. CASE phase' = "failed"
  <2>1. Listed' = <<>>  BY <1>3 DEF Listed
  <2> QED BY <1>1, <1>2, <2>1 DEF KM!Finish, Listed
<1>4. CASE phase = "walking" /\ phase' = "written" /\ out' = out /\ Len(out) = header.keys
  <2>1. ToSet(out) = Entries /\ Climbs(out)  BY <1>4, WalkDelivers DEF Delivered
  <2>2. Listed' = out  BY <1>4 DEF Listed
  <2>3. out \in Seq(Entry)  BY DEF WalkInv
  <2>4. DOMAIN out = 1 .. Len(out)  BY <2>3
  <2>5. \A i, j \in DOMAIN out : i < j => out[i].key < out[j].key
    BY <2>1, <2>4 DEF Climbs
  <2>7. KM!ToSet(Listed') = ToSet(Listed')  BY DEF ToSet, KM!ToSet
  <2>6. /\ KM!ToSet(Listed') = Entries
        /\ \A i, j \in DOMAIN Listed' : i < j => Listed'[i].key < Listed'[j].key
    BY <2>1, <2>2, <2>5, <2>7
  <2> QED BY <1>1, <1>2, <2>6 DEF KM!Finish, Listed
<1> QED BY <1>1, <1>3, <1>4

\* The container implements KeyMap: no step of an add that is refused or goes wrong,
\* and no split, changes a key or an item, one that returns TRUE appends its item to its
\* folded key, and the walk delivers the map, or the container fails (udx_keys_add,
\* udx_db_builder_finalize).
THEOREM KeysImplementMap == Spec => Implements
<1>1. Init => KM!Init
  <2> SUFFICES ASSUME Init PROVE KM!Init  OBVIOUS
  <2>1. nodes = <<>> /\ tree = EmptyTree /\ phase = "adding" /\ ret = TRUE  BY DEF Init
  <2>2. tree.root = 0 /\ Len(nodes) = 0  BY <2>1 DEF EmptyTree
  <2>3. EntriesOf(nodes, 0) = {}  BY <2>2, NoneReached
  <2>4. Entries = {}  BY <2>2, <2>3 DEF Entries
  <2>5. (phase \in {"adding", "walking"}) = TRUE  BY <2>1
  <2> QED BY <2>1, <2>4, <2>5 DEF KM!Init
<1>2. TreeInv /\ CountInv /\ WalkInv /\ [Next]_vars =>
        [KM!Next]_<<Entries, phase \in {"adding", "walking"}, Listed, ret>>
  <2> SUFFICES ASSUME TreeInv, CountInv, WalkInv, [Next]_vars
               PROVE  KM!Next \/ UNCHANGED <<Entries, phase \in {"adding", "walking"}, Listed, ret>>
    OBVIOUS
  <2>1. CASE Next
    <3>1. Keeps \/ Grows \/ Finishes  BY <2>1, TreeStep
    <3>2. CASE Keeps  BY <3>2, KeepsMap DEF KM!Next
    <3>3. CASE Grows  BY <3>3, GrowsMap DEF KM!Next
    <3>4. CASE Finishes  BY <3>4, FinishesMap DEF KM!Next
    <3> QED BY <3>1, <3>2, <3>3, <3>4
  <2>2. CASE UNCHANGED vars
    <3>1. UNCHANGED <<nodes, tree, phase, out, ret>>  BY <2>2 DEF vars, memory, walk
    <3>2. Entries' = Entries  BY <3>1 DEF Entries
    <3> QED BY <3>1, <3>2 DEF Listed
  <2> QED BY <2>1, <2>2
<1>3. Spec => KM!Init /\ [][KM!Next]_<<Entries, phase \in {"adding", "walking"}, Listed, ret>>
  BY Hanging, Counting, WalkingOn, <1>1, <1>2, PTL DEF Spec
<1> QED BY <1>3 DEF Implements, KM!Spec, Listed

=============================================================================
