--------------------------- MODULE IndexShapeProofs ---------------------------
(***************************************************************************)
(* The shape of the index, and the prefix matches that rest on it: the      *)
(* separators fit the keys below the children, the height in the header is  *)
(* the depth, the leaves form one chain over all keys, and a prefix match   *)
(* returns the entries it should.                                           *)
(*                                                                         *)
(* The properties are stated with recursive functions.  What such a         *)
(* function is follows from a function that solves its equation, and from   *)
(* the induction UpTo: a solution is unique as far as the equation looks    *)
(* back only.                                                               *)
(***************************************************************************)
EXTENDS IndexTreeProofs

-----------------------------------------------------------------------------
(* Induction over positions.                                                *)

LEMMA LeastOf ==
  ASSUME NEW T, T \subseteq Nat, T # {}
  PROVE  \E m \in T : \A k \in T : m <= k
<1> DEFINE R == OpToRel(<, Nat)
<1>1. IsWellFoundedOn(R, Nat)  BY NatLessThanWellFounded, Zenon
<1>2. \A i, j \in Nat : i < j => <<i, j>> \in R  BY DEF OpToRel
<1> HIDE DEF R
<1>3. PICK m \in T : \A k \in T : ~(<<k, m>> \in R)  BY <1>1, WFMin, Zenon
<1>4. ASSUME NEW k \in T PROVE m <= k
  <2>1. k \in Nat /\ m \in Nat  OBVIOUS
  <2>2. ~(k < m)  BY <1>2, <1>3, <2>1
  <2> QED BY <2>1, <2>2
<1> QED BY <1>4

\* A set holds all numbers up to n when it holds each whose predecessors it holds.
LEMMA UpTo ==
  ASSUME NEW n \in Nat, NEW a \in {0, 1}, NEW S,
         \A p \in a .. n : (\A q \in a .. p - 1 : q \in S) => p \in S
  PROVE  \A p \in a .. n : p \in S
<1> DEFINE T == {p \in a .. n : p \notin S}
<1> SUFFICES ASSUME T # {} PROVE FALSE  OBVIOUS
<1>1. T \subseteq Nat  OBVIOUS
<1> HIDE DEF T
<1>2. PICK m \in T : \A k \in T : m <= k  BY <1>1, LeastOf
<1>3. m \in a .. n /\ m \notin S /\ m \in Nat  BY <1>1 DEF T
<1>4. ASSUME NEW q \in a .. m - 1 PROVE q \in S
  <2>1. q \in a .. n /\ ~(m <= q)  BY <1>3
  <2> QED BY <2>1, <1>2 DEF T
<1> QED BY <1>3, <1>4

-----------------------------------------------------------------------------
(* The keys below the nodes.                                                *)

\* Intervals of a sequence.
LEMMA Interval ==
  ASSUME NEW S, NEW s \in Seq(S), NEW a \in Nat, NEW b \in Nat, a <= b, b <= Len(s)
  PROVE  /\ SubSeq(s, a + 1, b) \in Seq(S)
         /\ Len(SubSeq(s, a + 1, b)) = b - a
         /\ \A i \in 1 .. b - a : SubSeq(s, a + 1, b)[i] = s[a + i]
<1>1. Len(s) \in Nat  OBVIOUS
<1> QED BY <1>1

LEMMA IntervalOf ==
  ASSUME NEW S, NEW s \in Seq(S), NEW a \in Nat, NEW b \in Nat, a <= b, b <= Len(s),
         NEW t \in Seq(S), Len(t) = b - a, \A i \in 1 .. b - a : t[i] = s[a + i]
  PROVE  t = SubSeq(s, a + 1, b)
<1> DEFINE u == SubSeq(s, a + 1, b)
<1>1. u \in Seq(S) /\ Len(u) = b - a /\ \A i \in 1 .. b - a : u[i] = s[a + i]
  BY Interval
<1> HIDE DEF u
<1>2. t = u  BY <1>1, SeqEqual
<1> QED BY <1>2 DEF u

LEMMA IntervalsJoin ==
  ASSUME NEW S, NEW s \in Seq(S), NEW a \in Nat, NEW b \in Nat, NEW c \in Nat,
         a <= b, b <= c, c <= Len(s)
  PROVE  SubSeq(s, a + 1, b) \o SubSeq(s, b + 1, c) = SubSeq(s, a + 1, c)
<1> DEFINE u == SubSeq(s, a + 1, b)
           v == SubSeq(s, b + 1, c)
<1>1. Len(s) \in Nat  OBVIOUS
<1>2. u \in Seq(S) /\ Len(u) = b - a /\ \A i \in 1 .. b - a : u[i] = s[a + i]
  BY <1>1, Interval
<1>3. v \in Seq(S) /\ Len(v) = c - b /\ \A i \in 1 .. c - b : v[i] = s[b + i]
  BY Interval
<1> HIDE DEF u, v
<1> DEFINE t == u \o v
<1>4. /\ t \in Seq(S) /\ Len(t) = c - a
      /\ \A i \in 1 .. c - a : t[i] = IF i <= b - a THEN u[i] ELSE v[i - (b - a)]
  <2>1. Len(u) + Len(v) = c - a  BY <1>2, <1>3
  <2>2. /\ u \o v \in Seq(S) /\ Len(u \o v) = Len(u) + Len(v)
        /\ \A i \in 1 .. Len(u) + Len(v) :
             (u \o v)[i] = IF i <= Len(u) THEN u[i] ELSE v[i - Len(u)]
    BY <1>2, <1>3, ConcatProperties
  <2> QED BY <2>1, <2>2, <1>2
<1> HIDE DEF t
<1>5. ASSUME NEW i \in 1 .. c - a PROVE t[i] = s[a + i]
  <2>1. CASE i <= b - a
    <3>1. i \in 1 .. b - a  BY <2>1
    <3> QED BY <3>1, <2>1, <1>2, <1>4
  <2>2. CASE ~(i <= b - a)
    <3>1. i - (b - a) \in 1 .. c - b /\ b + (i - (b - a)) = a + i  BY <2>2
    <3> QED BY <3>1, <2>2, <1>3, <1>4
  <2> QED BY <2>1, <2>2
<1>6. a <= c  OBVIOUS
<1>7. t = SubSeq(s, a + 1, c)  BY <1>4, <1>5, <1>6, IntervalOf
<1> QED BY <1>7 DEF t, u, v

LEMMA FunctionIsSeq ==
  ASSUME NEW S, NEW m \in Nat, NEW f \in [1 .. m -> S]
  PROVE  f \in Seq(S) /\ Len(f) = m
OBVIOUS

\* Adjacent intervals are flattened into the interval they span.
LEMMA Flattened ==
  ASSUME NEW S, NEW s \in Seq(S), NEW m \in Nat \ {0}, NEW b \in [0 .. m -> 0 .. Len(s)],
         \A i \in 1 .. m : b[0] <= b[i - 1] /\ b[i - 1] <= b[i],
         NEW ss, ss = [i \in 1 .. m |-> SubSeq(s, b[i - 1] + 1, b[i])]
  PROVE  FlattenSeq(ss) = SubSeq(s, b[0] + 1, b[m])
<1> DEFINE Eq(f) == f = [i \in 1 .. Len(ss) |->
                           IF i = 1 THEN ss[i] ELSE f[i - 1] \o ss[i]]
           w == [i \in 1 .. m |-> SubSeq(s, b[0] + 1, b[i])]
           f == CHOOSE g : Eq(g)
<1>1. Len(ss) = m /\ \A i \in 1 .. m : ss[i] = SubSeq(s, b[i - 1] + 1, b[i])
  <2>1. ASSUME NEW i \in 1 .. m PROVE SubSeq(s, b[i - 1] + 1, b[i]) \in Seq(S)
    <3>1. i - 1 \in 0 .. m /\ i \in 0 .. m  OBVIOUS
    <3>2. b[i - 1] \in Nat /\ b[i] \in Nat /\ b[i] <= Len(s) /\ b[i - 1] <= b[i]
      BY <3>1
    <3> QED BY <3>2, Interval
  <2>2. ss \in [1 .. m -> Seq(S)]  BY <2>1
  <2> QED BY <2>2, FunctionIsSeq
<1>2. ASSUME NEW i \in 1 .. m
      PROVE  w[i] = IF i = 1 THEN ss[i] ELSE w[i - 1] \o ss[i]
  <2>1. CASE i = 1
    <3>1. b[i - 1] = b[0]  BY <2>1
    <3> QED BY <3>1, <2>1, <1>1
  <2>2. CASE i # 1
    <3>1. i - 1 \in 1 .. m /\ i - 1 \in 0 .. m /\ i \in 0 .. m /\ 0 \in 0 .. m  BY <2>2
    <3>2. /\ b[0] \in Nat /\ b[i - 1] \in Nat /\ b[i] \in Nat /\ b[i] <= Len(s)
          /\ b[0] <= b[i - 1] /\ b[i - 1] <= b[i]
      BY <3>1
    <3>3. SubSeq(s, b[0] + 1, b[i - 1]) \o SubSeq(s, b[i - 1] + 1, b[i])
            = SubSeq(s, b[0] + 1, b[i])
      BY <3>2, IntervalsJoin, ZenonT(60)
    <3> QED BY <3>1, <3>3, <2>2, <1>1
  <2> QED BY <2>1, <2>2
<1>3. Eq(w)
  <2>1. w = [i \in 1 .. m |-> w[i]]  OBVIOUS
  <2> HIDE DEF w
  <2>2. w = [i \in 1 .. m |-> IF i = 1 THEN ss[i] ELSE w[i - 1] \o ss[i]]
    BY <2>1, <1>2
  <2> QED BY <2>2, <1>1
<1>4. Eq(f)  BY <1>3
<1>5. FlattenSeq(ss) = f[m]  BY <1>1 DEF FlattenSeq
<1> HIDE DEF f
<1>6. \A i \in 1 .. m : f[i] = IF i = 1 THEN ss[i] ELSE f[i - 1] \o ss[i]
  BY <1>1, <1>4
<1> DEFINE Good == {i \in 1 .. m : f[i] = w[i]}
<1>7. ASSUME NEW i \in 1 .. m, \A j \in 1 .. i - 1 : j \in Good PROVE i \in Good
  <2>1. CASE i = 1  BY <2>1, <1>2, <1>6
  <2>2. CASE i # 1
    <3>1. i - 1 \in 1 .. i - 1  BY <2>2
    <3>2. f[i - 1] = w[i - 1]  BY <3>1, <1>7
    <3> HIDE DEF w
    <3> QED BY <3>2, <2>2, <1>2, <1>6
  <2> QED BY <2>1, <2>2
<1> HIDE DEF Good
<1>8. m \in 1 .. m /\ m \in Nat /\ 1 \in {0, 1}  OBVIOUS
<1>9. m \in Good  BY <1>7, <1>8, UpTo
<1> QED BY <1>5, <1>8, <1>9 DEF Good

KeysOf(p, lo, hi) == SubSeq(keys, lo[p] + 1, hi[p])

\* The keys below the children of an inner node, one child after the other.
LEMMA ChildrenFlattened ==
  ASSUME NEW lo \in Spans, NEW hi \in Spans, NEW st \in Spans, BuildInv(lo, hi, st),
         NEW p \in 1 .. Len(nodes), nodes[p].kind = "inner"
  PROVE  FlattenSeq([i \in 1 .. Len(nodes[p].children) |->
                       KeysOf(nodes[p].children[i], lo, hi)]) = KeysOf(p, lo, hi)
<1> DEFINE cs == nodes[p].children
           b  == [i \in 0 .. M + 1 |-> IF i = 0 THEN lo[p] ELSE hi[cs[i]]]
           ss == [i \in 1 .. M + 1 |-> SubSeq(keys, b[i - 1] + 1, b[i])]
<1>1. M \in Nat \ {0}  BY IndexAssumption DEF M
<1>2. keys \in Seq(Words) /\ Len(keys) \in Nat  BY Building
<1>3. lo[p] \in Nat /\ hi[p] \in Nat /\ hi[p] <= Len(keys) /\ lo[p] < hi[p]
  BY NodeFacts
<1>4. /\ Len(cs) = M + 1 /\ lo[cs[1]] = lo[p] /\ hi[cs[M + 1]] = hi[p]
      /\ \A i \in 1 .. M : hi[cs[i]] = lo[cs[i + 1]]
      /\ \A i \in 1 .. M + 1 :
           /\ lo[cs[i]] \in Nat /\ hi[cs[i]] \in 1 .. Len(keys) /\ lo[cs[i]] < hi[cs[i]]
  BY InnerFacts
<1> HIDE DEF cs
<1>5. \A i \in 1 .. M + 1 : b[i] = hi[cs[i]] /\ b[i - 1] = lo[cs[i]]
  <2> SUFFICES ASSUME NEW i \in 1 .. M + 1 PROVE b[i] = hi[cs[i]] /\ b[i - 1] = lo[cs[i]]
    OBVIOUS
  <2>1. i \in 0 .. M + 1 /\ i # 0 /\ i - 1 \in 0 .. M + 1  BY <1>1
  <2>2. CASE i = 1  BY <2>1, <2>2, <1>4
  <2>3. CASE i # 1
    <3>1. i - 1 \in 1 .. M /\ i - 1 # 0  BY <2>3, <1>1
    <3>2. hi[cs[i - 1]] = lo[cs[i]]
      <4> DEFINE j == i - 1
      <4>1. j \in 1 .. M /\ j + 1 = i  BY <3>1
      <4> HIDE DEF j
      <4>2. hi[cs[j]] = lo[cs[i]]  BY <4>1, <1>4
      <4> QED BY <4>2 DEF j
    <3> QED BY <2>1, <3>1, <3>2
  <2> QED BY <2>2, <2>3
<1>6. b \in [0 .. M + 1 -> 0 .. Len(keys)] /\ b[0] = lo[p] /\ b[M + 1] = hi[p]
  <2>1. lo[p] \in 0 .. Len(keys)  BY <1>2, <1>3
  <2>2. \A i \in 0 .. M + 1 : i # 0 => hi[cs[i]] \in 0 .. Len(keys)
    <3> SUFFICES ASSUME NEW i \in 0 .. M + 1, i # 0 PROVE hi[cs[i]] \in 0 .. Len(keys)
      OBVIOUS
    <3>1. i \in 1 .. M + 1  BY <1>1
    <3> QED BY <3>1, <1>4
  <2>3. 0 \in 0 .. M + 1 /\ M + 1 \in 1 .. M + 1  BY <1>1
  <2>4. b[0] = lo[p]  BY <2>3
  <2>5. b[M + 1] = hi[p]  BY <2>3, <1>4, <1>5
  <2> QED BY <2>1, <2>2, <2>4, <2>5
<1> HIDE DEF b
<1>7. \A i \in 1 .. M + 1 : b[0] <= b[i - 1] /\ b[i - 1] <= b[i]
  <2> DEFINE Good == {i \in 1 .. M + 1 : b[0] <= b[i - 1]}
  <2>1. \A i \in 1 .. M + 1 :
          /\ b[i - 1] \in Nat /\ b[i] \in Nat /\ b[i - 1] < b[i] /\ b[0] \in Nat
    <3> SUFFICES ASSUME NEW i \in 1 .. M + 1
                 PROVE  /\ b[i - 1] \in Nat /\ b[i] \in Nat /\ b[i - 1] < b[i]
                        /\ b[0] \in Nat
      OBVIOUS
    <3>1. lo[cs[i]] \in Nat /\ hi[cs[i]] \in Nat /\ lo[cs[i]] < hi[cs[i]]  BY <1>4
    <3> QED BY <3>1, <1>3, <1>5, <1>6
  <2>2. ASSUME NEW i \in 1 .. M + 1, \A j \in 1 .. i - 1 : j \in Good PROVE i \in Good
    <3>1. CASE i = 1  BY <3>1, <2>1
    <3>2. CASE i # 1
      <4> DEFINE j == i - 1
      <4>1. j \in 1 .. i - 1 /\ j \in 1 .. M + 1  BY <3>2, <1>1
      <4> HIDE DEF j
      <4>2. b[0] <= b[j - 1] /\ b[j - 1] < b[j] /\ b[j - 1] \in Nat /\ b[j] \in Nat
        BY <4>1, <2>1, <2>2
      <4>3. b[0] \in Nat  BY <2>1, <4>1
      <4>4. b[0] <= b[j]  BY <4>2, <4>3
      <4> QED BY <4>4 DEF j
    <3> QED BY <3>1, <3>2
  <2> HIDE DEF Good
  <2>3. M + 1 \in Nat /\ 1 \in {0, 1}  BY <1>1
  <2>4. \A i \in 1 .. M + 1 : i \in Good  BY <2>2, <2>3, UpTo
  <2>5. ASSUME NEW i \in 1 .. M + 1 PROVE b[i - 1] <= b[i]  BY <2>1
  <2> QED BY <2>4, <2>5 DEF Good
<1>8. FlattenSeq(ss) = SubSeq(keys, b[0] + 1, b[M + 1])
  <2>1. M + 1 \in Nat \ {0}  BY <1>1
  <2> DEFINE m == M + 1
  <2>2. /\ m \in Nat \ {0} /\ b \in [0 .. m -> 0 .. Len(keys)]
        /\ \A i \in 1 .. m : b[0] <= b[i - 1] /\ b[i - 1] <= b[i]
        /\ ss = [i \in 1 .. m |-> SubSeq(keys, b[i - 1] + 1, b[i])]
    BY <2>1, <1>6, <1>7
  <2> HIDE DEF m, ss
  <2>3. FlattenSeq(ss) = SubSeq(keys, b[0] + 1, b[m])  BY <2>2, <1>2, Flattened
  <2> QED BY <2>3 DEF m
<1>9. ss = [i \in 1 .. Len(cs) |-> KeysOf(cs[i], lo, hi)]
  <2>1. \A i \in 1 .. M + 1 : SubSeq(keys, b[i - 1] + 1, b[i]) = KeysOf(cs[i], lo, hi)
    BY <1>5 DEF KeysOf
  <2> QED BY <2>1, <1>4
<1> QED BY <1>6, <1>8, <1>9 DEF KeysOf, cs

\* Content is what the spans say.
LEMMA ContentIs ==
  ASSUME NEW lo \in Spans, NEW hi \in Spans, NEW st \in Spans, BuildInv(lo, hi, st)
  PROVE  \A p \in 1 .. Len(nodes) : Content[p] = KeysOf(p, lo, hi)
<1> DEFINE n == Len(nodes)
           Eq(f) == f = [p \in 1 .. Len(nodes) |->
                           IF nodes[p].kind = "leaf" THEN nodes[p].keys
                           ELSE FlattenSeq([i \in 1 .. Len(nodes[p].children) |->
                                              f[nodes[p].children[i]]])]
           w == [p \in 1 .. n |-> KeysOf(p, lo, hi)]
<1>1. keys \in Seq(Words) /\ Len(keys) \in Nat /\ Len(nodes) \in Nat  BY Building
<1>2. ASSUME NEW f, NEW p \in 1 .. n,
             nodes[p].kind = "inner" =>
               \A i \in 1 .. Len(nodes[p].children) :
                 f[nodes[p].children[i]] = KeysOf(nodes[p].children[i], lo, hi)
      PROVE  KeysOf(p, lo, hi) =
               IF nodes[p].kind = "leaf" THEN nodes[p].keys
               ELSE FlattenSeq([i \in 1 .. Len(nodes[p].children) |->
                                  f[nodes[p].children[i]]])
  <2>1. CASE nodes[p].kind = "leaf"
    <3> DEFINE es == nodes[p].keys
    <3>1. /\ es \in Seq(Words) /\ hi[p] = lo[p] + Len(es) /\ Len(es) \in Nat
          /\ \A i \in 1 .. Len(es) : es[i] = keys[lo[p] + i]
      BY <2>1, LeafEntries DEF IsLeafOf
    <3>2. lo[p] \in Nat /\ hi[p] \in Nat /\ lo[p] < hi[p] /\ hi[p] <= Len(keys)
      BY NodeFacts
    <3> HIDE DEF es
    <3>3. Len(es) = hi[p] - lo[p]  BY <3>1, <3>2
    <3>4. \A i \in 1 .. hi[p] - lo[p] : es[i] = keys[lo[p] + i]  BY <3>1, <3>3
    <3>5. lo[p] <= hi[p]  BY <3>2
    <3>6. es = SubSeq(keys, lo[p] + 1, hi[p])
      BY <3>1, <3>2, <3>3, <3>4, <3>5, <1>1, IntervalOf, ZenonT(60)
    <3> QED BY <3>6, <2>1 DEF KeysOf, es
  <2>2. CASE nodes[p].kind = "inner"
    <3>1. [i \in 1 .. Len(nodes[p].children) |-> f[nodes[p].children[i]]] =
            [i \in 1 .. Len(nodes[p].children) |->
               KeysOf(nodes[p].children[i], lo, hi)]
      BY <1>2, <2>2
    <3> QED BY <3>1, <2>2, ChildrenFlattened
  <2> QED BY <2>1, <2>2, NodeFacts
<1>3. ASSUME NEW p \in 1 .. n, nodes[p].kind = "inner"
      PROVE  \A i \in 1 .. Len(nodes[p].children) :
               nodes[p].children[i] \in 1 .. p - 1 /\ nodes[p].children[i] \in 1 .. n
  BY <1>3, InnerFacts
<1>4. Eq(w)
  <2>1. ASSUME NEW p \in 1 .. n
        PROVE  w[p] = IF nodes[p].kind = "leaf" THEN nodes[p].keys
                      ELSE FlattenSeq([i \in 1 .. Len(nodes[p].children) |->
                                         w[nodes[p].children[i]]])
    <3>1. nodes[p].kind = "inner" =>
            \A i \in 1 .. Len(nodes[p].children) :
              w[nodes[p].children[i]] = KeysOf(nodes[p].children[i], lo, hi)
      BY <1>3
    <3>2. w[p] = KeysOf(p, lo, hi)  OBVIOUS
    <3> HIDE DEF w
    <3> QED BY <3>1, <3>2, <1>2
  <2>2. w = [p \in 1 .. n |-> w[p]]  OBVIOUS
  <2> HIDE DEF w
  <2> QED BY <2>1, <2>2
<1>5. Eq(Content)  BY <1>4 DEF Content
<1>6. ASSUME NEW p \in 1 .. n
      PROVE  Content[p] = IF nodes[p].kind = "leaf" THEN nodes[p].keys
                          ELSE FlattenSeq([i \in 1 .. Len(nodes[p].children) |->
                                             Content[nodes[p].children[i]]])
  BY <1>5
<1> DEFINE Good == {p \in 1 .. n : Content[p] = KeysOf(p, lo, hi)}
<1>7. ASSUME NEW p \in 1 .. n, \A q \in 1 .. p - 1 : q \in Good PROVE p \in Good
  <2>1. nodes[p].kind = "inner" =>
          \A i \in 1 .. Len(nodes[p].children) :
            Content[nodes[p].children[i]] = KeysOf(nodes[p].children[i], lo, hi)
    BY <1>3, <1>7
  <2> QED BY <2>1, <1>2, <1>6
<1> HIDE DEF Good
<1>8. \A p \in 1 .. n : p \in Good
  <2>1. n \in Nat /\ 1 \in {0, 1}  BY <1>1
  <2> HIDE DEF n
  <2> QED BY <2>1, <1>7, UpTo
<1> QED BY <1>8 DEF Good

\* In every index, and at every moment of its construction, an inner node has
\* one child more than separators, each child is written before it and covers
\* a key, and every separator is the greatest key below the child to its left
\* and smaller than the keys below the child to its right, so that
\* find_child_offset may pass it; the root of a finished index covers all keys.
THEOREM TreesSound == Spec => []TreeSound
<1>1. IndexInv => TreeSound
  <2> SUFFICES ASSUME IndexInv PROVE TreeSound  OBVIOUS
  <2> PICK lo \in Spans, hi \in Spans, st \in Spans : BuildInv(lo, hi, st)
    BY DEF IndexInv
  <2>1. keys \in KeyLists /\ keys \in Seq(Words) /\ Len(keys) \in Nat  BY Building
  <2>2. ASSUME phase = "built" PROVE Content[root] = keys
    <3>1. root \in 1 .. Len(nodes) /\ lo[root] = 0 /\ hi[root] = Len(keys)
      BY <2>2, BuiltFacts
    <3>2. Content[root] = KeysOf(root, lo, hi)  BY <3>1, ContentIs
    <3>3. SubSeq(keys, 1, Len(keys)) = keys  BY <2>1, SubSeqFull
    <3> QED BY <3>1, <3>2, <3>3 DEF KeysOf
  <2>3. ASSUME NEW p \in 1 .. Len(nodes), ~IsLeaf(p)
        PROVE  LET children == nodes[p].children
                   seps     == nodes[p].keys
               IN  /\ Len(children) = MaxElements + 1 /\ Len(seps) = MaxElements
                   /\ \A i \in 1 .. Len(children) :
                        children[i] \in 1 .. p - 1 /\ Content[children[i]] # <<>>
                   /\ \A i \in 1 .. Len(seps) :
                        /\ seps[i] = Last(Content[children[i]])
                        /\ seps[i] < Head(Content[children[i + 1]])
    <3> DEFINE cs   == nodes[p].children
               seps == nodes[p].keys
    <3>1. nodes[p].kind = "inner"  BY <2>3, NodeFacts DEF IsLeaf
    <3>2. /\ Len(cs) = M + 1 /\ Len(seps) = M
          /\ \A i \in 1 .. M + 1 : cs[i] \in 1 .. p - 1 /\ cs[i] \in 1 .. Len(nodes)
          /\ \A i \in 1 .. M : hi[cs[i]] = lo[cs[i + 1]]
          /\ \A i \in 1 .. M : seps[i] = keys[hi[cs[i]]]
          /\ \A i \in 1 .. M + 1 :
               /\ lo[cs[i]] \in Nat /\ hi[cs[i]] \in 1 .. Len(keys)
               /\ lo[cs[i]] < hi[cs[i]]
      BY <3>1, InnerFacts
    <3>3. M \in Nat \ {0} /\ M = MaxElements  BY IndexAssumption DEF M
    <3> HIDE DEF cs, seps
    <3>4. ASSUME NEW i \in 1 .. M + 1
          PROVE  LET c == Content[cs[i]] IN
                 /\ c \in Seq(Words) /\ c # <<>>
                 /\ Head(c) = keys[lo[cs[i]] + 1] /\ Last(c) = keys[hi[cs[i]]]
      <4> DEFINE a == lo[cs[i]]
                 b == hi[cs[i]]
                 c == Content[cs[i]]
      <4>1. a \in Nat /\ b \in Nat /\ a < b /\ a <= b /\ b <= Len(keys)
        BY <3>2, <2>1
      <4>2. c = SubSeq(keys, a + 1, b)  BY <3>2, ContentIs DEF KeysOf
      <4> HIDE DEF a, b, c
      <4>3. /\ c \in Seq(Words) /\ Len(c) = b - a
            /\ \A j \in 1 .. b - a : c[j] = keys[a + j]
        BY <4>1, <4>2, <2>1, Interval
      <4>4. Len(c) \in Nat /\ Len(c) # 0 /\ Len(<<>>) = 0  BY <4>1, <4>3
      <4>5. c # <<>>  BY <4>4, Zenon
      <4>6. Head(c) = c[1] /\ Last(c) = c[Len(c)]  BY <4>3, <4>5 DEF Last
      <4>7. 1 \in 1 .. b - a /\ b - a \in 1 .. b - a /\ a + (b - a) = b
        BY <4>1
      <4>8. Head(c) = keys[a + 1] /\ Last(c) = keys[b]  BY <4>3, <4>6, <4>7
      <4> QED BY <4>3, <4>5, <4>8 DEF a, b, c
    <3>5. ASSUME NEW i \in 1 .. M
          PROVE  seps[i] = Last(Content[cs[i]]) /\ seps[i] < Head(Content[cs[i + 1]])
      <4> DEFINE h == hi[cs[i]]
      <4>1. i \in 1 .. M + 1 /\ i + 1 \in 1 .. M + 1  BY <3>3
      <4>2. Last(Content[cs[i]]) = keys[h]  BY <4>1, <3>4
      <4>3. Head(Content[cs[i + 1]]) = keys[h + 1]  BY <4>1, <3>2, <3>4, ZenonT(60)
      <4>4. h \in 1 .. Len(keys) /\ h + 1 \in 1 .. Len(keys)
        <5>1. /\ h \in 1 .. Len(keys) /\ hi[cs[i + 1]] \in 1 .. Len(keys)
              /\ lo[cs[i + 1]] < hi[cs[i + 1]] /\ lo[cs[i + 1]] = h
          BY <4>1, <3>2
        <5> HIDE DEF h
        <5> QED BY <5>1, <2>1
      <4>5. seps[i] = keys[h]  BY <3>2
      <4> HIDE DEF h
      <4>6. h < h + 1  BY <4>4
      <4>7. keys[h] < keys[h + 1]  BY <4>4, <4>6, <2>1, KeysFacts
      <4> QED BY <4>2, <4>3, <4>5, <4>7
    <3> QED BY <3>2, <3>3, <3>4, <3>5 DEF cs, seps
  <2> QED BY <2>2, <2>3 DEF TreeSound
<1> QED BY <1>1, IndexInvariance, PTL

-----------------------------------------------------------------------------
(* The chain of leaves.                                                     *)

LeavesOf(ns) == {p \in 1 .. Len(ns) : ns[p].kind = "leaf"}

\* en[p] keys lie in the leaves among the first p nodes.
Chain(ns, tk, en) ==
  /\ en[0] = 0 /\ en[Len(ns)] = tk /\ tk <= Len(keys)
  /\ \A p, q \in 0 .. Len(ns) : p <= q => en[p] <= en[q]
  /\ \A p \in 1 .. Len(ns) :
       /\ ns[p].kind = "leaf" =>
            /\ en[p] = en[p - 1] + Len(ns[p].keys)
            /\ \A i \in 1 .. Len(ns[p].keys) : ns[p].keys[i] = keys[en[p - 1] + i]
       /\ ns[p].kind = "inner" => en[p] = en[p - 1]

\* Each leaf but the last is linked to the next one.
Links(ns, from, last) ==
  /\ last = 0 => LeavesOf(ns) = {} /\ from = 0
  /\ last # 0 =>
       /\ last \in LeavesOf(ns) /\ from \in LeavesOf(ns)
       /\ \A q \in LeavesOf(ns) : from <= q /\ q <= last
  /\ \A p \in LeavesOf(ns) :
       IF p = last THEN ns[p].next = 0
       ELSE /\ ns[p].next \in LeavesOf(ns) /\ p < ns[p].next
            /\ \A q \in LeavesOf(ns) : p < q => ns[p].next <= q

ChainInv ==
  /\ Links(nodes, first, lastLeaf)
  /\ \E en \in Spans : Chain(nodes, taken, en)

\* One more node lengthens the chain by its keys if it is a leaf.
LEMMA ChainGrown ==
  ASSUME NEW ns \in Seq(Node), NEW ms \in Seq(Node), Len(ms) = Len(ns) + 1,
         \A p \in 1 .. Len(ns) : ms[p].kind = ns[p].kind /\ ms[p].keys = ns[p].keys,
         NEW tk \in Nat, NEW v \in Nat, tk <= v, v <= Len(keys),
         NEW en \in Spans, Chain(ns, tk, en),
         ms[Len(ns) + 1].kind = "leaf" =>
           /\ v = tk + Len(ms[Len(ns) + 1].keys)
           /\ \A i \in 1 .. Len(ms[Len(ns) + 1].keys) :
                ms[Len(ns) + 1].keys[i] = keys[tk + i],
         ms[Len(ns) + 1].kind = "inner" => v = tk
  PROVE  \E en2 \in Spans : Chain(ms, v, en2)
<1> DEFINE n   == Len(ns)
           en2 == [en EXCEPT ![n + 1] = v]
<1>1. n \in Nat  OBVIOUS
<1>2. en2 \in Spans /\ en2[n + 1] = v  BY <1>1 DEF Spans
<1>3. \A p \in 0 .. n : p \in Nat /\ p # n + 1 /\ en2[p] = en[p] /\ en[p] \in Nat
  BY <1>1 DEF Spans
<1> HIDE DEF en2
<1>4. en[0] = 0 /\ en[n] = tk /\ n \in 0 .. n /\ 0 \in 0 .. n  BY <1>1 DEF Chain
<1>5. ASSUME NEW p \in 0 .. n + 1, NEW q \in 0 .. n + 1, p <= q PROVE en2[p] <= en2[q]
  <2>1. CASE q \in 0 .. n
    <3>1. p \in 0 .. n  BY <2>1, <1>1, <1>5
    <3> QED BY <2>1, <3>1, <1>3, <1>5 DEF Chain
  <2>2. CASE q = n + 1 /\ p \in 0 .. n
    <3>1. en[p] <= en[n]  BY <2>2, <1>1, <1>4 DEF Chain
    <3>2. en2[p] = en[p] /\ en[p] \in Nat  BY <2>2, <1>3
    <3> QED BY <2>2, <3>1, <3>2, <1>2, <1>4
  <2>3. CASE q = n + 1 /\ p = n + 1  BY <2>3, <1>2
  <2> QED BY <2>1, <2>2, <2>3, <1>1
<1>6. ASSUME NEW p \in 1 .. n + 1
      PROVE  /\ ms[p].kind = "leaf" =>
                  /\ en2[p] = en2[p - 1] + Len(ms[p].keys)
                  /\ \A i \in 1 .. Len(ms[p].keys) : ms[p].keys[i] = keys[en2[p - 1] + i]
             /\ ms[p].kind = "inner" => en2[p] = en2[p - 1]
  <2>1. CASE p \in 1 .. n
    <3>1. p \in 0 .. n /\ p - 1 \in 0 .. n  BY <2>1, <1>1
    <3>2. en2[p] = en[p] /\ en2[p - 1] = en[p - 1]  BY <3>1, <1>3
    <3>3. p \in 1 .. Len(ns)  BY <2>1
    <3>4. ms[p].kind = ns[p].kind /\ ms[p].keys = ns[p].keys  BY <3>3
    <3>5. /\ ns[p].kind = "leaf" =>
               /\ en[p] = en[p - 1] + Len(ns[p].keys)
               /\ \A i \in 1 .. Len(ns[p].keys) : ns[p].keys[i] = keys[en[p - 1] + i]
          /\ ns[p].kind = "inner" => en[p] = en[p - 1]
      BY <3>3 DEF Chain
    <3> QED BY ONLY <3>2, <3>4, <3>5
  <2>2. CASE p = n + 1
    <3>1. p - 1 = n  BY <2>2, <1>1
    <3>2. en2[p] = v /\ en2[p - 1] = tk  BY <2>2, <3>1, <1>2, <1>3, <1>4
    <3> QED BY <2>2, <3>2
  <2> QED BY <2>1, <2>2, <1>1
<1>7. en2[0] = 0 /\ en2[Len(ms)] = v  BY <1>2, <1>3, <1>4
<1>8. Chain(ms, v, en2)  BY <1>5, <1>6, <1>7 DEF Chain
<1> QED BY <1>2, <1>8

LEMMA ChainPrimed ==
  ASSUME keys' = keys, Links(nodes', first', lastLeaf'),
         \E en \in Spans : Chain(nodes', taken', en)
  PROVE  ChainInv'
<1>1. Links(nodes, first, lastLeaf)'  BY DEF Links, LeavesOf
<1>2. PICK en \in Spans : Chain(nodes', taken', en)  OBVIOUS
<1>3. Chain(nodes, taken, en)'  BY <1>2 DEF Chain
<1> QED BY <1>1, <1>3 DEF ChainInv

LEMMA ChainInvInit == Init => ChainInv
<1> SUFFICES ASSUME Init PROVE ChainInv  OBVIOUS
<1>1. /\ keys \in KeyLists /\ nodes = <<>> /\ first = 0 /\ lastLeaf = 0 /\ taken = 0
  BY DEF Init, BuildInit
<1>2. Len(keys) \in Nat  BY <1>1, KeysFacts
<1>3. Len(nodes) = 0  BY <1>1
<1>4. Links(nodes, first, lastLeaf)  BY <1>1, <1>3 DEF Links, LeavesOf
<1> DEFINE z == [p \in Nat |-> 0]
<1>5. z \in Spans /\ \A p \in Nat : z[p] = 0  BY DEF Spans
<1> HIDE DEF z
<1>6. Chain(nodes, taken, z)  BY <1>1, <1>2, <1>3, <1>5 DEF Chain
<1> QED BY <1>4, <1>5, <1>6 DEF ChainInv

LEMMA BuildLeafChain ==
  ASSUME IndexInv, ChainInv, BuildLeaf
  PROVE  ChainInv'
<1> DEFINE n == Len(nodes)
<1> PICK lo \in Spans, hi \in Spans, st \in Spans : BuildInv(lo, hi, st)
  BY DEF IndexInv
<1>1. /\ keys \in Seq(Words) /\ Len(keys) \in Nat /\ nodes \in Seq(Node) /\ n \in Nat
      /\ todo \in Nat /\ taken \in Nat /\ BuildTyped /\ EndsSound(nodes, lo, hi)
  BY Building DEF BuildInv
<1>2. /\ taken + todo <= Len(keys) /\ taken' = taken + todo /\ lastLeaf' = n + 1
      /\ first' = (IF first = 0 THEN n + 1 ELSE first) /\ keys' = keys
  BY DEF BuildLeaf
<1>3. lastLeaf = 0 \/ lastLeaf \in 1 .. n  BY <1>1 DEF EndsSound
<1>4. /\ nodes' \in Seq(Node) /\ Len(nodes') = n + 1
      /\ \A p \in 1 .. n :
           /\ nodes'[p].kind = nodes[p].kind /\ nodes'[p].keys = nodes[p].keys
           /\ nodes'[p].next = IF p = lastLeaf THEN n + 1 ELSE nodes[p].next
      /\ nodes'[n + 1].kind = "leaf" /\ nodes'[n + 1].next = 0
      /\ Len(nodes'[n + 1].keys) = todo
      /\ \A i \in 1 .. todo : nodes'[n + 1].keys[i] = keys[taken + i]
  BY <1>1, <1>3, LeafWritten
<1>5. \E en \in Spans : Chain(nodes', taken', en)
  <2>1. PICK en \in Spans : Chain(nodes, taken, en)  BY DEF ChainInv
  <2>2. taken' \in Nat /\ taken <= taken' /\ taken' <= Len(keys)  BY <1>1, <1>2
  <2>3. nodes'[n + 1].kind # "inner"  BY <1>4
  <2> QED BY <2>1, <2>2, <2>3, <1>1, <1>2, <1>4, ChainGrown, ZenonT(60)
<1> DEFINE L == LeavesOf(nodes)
<1>6. LeavesOf(nodes') = L \cup {n + 1} /\ \A q \in L : q \in 1 .. n /\ q < n + 1
  <2>1. \A q : q \in LeavesOf(nodes') <=> q \in 1 .. n + 1 /\ nodes'[q].kind = "leaf"
    BY <1>4 DEF LeavesOf
  <2>2. \A q : q \in 1 .. n + 1 <=> q \in 1 .. n \/ q = n + 1  BY <1>1
  <2>3. \A q : q \in L <=> q \in 1 .. n /\ nodes[q].kind = "leaf"  BY DEF LeavesOf
  <2>4. \A q \in 1 .. n : q < n + 1  BY <1>1
  <2> HIDE DEF L
  <2> QED BY <2>1, <2>2, <2>3, <2>4, <1>4
<1>7. Links(nodes, first, lastLeaf)  BY DEF ChainInv
<1> DEFINE l2 == n + 1
<1>8. l2 # 0 /\ l2 \in Nat  BY <1>1
<1>9. first' \in LeavesOf(nodes') /\ \A q \in LeavesOf(nodes') : first' <= q /\ q <= l2
  <2>1. CASE lastLeaf = 0
    <3>1. L = {} /\ first = 0  BY <2>1, <1>7 DEF Links
    <3> HIDE DEF L
    <3> QED BY <3>1, <1>2, <1>6, <1>8
  <2>2. CASE lastLeaf # 0
    <3>1. first \in L /\ \A q \in L : first <= q  BY <2>2, <1>7 DEF Links
    <3>2. first # 0 /\ first' = first  BY <3>1, <1>2, <1>6
    <3> HIDE DEF L
    <3>3. first \in 1 .. n /\ first <= l2 /\ l2 <= l2  BY <3>1, <1>1, <1>6
    <3>4. \A q \in L : first <= q /\ q <= l2
      <4> SUFFICES ASSUME NEW q \in L PROVE first <= q /\ q <= l2  OBVIOUS
      <4>1. q \in 1 .. n  BY <1>6
      <4> QED BY <4>1, <3>1, <1>1
    <3>5. LeavesOf(nodes') = L \cup {l2}  BY <1>6
    <3> HIDE DEF l2
    <3> QED BY <3>1, <3>2, <3>3, <3>4, <3>5
  <2> QED BY <2>1, <2>2
<1>10. ASSUME NEW p \in LeavesOf(nodes')
       PROVE  IF p = l2 THEN nodes'[p].next = 0
              ELSE /\ nodes'[p].next \in LeavesOf(nodes') /\ p < nodes'[p].next
                   /\ \A q \in LeavesOf(nodes') : p < q => nodes'[p].next <= q
  <2>1. CASE p = l2  BY <2>1, <1>4
  <2>2. CASE p # l2 /\ p = lastLeaf
    <3>1. p \in L /\ p \in 1 .. n  BY <2>2, <1>6
    <3>2. lastLeaf # 0  BY <3>1, <2>2
    <3>3. \A q \in L : q <= p  BY <3>2, <2>2, <1>7 DEF Links
    <3>4. nodes'[p].next = l2  BY <3>1, <2>2, <1>4
    <3>5. \A q \in LeavesOf(nodes') : p < q => q = l2
      <4> SUFFICES ASSUME NEW q \in L, p < q PROVE FALSE  BY <1>6
      <4>1. q \in 1 .. n /\ q <= p  BY <3>3, <1>6
      <4> QED BY <4>1, <3>1
    <3> HIDE DEF L
    <3> QED BY <3>1, <3>4, <3>5, <2>2, <1>6, <1>8
  <2>3. CASE p # l2 /\ p # lastLeaf
    <3>1. p \in L /\ p \in 1 .. n  BY <2>3, <1>6
    <3>2. /\ nodes[p].next \in L /\ p < nodes[p].next
          /\ \A q \in L : p < q => nodes[p].next <= q
      BY <3>1, <2>3, <1>7 DEF Links
    <3>3. nodes'[p].next = nodes[p].next  BY <3>1, <2>3, <1>4
    <3>4. nodes[p].next <= l2
      <4>1. nodes[p].next \in 1 .. n  BY <3>2, <1>6
      <4> QED BY <4>1, <1>8
    <3> HIDE DEF L
    <3> QED BY <3>2, <3>3, <3>4, <2>3, <1>6
  <2> QED BY <2>1, <2>2, <2>3
<1>11. Links(nodes', first', lastLeaf')
  <2>1. l2 \in LeavesOf(nodes')  BY <1>6
  <2>2. lastLeaf' = l2  BY <1>2
  <2> HIDE DEF l2
  <2> QED BY <2>1, <2>2, <1>8, <1>9, <1>10 DEF Links
<1> QED BY <1>2, <1>5, <1>11, ChainPrimed

LEMMA CloseNodeChain ==
  ASSUME IndexInv, ChainInv, CloseNode
  PROVE  ChainInv'
<1> DEFINE n  == Len(nodes)
           nd == InnerNode(Append(Top.children, result.pos), Top.seps)
<1> PICK lo \in Spans, hi \in Spans, st \in Spans : BuildInv(lo, hi, st)
  BY DEF IndexInv
<1>1. /\ Len(keys) \in Nat /\ nodes \in Seq(Node) /\ n \in Nat /\ taken \in Nat
  BY Building
<1>2. /\ nodes' = Append(nodes, nd) /\ UNCHANGED <<keys, first, taken, lastLeaf>>
      /\ phase = "return" /\ stack # <<>>
  BY DEF CloseNode
<1>3. nd \in Node /\ nd.kind = "inner"
  <2>1. Top \in Frame  BY <1>2, TopReturned
  <2>2. result.pos \in Nat  BY Building DEF BuildInv, BuildTyped
  <2>3. Append(Top.children, result.pos) \in Seq(Nat) /\ Top.seps \in Seq(Words)
    BY <2>1, <2>2 DEF Frame
  <2> QED BY <2>3 DEF InnerNode, Node
<1> HIDE DEF nd
<1>4. /\ nodes' \in Seq(Node) /\ Len(nodes') = n + 1 /\ nodes'[n + 1] = nd
      /\ \A p \in 1 .. n : nodes'[p] = nodes[p]
  BY <1>1, <1>2, <1>3
<1>5. \E en \in Spans : Chain(nodes', taken', en)
  <2>1. PICK en \in Spans : Chain(nodes, taken, en)  BY DEF ChainInv
  <2>2. taken' = taken /\ taken <= taken /\ taken <= Len(keys)
    BY <2>1, <1>1, <1>2 DEF Chain
  <2>3. nodes'[n + 1].kind = "inner" /\ nodes'[n + 1].kind # "leaf"  BY <1>3, <1>4
  <2>4. \A p \in 1 .. n : nodes'[p].kind = nodes[p].kind /\ nodes'[p].keys = nodes[p].keys
    BY <1>4
  <2> QED BY <2>1, <2>2, <2>3, <2>4, <1>1, <1>4, ChainGrown
<1>6. LeavesOf(nodes') = LeavesOf(nodes) /\ LeavesOf(nodes) \subseteq 1 .. n
  <2>1. \A q : q \in LeavesOf(nodes') <=> q \in 1 .. n + 1 /\ nodes'[q].kind = "leaf"
    BY <1>4 DEF LeavesOf
  <2>2. \A q : q \in 1 .. n + 1 <=> q \in 1 .. n \/ q = n + 1  BY <1>1
  <2>3. \A q : q \in LeavesOf(nodes) <=> q \in 1 .. n /\ nodes[q].kind = "leaf"
    BY DEF LeavesOf
  <2> QED BY <2>1, <2>2, <2>3, <1>3, <1>4, ZenonT(60)
<1>7. Links(nodes', first, lastLeaf)
  <2>1. Links(nodes, first, lastLeaf)  BY DEF ChainInv
  <2>2. \A p \in LeavesOf(nodes) : nodes'[p] = nodes[p]  BY <1>4, <1>6
  <2> QED BY <2>1, <2>2, <1>6 DEF Links
<1> QED BY <1>2, <1>5, <1>7, ChainPrimed

LEMMA ChainInvStep == IndexInv /\ ChainInv /\ [Next]_vars => ChainInv'
<1> SUFFICES ASSUME IndexInv, ChainInv, [Next]_vars PROVE ChainInv'  OBVIOUS
<1>1. CASE BuildLeaf  BY <1>1, BuildLeafChain
<1>2. CASE CloseNode  BY <1>2, CloseNodeChain
<1>3. CASE UNCHANGED <<keys, nodes, first, taken, lastLeaf>>
  <2>1. Links(nodes, first, lastLeaf)' BY <1>3 DEF ChainInv, Links, LeavesOf
  <2>2. PICK en \in Spans : Chain(nodes, taken, en)  BY DEF ChainInv
  <2>3. Chain(nodes, taken, en)'  BY <1>3, <2>2 DEF Chain
  <2> QED BY <2>1, <2>3 DEF ChainInv
<1>4. OpenNode \/ NextChild \/ BuildDone \/ BuildFails \/ UNCHANGED buildVars =>
        UNCHANGED <<keys, nodes, first, taken, lastLeaf>>
  BY DEF OpenNode, NextChild, BuildDone, BuildFails, buildVars
<1>5. ReadStep => UNCHANGED buildVars  BY ReadsOnly
<1>6. UNCHANGED vars => UNCHANGED buildVars  BY DEF vars
<1> QED BY <1>1, <1>2, <1>3, <1>4, <1>5, <1>6 DEF Next, BuildStep, BuildNext

LEMMA ChainInvariance == Spec => [](IndexInv /\ ChainInv)
<1>1. Init => IndexInv /\ ChainInv  BY IndexInvInit, ChainInvInit
<1>2. IndexInv /\ ChainInv /\ [Next]_vars => IndexInv' /\ ChainInv'
  BY IndexInvStep, ChainInvStep
<1> QED BY <1>1, <1>2, PTL DEF Spec

LEMMA MinIs ==
  ASSUME NEW T, T \subseteq Nat, NEW m \in T, \A k \in T : m <= k
  PROVE  FirstOf(T) = m
<1> DEFINE c == CHOOSE x \in T : \A y \in T : x <= y
<1>1. c \in T /\ \A y \in T : c <= y  OBVIOUS
<1> HIDE DEF c
<1>2. c <= m /\ m <= c /\ c \in Nat /\ m \in Nat  BY <1>1
<1>3. c = m  BY <1>2
<1>4. FirstOf(T) = c  BY DEF FirstOf, Min, c
<1> QED BY <1>3, <1>4

\* Listed is what the chain says.
LEMMA ListedIs ==
  ASSUME keys \in Seq(Words), nodes \in Seq(Node), NEW en \in Spans,
         Chain(nodes, taken, en), taken \in Nat
  PROVE  \A p \in 0 .. Len(nodes) : Listed[p] = SubSeq(keys, 0 + 1, en[p])
<1> DEFINE n == Len(nodes)
           Eq(f) == f = [p \in 0 .. Len(nodes) |->
                           IF p = 0 THEN <<>>
                           ELSE IF IsLeaf(p) THEN f[p - 1] \o nodes[p].keys
                                             ELSE f[p - 1]]
           w == [p \in 0 .. n |-> SubSeq(keys, 0 + 1, en[p])]
<1>1. n \in Nat /\ Len(keys) \in Nat  OBVIOUS
<1>2. ASSUME NEW f, NEW p \in 0 .. n, p # 0 => f[p - 1] = SubSeq(keys, 0 + 1, en[p - 1])
      PROVE  SubSeq(keys, 0 + 1, en[p]) =
               IF p = 0 THEN <<>>
               ELSE IF IsLeaf(p) THEN f[p - 1] \o nodes[p].keys ELSE f[p - 1]
  <2>1. CASE p = 0
    <3>1. en[p] = 0  BY <2>1 DEF Chain
    <3>2. SubSeq(keys, 0 + 1, 0) = <<>>  BY SubSeqEmpty
    <3> QED BY <3>1, <3>2, <2>1
  <2>2. CASE p # 0
    <3> DEFINE a == en[p - 1]
               b == en[p]
               es == nodes[p].keys
    <3>1. p \in 1 .. n /\ p - 1 \in 0 .. n /\ n \in 0 .. n /\ p <= n /\ p - 1 <= p
      BY <2>2, <1>1
    <3>2. a \in Nat /\ b \in Nat
      <4>1. p \in Nat /\ p - 1 \in Nat  BY <3>1
      <4> QED BY <4>1 DEF Spans
    <3>3. a <= b /\ b <= taken /\ taken <= Len(keys)  BY <3>1 DEF Chain
    <3>4. /\ IsLeaf(p) => b = a + Len(es) /\ \A i \in 1 .. Len(es) : es[i] = keys[a + i]
          /\ ~IsLeaf(p) => b = a
      <4>1. nodes[p] \in Node  BY <3>1
      <4>2. nodes[p].kind = "leaf" \/ nodes[p].kind = "inner"  BY <4>1 DEF Node
      <4> QED BY <3>1, <4>2 DEF Chain, IsLeaf
    <3>5. es \in Seq(Words)
      <4>1. nodes[p] \in Node  BY <3>1
      <4> QED BY <4>1 DEF Node
    <3>6. f[p - 1] = SubSeq(keys, 0 + 1, a)  BY <2>2, <1>2
    <3> HIDE DEF a, es
    <3>7. CASE IsLeaf(p)
      <4>1. Len(es) \in Nat /\ Len(es) = b - a  BY <3>2, <3>4, <3>5, <3>7
      <4>2. b <= Len(keys)  BY <3>2, <3>3, <1>1
      <4>3. \A i \in 1 .. b - a : es[i] = keys[a + i]  BY <3>4, <3>7, <4>1
      <4> HIDE DEF b
      <4>4. es = SubSeq(keys, a + 1, b)  BY <3>2, <3>3, <3>5, <4>1, <4>2, <4>3, IntervalOf
      <4>5. 0 \in Nat /\ 0 <= a  BY <3>2
      <4>6. SubSeq(keys, 0 + 1, a) \o SubSeq(keys, a + 1, b) = SubSeq(keys, 0 + 1, b)
        BY <3>2, <3>3, <4>2, <4>5, IntervalsJoin
      <4> QED BY <2>2, <3>6, <3>7, <4>4, <4>6 DEF a, b, es
    <3>8. CASE ~IsLeaf(p)  BY <2>2, <3>4, <3>6, <3>8
    <3> QED BY <3>7, <3>8
  <2> QED BY <2>1, <2>2
<1>3. Eq(w)
  <2>1. ASSUME NEW p \in 0 .. n
        PROVE  w[p] = IF p = 0 THEN <<>>
                      ELSE IF IsLeaf(p) THEN w[p - 1] \o nodes[p].keys ELSE w[p - 1]
    <3>1. p # 0 => w[p - 1] = SubSeq(keys, 0 + 1, en[p - 1])
      <4>1. p # 0 => p - 1 \in 0 .. n  BY <1>1
      <4> QED BY <4>1
    <3>2. w[p] = SubSeq(keys, 0 + 1, en[p])  OBVIOUS
    <3> HIDE DEF w
    <3> QED BY <3>1, <3>2, <1>2
  <2>2. w = [p \in 0 .. n |-> w[p]]  OBVIOUS
  <2> HIDE DEF w
  <2> QED BY <2>1, <2>2
<1>4. Eq(Listed)  BY <1>3 DEF Listed
<1>5. ASSUME NEW p \in 0 .. n
      PROVE  Listed[p] = IF p = 0 THEN <<>>
                         ELSE IF IsLeaf(p) THEN Listed[p - 1] \o nodes[p].keys
                                           ELSE Listed[p - 1]
  BY <1>4
<1> DEFINE Good == {p \in 0 .. n : Listed[p] = SubSeq(keys, 0 + 1, en[p])}
<1>6. ASSUME NEW p \in 0 .. n, \A q \in 0 .. p - 1 : q \in Good PROVE p \in Good
  <2>1. p # 0 => p - 1 \in 0 .. p - 1  OBVIOUS
  <2>2. p # 0 => Listed[p - 1] = SubSeq(keys, 0 + 1, en[p - 1])  BY <2>1, <1>6
  <2> QED BY <2>2, <1>2, <1>5
<1> HIDE DEF Good
<1>7. \A p \in 0 .. n : p \in Good
  <2>1. n \in Nat /\ 0 \in {0, 1}  BY <1>1
  <2> HIDE DEF n
  <2> QED BY <2>1, <1>6, UpTo
<1> QED BY <1>7 DEF Good

\* At every moment of the construction, also when it has failed, the leaves
\* written hold the keys the iterator delivered, none missing and none twice,
\* and the links that build_leaf_node patches lead from the first leaf through
\* each of them to the last.
THEOREM LeavesAreChained == Spec => []LeavesChained
<1>1. IndexInv /\ ChainInv => LeavesChained
  <2> SUFFICES ASSUME IndexInv, ChainInv PROVE LeavesChained  OBVIOUS
  <2> PICK lo \in Spans, hi \in Spans, st \in Spans : BuildInv(lo, hi, st)
    BY DEF IndexInv
  <2>1. /\ keys \in Seq(Words) /\ nodes \in Seq(Node) /\ Len(nodes) \in Nat
        /\ taken \in Nat
    BY Building
  <2>2. PICK en \in Spans : Chain(nodes, taken, en)  BY DEF ChainInv
  <2>3. Listed[Len(nodes)] = SubSeq(keys, 1, taken)
    <3>1. Len(nodes) \in 0 .. Len(nodes) /\ en[Len(nodes)] = taken
      BY <2>1, <2>2 DEF Chain
    <3>2. Listed[Len(nodes)] = SubSeq(keys, 0 + 1, en[Len(nodes)])
      BY <3>1, <2>1, <2>2, ListedIs
    <3> QED BY <3>1, <3>2
  <2>4. Leaves = LeavesOf(nodes)  BY DEF Leaves, LeavesOf, IsLeaf
  <2>5. Leaves \subseteq 1 .. Len(nodes) /\ Leaves \subseteq Nat  BY DEF Leaves
  <2>6. Links(nodes, first, lastLeaf)  BY DEF ChainInv
  <2> HIDE DEF Leaves
  <2>7. ASSUME NEW p \in Leaves
        PROVE  nodes[p].next = FirstOf({q \in Leaves : q > p})
    <3> DEFINE T == {q \in Leaves : q > p}
    <3>1. CASE p = lastLeaf
      <4>1. nodes[p].next = 0  BY <3>1, <2>4, <2>6 DEF Links
      <4>2. p # 0  BY <2>5
      <4>3. \A q \in Leaves : q <= p  BY <3>1, <4>2, <2>4, <2>6 DEF Links
      <4>4. T = {}
        <5> SUFFICES ASSUME NEW q \in Leaves, q > p PROVE FALSE  OBVIOUS
        <5>1. q \in Nat /\ p \in Nat /\ q <= p  BY <4>3, <2>5
        <5> QED BY <5>1
      <4> QED BY <4>1, <4>4 DEF FirstOf
    <3>2. CASE p # lastLeaf
      <4> DEFINE m == nodes[p].next
      <4>1. m \in Leaves /\ p < m /\ \A q \in Leaves : p < q => m <= q
        BY <3>2, <2>4, <2>6 DEF Links
      <4> HIDE DEF m
      <4>2. p \in Nat /\ m \in Nat  BY <4>1, <2>5
      <4>3. m \in T  BY <4>1, <4>2
      <4>4. T \subseteq Nat  BY <2>5
      <4>5. ASSUME NEW q \in T PROVE m <= q
        <5>1. q \in Leaves /\ q > p /\ q \in Nat  BY <4>4
        <5> QED BY <5>1, <4>1, <4>2
      <4> HIDE DEF T
      <4>6. FirstOf(T) = m  BY <4>3, <4>4, <4>5, MinIs
      <4> QED BY <4>6 DEF m, T
    <3> QED BY <3>1, <3>2
  <2>8. first = FirstOf(Leaves)
    <3>1. CASE lastLeaf = 0
      <4>1. Leaves = {} /\ first = 0  BY <3>1, <2>4, <2>6 DEF Links
      <4> QED BY <4>1 DEF FirstOf
    <3>2. CASE lastLeaf # 0
      <4>1. first \in Leaves /\ \A q \in Leaves : first <= q
        BY <3>2, <2>4, <2>6 DEF Links
      <4> QED BY <4>1, <2>5, MinIs
    <3> QED BY <3>1, <3>2
  <2> QED BY <2>3, <2>7, <2>8 DEF LeavesChained
<1> QED BY <1>1, ChainInvariance, PTL

-----------------------------------------------------------------------------
(* The height.                                                              *)

\* h is the greatest of the heights ht of the nodes cs.
TallestOf(cs, ht, h) ==
  /\ Len(cs) = 0 => h = 0
  /\ Len(cs) > 0 => \E i \in 1 .. Len(cs) : ht[cs[i]] = h
  /\ \A i \in 1 .. Len(cs) : ht[cs[i]] <= h

\* ht[p] is the height of the node p.
Deep(ns, p, ht) ==
  /\ ns[p].kind = "leaf" => ht[p] = 1
  /\ ns[p].kind = "inner" => \E h \in Nat : ht[p] = 1 + h /\ TallestOf(ns[p].children, ht, h)

Heights(ns, stk, ht) ==
  /\ \A p \in 1 .. Len(ns) : Deep(ns, p, ht)
  /\ \A i \in 1 .. Len(stk) : TallestOf(stk[i].children, ht, stk[i].height)

HeightInv ==
  \E ht \in Spans :
    /\ Heights(nodes, stack, ht)
    /\ phase = "return" => result.height = ht[result.pos]
    /\ phase = "built" => height = ht[root]

LEMMA TallestKept ==
  ASSUME NEW n \in Nat, NEW cs, \A i \in 1 .. Len(cs) : cs[i] \in 1 .. n,
         NEW ht, NEW ht2, Agree(n, ht, ht2), NEW h, TallestOf(cs, ht, h)
  PROVE  TallestOf(cs, ht2, h)
<1>1. \A i \in 1 .. Len(cs) : ht2[cs[i]] = ht[cs[i]]  BY DEF Agree
<1> QED BY <1>1 DEF TallestOf

LEMMA TallestAppended ==
  ASSUME NEW cs \in Seq(Nat), NEW c \in Nat, NEW ht \in Spans, NEW h \in Nat,
         TallestOf(cs, ht, h)
  PROVE  TallestOf(Append(cs, c), ht, Tallest(h, ht[c])) /\ Tallest(h, ht[c]) \in Nat
<1> DEFINE n  == Len(cs)
           ds == Append(cs, c)
           g  == ht[c]
           t  == Tallest(h, g)
<1>1. n \in Nat /\ \A i \in 1 .. n : cs[i] \in Nat  OBVIOUS
<1>2. /\ Len(ds) = n + 1 /\ ds[n + 1] = c /\ \A i \in 1 .. n : ds[i] = cs[i]
  OBVIOUS
<1>3. g \in Nat /\ \A i \in 1 .. n : ht[cs[i]] \in Nat  BY <1>1 DEF Spans
<1>4. ht[ds[n + 1]] = g /\ \A i \in 1 .. n : ht[ds[i]] = ht[cs[i]]  BY <1>2
<1> HIDE DEF ds, g
<1>5. t \in Nat /\ h <= t /\ g <= t /\ ((t = h /\ g < h) \/ t = g)  BY <1>3 DEF Tallest
<1> HIDE DEF t
<1>6. ASSUME NEW i \in 1 .. n + 1 PROVE ht[ds[i]] <= t
  <2>1. CASE i = n + 1  BY <2>1, <1>4, <1>5
  <2>2. CASE i # n + 1
    <3>1. i \in 1 .. n  BY <2>2, <1>1
    <3>2. ht[cs[i]] <= h /\ ht[cs[i]] \in Nat  BY <3>1, <1>3 DEF TallestOf
    <3> QED BY <3>1, <3>2, <1>4, <1>5
  <2> QED BY <2>1, <2>2
<1>7. \E i \in 1 .. n + 1 : ht[ds[i]] = t
  <2>1. CASE t = g
    <3>1. n + 1 \in 1 .. n + 1  BY <1>1
    <3> QED BY <2>1, <3>1, <1>4
  <2>2. CASE t = h /\ g < h
    <3>1. n # 0  BY <2>2, <1>3 DEF TallestOf
    <3>2. n > 0  BY <3>1, <1>1
    <3>3. PICK i \in 1 .. n : ht[cs[i]] = h  BY <3>2 DEF TallestOf
    <3>4. i \in 1 .. n + 1  BY <1>1
    <3> QED BY <3>3, <3>4, <2>2, <1>4
  <2> QED BY <2>1, <2>2, <1>5
<1>8. Len(ds) # 0  BY <1>1, <1>2
<1>9. TallestOf(ds, ht, t)  BY <1>2, <1>6, <1>7, <1>8 DEF TallestOf
<1> QED BY <1>5, <1>9 DEF ds, g, t

LEMMA HeightPrimed ==
  ASSUME NEW ht \in Spans, Heights(nodes', stack', ht),
         phase' = "return" => result'.height = ht[result'.pos],
         phase' = "built" => height' = ht[root']
  PROVE  HeightInv'
<1>1. Heights(nodes, stack, ht)'  BY DEF Heights, Deep, TallestOf
<1> QED BY <1>1 DEF HeightInv

\* The children of the frames and of the nodes are nodes.
LEMMA ChildrenThere ==
  ASSUME NEW lo \in Spans, NEW hi \in Spans, NEW st \in Spans, BuildInv(lo, hi, st)
  PROVE  /\ \A i \in 1 .. Len(stack) : \A j \in 1 .. Len(stack[i].children) :
              stack[i].children[j] \in 1 .. Len(nodes)
         /\ \A p \in 1 .. Len(nodes) : nodes[p].kind = "inner" =>
              \A j \in 1 .. Len(nodes[p].children) :
                nodes[p].children[j] \in 1 .. Len(nodes)
<1>1. FramesSound(Len(nodes), stack, lo, hi, st)  BY Building
<1>2. \A i \in 1 .. Len(stack) : FrameSound(Len(nodes), stack[i], st[i], lo, hi)
  BY <1>1 DEF FramesSound
<1>3. \A i \in 1 .. Len(stack) : \A j \in 1 .. Len(stack[i].children) :
        stack[i].children[j] \in 1 .. Len(nodes)
  BY <1>2 DEF FrameSound
<1>4. ASSUME NEW p \in 1 .. Len(nodes), nodes[p].kind = "inner"
      PROVE  \A j \in 1 .. Len(nodes[p].children) : nodes[p].children[j] \in 1 .. Len(nodes)
  BY <1>4, InnerFacts
<1> QED BY <1>3, <1>4

\* A node more leaves the heights of the others alone.
LEMMA HeightsExtended ==
  ASSUME NEW lo \in Spans, NEW hi \in Spans, NEW st \in Spans, BuildInv(lo, hi, st),
         NEW ht \in Spans, Heights(nodes, stack, ht), NEW h \in Nat,
         NEW ms, Len(ms) = Len(nodes) + 1,
         \A p \in 1 .. Len(nodes) :
           ms[p].kind = nodes[p].kind /\ ms[p].children = nodes[p].children,
         ms[Len(nodes) + 1].kind = "leaf" => h = 1,
         ms[Len(nodes) + 1].kind = "inner" =>
           \E g \in Nat : /\ h = 1 + g /\ TallestOf(ms[Len(nodes) + 1].children, ht, g)
                          /\ \A i \in 1 .. Len(ms[Len(nodes) + 1].children) :
                               ms[Len(nodes) + 1].children[i] \in 1 .. Len(nodes)
  PROVE  \E ht2 \in Spans : /\ ht2[Len(nodes) + 1] = h /\ Agree(Len(nodes), ht, ht2)
                            /\ Heights(ms, stack, ht2)
<1> DEFINE n == Len(nodes)
<1>1. n \in Nat  BY Building
<1>2. PICK ht2 \in Spans : ht2[n + 1] = h /\ Agree(n, ht, ht2)  BY <1>1, Extended
<1>3. ASSUME NEW i \in 1 .. Len(stack)
      PROVE  TallestOf(stack[i].children, ht2, stack[i].height)
  <2>1. TallestOf(stack[i].children, ht, stack[i].height)  BY DEF Heights
  <2>2. \A j \in 1 .. Len(stack[i].children) : stack[i].children[j] \in 1 .. n
    BY ChildrenThere
  <2> QED BY <2>1, <2>2, <1>1, <1>2, TallestKept
<1>4. ASSUME NEW p \in 1 .. n PROVE Deep(ms, p, ht2)
  <2>1. Deep(nodes, p, ht) /\ ht2[p] = ht[p]  BY <1>2 DEF Heights, Agree
  <2>2. ASSUME nodes[p].kind = "inner"
        PROVE  \E g \in Nat : ht2[p] = 1 + g /\ TallestOf(nodes[p].children, ht2, g)
    <3>1. PICK g \in Nat : ht[p] = 1 + g /\ TallestOf(nodes[p].children, ht, g)
      BY <2>1, <2>2 DEF Deep
    <3>2. \A j \in 1 .. Len(nodes[p].children) : nodes[p].children[j] \in 1 .. n
      BY <2>2, ChildrenThere
    <3>3. TallestOf(nodes[p].children, ht2, g)  BY <3>1, <3>2, <1>1, <1>2, TallestKept
    <3> QED BY <2>1, <3>1, <3>3
  <2> QED BY <2>1, <2>2 DEF Deep
<1>5. Deep(ms, n + 1, ht2)
  <2>1. ASSUME ms[n + 1].kind = "inner"
        PROVE  \E g \in Nat : ht2[n + 1] = 1 + g /\ TallestOf(ms[n + 1].children, ht2, g)
    <3>1. PICK g \in Nat : /\ h = 1 + g /\ TallestOf(ms[n + 1].children, ht, g)
                           /\ \A i \in 1 .. Len(ms[n + 1].children) :
                                ms[n + 1].children[i] \in 1 .. n
      BY <2>1
    <3>2. TallestOf(ms[n + 1].children, ht2, g)  BY <3>1, <1>1, <1>2, TallestKept
    <3> QED BY <3>1, <3>2, <1>2
  <2> QED BY <2>1, <1>2 DEF Deep
<1>6. \A p \in 1 .. Len(ms) : Deep(ms, p, ht2)
  <2>1. \A p \in 1 .. n + 1 : p \in 1 .. n \/ p = n + 1  BY <1>1
  <2> QED BY <2>1, <1>4, <1>5
<1> QED BY <1>2, <1>3, <1>6 DEF Heights

LEMMA HeightInvInit == Init => HeightInv
<1> SUFFICES ASSUME Init PROVE HeightInv  OBVIOUS
<1>1. nodes = <<>> /\ stack = <<>> /\ phase = "call"  BY DEF Init, BuildInit
<1>2. Len(nodes) = 0 /\ Len(stack) = 0  BY <1>1
<1> DEFINE z == [p \in Nat |-> 0]
<1>3. z \in Spans  BY DEF Spans
<1>4. Heights(nodes, stack, z)  BY <1>2 DEF Heights
<1> HIDE DEF z
<1> QED BY <1>1, <1>3, <1>4 DEF HeightInv

LEMMA BuildLeafHeight ==
  ASSUME IndexInv, HeightInv, BuildLeaf
  PROVE  HeightInv'
<1> DEFINE n == Len(nodes)
<1> PICK lo \in Spans, hi \in Spans, st \in Spans : BuildInv(lo, hi, st)
  BY DEF IndexInv
<1> PICK ht \in Spans : Heights(nodes, stack, ht)  BY DEF HeightInv
<1>1. BuildTyped /\ EndsSound(nodes, lo, hi) /\ n \in Nat  BY Building DEF BuildInv
<1>2. lastLeaf = 0 \/ lastLeaf \in 1 .. n  BY <1>1 DEF EndsSound
<1>3. /\ Len(nodes') = n + 1 /\ nodes'[n + 1].kind = "leaf"
      /\ \A p \in 1 .. n :
           nodes'[p].kind = nodes[p].kind /\ nodes'[p].children = nodes[p].children
  BY <1>1, <1>2, LeafWritten
<1>4. nodes'[n + 1].kind # "inner"  BY <1>3
<1>5. PICK ht2 \in Spans : ht2[n + 1] = 1 /\ Heights(nodes', stack, ht2)
  BY <1>3, <1>4, HeightsExtended
<1>6. stack' = stack /\ result' = [pos |-> n + 1, height |-> 1] /\ phase' = "return"
  BY DEF BuildLeaf
<1>7. result'.height = ht2[result'.pos]  BY <1>5, <1>6
<1> QED BY <1>5, <1>6, <1>7, HeightPrimed

LEMMA OpenNodeHeight ==
  ASSUME IndexInv, HeightInv, OpenNode
  PROVE  HeightInv'
<1> DEFINE f == [size |-> todo, prev |-> 0, children |-> <<>>, seps |-> <<>>, height |-> 0]
<1> PICK lo \in Spans, hi \in Spans, st \in Spans : BuildInv(lo, hi, st)
  BY DEF IndexInv
<1> PICK ht \in Spans : Heights(nodes, stack, ht)  BY DEF HeightInv
<1>1. stack \in Seq(Frame) /\ Len(stack) \in Nat /\ todo \in Nat  BY Building
<1>2. phase' = "call" /\ nodes' = nodes /\ stack' = Append(stack, f)  BY DEF OpenNode
<1>3. TallestOf(f.children, ht, f.height)
  <2>1. f.children = <<>> /\ f.height = 0 /\ Len(<<>>) = 0  OBVIOUS
  <2> HIDE DEF f
  <2> QED BY <2>1 DEF TallestOf
<1>4. f \in Frame  BY <1>1 DEF Frame
<1> HIDE DEF f
<1>5. Len(stack') = Len(stack) + 1 /\ stack'[Len(stack) + 1] = f
      /\ \A i \in 1 .. Len(stack) : stack'[i] = stack[i]
  BY <1>1, <1>2, <1>4
<1>6. ASSUME NEW i \in 1 .. Len(stack')
      PROVE  TallestOf(stack'[i].children, ht, stack'[i].height)
  <2>1. i \in 1 .. Len(stack) \/ i = Len(stack) + 1  BY <1>1, <1>5
  <2> QED BY <2>1, <1>3, <1>5 DEF Heights
<1>7. Heights(nodes', stack', ht)  BY <1>2, <1>6 DEF Heights
<1> QED BY <1>2, <1>7, HeightPrimed

\* The child that was built last beside those of the frame on top.
LEMMA TopHeight ==
  ASSUME NEW lo \in Spans, NEW hi \in Spans, NEW st \in Spans, BuildInv(lo, hi, st),
         NEW ht \in Spans, Heights(nodes, stack, ht), phase = "return",
         result.height = ht[result.pos], stack # <<>>
  PROVE  /\ Top \in Frame /\ result.pos \in 1 .. Len(nodes)
         /\ Top.children \in Seq(Nat)
         /\ TallestOf(Append(Top.children, result.pos), ht,
                      Tallest(Top.height, result.height))
         /\ Tallest(Top.height, result.height) \in Nat
         /\ \A i \in 1 .. Len(Append(Top.children, result.pos)) :
              Append(Top.children, result.pos)[i] \in 1 .. Len(nodes)
         /\ Len(Pop) = Len(stack) - 1 /\ Pop \in Seq(Frame)
         /\ \A i \in 1 .. Len(Pop) : Pop[i] = stack[i] /\ i \in 1 .. Len(stack)
<1> DEFINE cs == Top.children
           c  == result.pos
<1>1. /\ Len(stack) \in 1 .. Len(stack) /\ Top \in Frame /\ c \in 1 .. Len(nodes)
      /\ Len(Pop) = Len(stack) - 1 /\ Pop \in Seq(Frame)
  BY TopReturned
<1>2. stack \in Seq(Frame) /\ Len(nodes) \in Nat  BY Building
<1>3. cs \in Seq(Nat) /\ Top.height \in Nat /\ c \in Nat
  <2>1. cs \in Seq(Nat) /\ Top.height \in Nat  BY <1>1 DEF Frame
  <2>2. \A x \in 1 .. Len(nodes) : x \in Nat  BY <1>2
  <2> QED BY <2>1, <2>2, <1>1
<1>4. TallestOf(cs, ht, Top.height)  BY <1>1 DEF Heights, Top
<1>5. \A i \in 1 .. Len(cs) : cs[i] \in 1 .. Len(nodes)  BY <1>1, ChildrenThere DEF Top
<1>6. \A i \in 1 .. Len(Pop) : Pop[i] = stack[i] /\ i \in 1 .. Len(stack)
  <2>1. \A i \in 1 .. Len(stack) - 1 : SubSeq(stack, 1, Len(stack) - 1)[i] = stack[i]
    BY <1>2, FrontOf
  <2>2. \A i \in 1 .. Len(stack) - 1 : i \in 1 .. Len(stack)  BY <1>1
  <2> QED BY <2>1, <2>2, <1>1 DEF Pop
<1>7. Top.height \in Nat  BY <1>3
<1> HIDE DEF cs, c
<1>8. /\ TallestOf(Append(cs, c), ht, Tallest(Top.height, ht[c]))
      /\ Tallest(Top.height, ht[c]) \in Nat
  BY <1>3, <1>4, <1>7, TallestAppended
<1>9. \A i \in 1 .. Len(Append(cs, c)) : Append(cs, c)[i] \in 1 .. Len(nodes)
  <2>1. /\ Len(Append(cs, c)) = Len(cs) + 1 /\ Append(cs, c)[Len(cs) + 1] = c
        /\ \A i \in 1 .. Len(cs) : Append(cs, c)[i] = cs[i]
    BY <1>3
  <2>2. \A i \in 1 .. Len(cs) + 1 : i \in 1 .. Len(cs) \/ i = Len(cs) + 1  BY <1>3
  <2> QED BY <2>1, <2>2, <1>1, <1>5
<1> QED BY <1>1, <1>3, <1>6, <1>8, <1>9 DEF cs, c

LEMMA NextChildHeight ==
  ASSUME IndexInv, HeightInv, NextChild
  PROVE  HeightInv'
<1> DEFINE f == WithChild(Top)
<1> PICK lo \in Spans, hi \in Spans, st \in Spans : BuildInv(lo, hi, st)
  BY DEF IndexInv
<1>1. /\ phase = "return" /\ stack # <<>> /\ phase' = "call" /\ nodes' = nodes
      /\ stack' = Append(Pop, f)
  BY DEF NextChild
<1> PICK ht \in Spans : Heights(nodes, stack, ht) /\ result.height = ht[result.pos]
  BY <1>1 DEF HeightInv
<1>2. /\ Top \in Frame
      /\ TallestOf(Append(Top.children, result.pos), ht, Tallest(Top.height, result.height))
      /\ Len(Pop) \in Nat /\ Pop \in Seq(Frame)
      /\ \A i \in 1 .. Len(Pop) : Pop[i] = stack[i] /\ i \in 1 .. Len(stack)
  BY <1>1, TopHeight
<1>3. /\ f.children = Append(Top.children, result.pos)
      /\ f.height = Tallest(Top.height, result.height)
  BY <1>2 DEF WithChild, Frame
<1> HIDE DEF f
<1>4. Len(stack') = Len(Pop) + 1 /\ stack'[Len(Pop) + 1] = f
      /\ \A i \in 1 .. Len(Pop) : stack'[i] = Pop[i]
  BY <1>1, <1>2
<1>5. ASSUME NEW i \in 1 .. Len(stack')
      PROVE  TallestOf(stack'[i].children, ht, stack'[i].height)
  <2>1. CASE i \in 1 .. Len(Pop)
    <3>1. stack'[i] = stack[i] /\ i \in 1 .. Len(stack)  BY <2>1, <1>2, <1>4
    <3> QED BY <3>1 DEF Heights
  <2>2. CASE i = Len(Pop) + 1  BY <2>2, <1>2, <1>3, <1>4
  <2> QED BY <2>1, <2>2, <1>2, <1>4
<1>6. Heights(nodes', stack', ht)  BY <1>1, <1>5 DEF Heights
<1> QED BY <1>1, <1>6, HeightPrimed

LEMMA CloseNodeHeight ==
  ASSUME IndexInv, HeightInv, CloseNode
  PROVE  HeightInv'
<1> DEFINE n  == Len(nodes)
           cs == Append(Top.children, result.pos)
           g  == Tallest(Top.height, result.height)
           nd == InnerNode(cs, Top.seps)
<1> PICK lo \in Spans, hi \in Spans, st \in Spans : BuildInv(lo, hi, st)
  BY DEF IndexInv
<1>1. /\ phase = "return" /\ stack # <<>> /\ phase' = "return" /\ stack' = Pop
      /\ nodes' = Append(nodes, nd) /\ result' = [pos |-> n + 1, height |-> g + 1]
  BY DEF CloseNode
<1> PICK ht \in Spans : Heights(nodes, stack, ht) /\ result.height = ht[result.pos]
  BY <1>1 DEF HeightInv
<1>2. /\ TallestOf(cs, ht, g) /\ g \in Nat
      /\ \A i \in 1 .. Len(cs) : cs[i] \in 1 .. n
      /\ \A i \in 1 .. Len(Pop) : Pop[i] = stack[i] /\ i \in 1 .. Len(stack)
  BY <1>1, TopHeight
<1>3. nodes \in Seq(Node) /\ n \in Nat  BY Building
<1>4. nd.kind = "inner" /\ nd.children = cs  BY DEF InnerNode
<1> HIDE DEF nd, cs, g
<1>5. /\ Len(nodes') = n + 1 /\ nodes'[n + 1] = nd
      /\ \A p \in 1 .. n : nodes'[p] = nodes[p]
  BY <1>1, <1>3
<1> DEFINE h == 1 + g
<1>6. h \in Nat /\ g + 1 = h  BY <1>2
<1>7. nodes'[n + 1].kind # "leaf" /\ nodes'[n + 1].children = cs  BY <1>4, <1>5
<1>8. PICK ht2 \in Spans : ht2[n + 1] = h /\ Heights(nodes', stack, ht2)
  <2>1. \E x \in Nat : /\ h = 1 + x /\ TallestOf(nodes'[n + 1].children, ht, x)
                       /\ \A i \in 1 .. Len(nodes'[n + 1].children) :
                            nodes'[n + 1].children[i] \in 1 .. n
    BY <1>2, <1>7
  <2>2. \A p \in 1 .. n :
          nodes'[p].kind = nodes[p].kind /\ nodes'[p].children = nodes[p].children
    BY <1>5
  <2> HIDE DEF h
  <2> QED BY <2>1, <2>2, <1>5, <1>6, <1>7, HeightsExtended, ZenonT(60)
<1>9. Heights(nodes', stack', ht2)  BY <1>1, <1>2, <1>8 DEF Heights
<1>10. result'.height = ht2[result'.pos]  BY <1>1, <1>6, <1>8
<1>11. phase' # "built"  BY <1>1
<1> QED BY <1>9, <1>10, <1>11, HeightPrimed

LEMMA HeightInvStep == IndexInv /\ HeightInv /\ [Next]_vars => HeightInv'
<1> SUFFICES ASSUME IndexInv, HeightInv, [Next]_vars PROVE HeightInv'  OBVIOUS
<1>1. CASE BuildLeaf  BY <1>1, BuildLeafHeight
<1>2. CASE OpenNode   BY <1>2, OpenNodeHeight
<1>3. CASE NextChild  BY <1>3, NextChildHeight
<1>4. CASE CloseNode  BY <1>4, CloseNodeHeight
<1> PICK ht \in Spans : /\ Heights(nodes, stack, ht)
                        /\ phase = "return" => result.height = ht[result.pos]
                        /\ phase = "built" => height = ht[root]
  BY DEF HeightInv
<1>5. CASE BuildDone
  <2>1. /\ phase = "return" /\ phase' = "built" /\ root' = result.pos
        /\ height' = result.height /\ nodes' = nodes /\ stack' = stack
    BY <1>5 DEF BuildDone
  <2> QED BY <2>1, HeightPrimed
<1>6. CASE BuildFails
  <2>1. phase' = "failed" /\ nodes' = nodes /\ stack' = stack  BY <1>6 DEF BuildFails
  <2> QED BY <2>1, HeightPrimed
<1>7. CASE UNCHANGED buildVars
  <2>1. UNCHANGED <<nodes, stack, phase, result, root, height>>  BY <1>7 DEF buildVars
  <2> QED BY <2>1, HeightPrimed
<1>8. ReadStep => UNCHANGED buildVars  BY ReadsOnly
<1>9. UNCHANGED vars => UNCHANGED buildVars  BY DEF vars
<1> QED BY <1>1, <1>2, <1>3, <1>4, <1>5, <1>6, <1>7, <1>8, <1>9
        DEF Next, BuildStep, BuildNext

LEMMA HeightInvariance == Spec => [](IndexInv /\ HeightInv)
<1>1. Init => IndexInv /\ HeightInv  BY IndexInvInit, HeightInvInit
<1>2. IndexInv /\ HeightInv /\ [Next]_vars => IndexInv' /\ HeightInv'
  BY IndexInvStep, HeightInvStep
<1> QED BY <1>1, <1>2, PTL DEF Spec

LEMMA MaxIs ==
  ASSUME NEW T, T \subseteq Nat, NEW m \in T, \A k \in T : k <= m
  PROVE  Max(T) = m
<1> DEFINE c == CHOOSE x \in T : \A y \in T : x >= y
<1>1. \A k \in T : m >= k
  <2> SUFFICES ASSUME NEW k \in T PROVE m >= k  OBVIOUS
  <2>1. k \in Nat /\ m \in Nat /\ k <= m  OBVIOUS
  <2> QED BY <2>1
<1>2. c \in T /\ \A y \in T : c >= y  BY <1>1
<1>3. Max(T) = c  BY DEF Max
<1> HIDE DEF c
<1>4. c >= m /\ c <= m /\ c \in Nat /\ m \in Nat  BY <1>2
<1>5. c = m  BY <1>4
<1> QED BY <1>3, <1>5

\* Depth is what the heights say.
LEMMA DepthIs ==
  ASSUME NEW lo \in Spans, NEW hi \in Spans, NEW st \in Spans, BuildInv(lo, hi, st),
         NEW ht \in Spans, Heights(nodes, stack, ht)
  PROVE  \A p \in 1 .. Len(nodes) : Depth[p] = ht[p]
<1> DEFINE n == Len(nodes)
           Above(f, p) == IF nodes[p].kind = "leaf" THEN 1
                          ELSE 1 + Max({f[nodes[p].children[i]] :
                                          i \in 1 .. Len(nodes[p].children)})
           Eq(f) == f = [p \in 1 .. Len(nodes) |-> Above(f, p)]
           w == [p \in 1 .. n |-> ht[p]]
<1>1. n \in Nat  BY Building
<1>2. ASSUME NEW p \in 1 .. n, nodes[p].kind = "inner"
      PROVE  \A i \in 1 .. Len(nodes[p].children) :
               nodes[p].children[i] \in 1 .. p - 1 /\ nodes[p].children[i] \in 1 .. n
  BY <1>2, InnerFacts
<1>3. ASSUME NEW f, NEW p \in 1 .. n,
             nodes[p].kind = "inner" =>
               \A i \in 1 .. Len(nodes[p].children) :
                 f[nodes[p].children[i]] = ht[nodes[p].children[i]]
      PROVE  ht[p] = Above(f, p)
  <2>1. CASE nodes[p].kind = "leaf"  BY <2>1 DEF Heights, Deep
  <2>2. CASE nodes[p].kind = "inner"
    <3> DEFINE cs == nodes[p].children
               T  == {f[cs[i]] : i \in 1 .. Len(cs)}
    <3>1. PICK h \in Nat : ht[p] = 1 + h /\ TallestOf(cs, ht, h)
      BY <2>2 DEF Heights, Deep
    <3>2. Len(cs) > 0
      <4>1. Len(cs) = M + 1 /\ M \in Nat  BY <2>2, InnerFacts, IndexAssumption DEF M
      <4> QED BY <4>1
    <3>3. \A i \in 1 .. Len(cs) : f[cs[i]] = ht[cs[i]] /\ cs[i] \in 1 .. n
      BY <1>2, <1>3, <2>2
    <3>4. \A q \in 1 .. n : q \in Nat  BY <1>1
    <3> HIDE DEF cs, n
    <3>5. \A i \in 1 .. Len(cs) : f[cs[i]] \in Nat /\ f[cs[i]] <= h
      BY <3>1, <3>3, <3>4 DEF Spans, TallestOf
    <3>6. h \in T  BY <3>1, <3>2, <3>3 DEF TallestOf
    <3>7. T \subseteq Nat /\ \A k \in T : k <= h  BY <3>5
    <3> HIDE DEF T
    <3>8. Max(T) = h  BY <3>6, <3>7, MaxIs
    <3> QED BY <2>2, <3>1, <3>8 DEF T, cs
  <2> QED BY <2>1, <2>2, NodeFacts
<1>4. Eq(w)
  <2>1. ASSUME NEW p \in 1 .. n
        PROVE  w[p] = Above(w, p)
    <3>1. nodes[p].kind = "inner" =>
            \A i \in 1 .. Len(nodes[p].children) :
              w[nodes[p].children[i]] = ht[nodes[p].children[i]]
      BY <1>2
    <3>2. w[p] = ht[p]  OBVIOUS
    <3> HIDE DEF w, Above
    <3> QED BY <3>1, <3>2, <1>3
  <2>2. w = [p \in 1 .. n |-> w[p]]  OBVIOUS
  <2> HIDE DEF w
  <2> QED BY <2>1, <2>2
<1>5. Eq(Depth)  BY <1>4 DEF Depth
<1> HIDE DEF Above
<1>6. \A p \in 1 .. n : Depth[p] = Above(Depth, p)
  <2> DEFINE d == Depth
  <2>1. d = [p \in 1 .. n |-> Above(d, p)]  BY <1>5
  <2> HIDE DEF d
  <2>2. \A p \in 1 .. n : d[p] = Above(d, p)  BY <2>1
  <2> QED BY <2>2 DEF d
<1> DEFINE Good == {p \in 1 .. n : Depth[p] = ht[p]}
<1>7. ASSUME NEW p \in 1 .. n, \A q \in 1 .. p - 1 : q \in Good PROVE p \in Good
  <2>1. nodes[p].kind = "inner" =>
          \A i \in 1 .. Len(nodes[p].children) :
            Depth[nodes[p].children[i]] = ht[nodes[p].children[i]]
    BY <1>2, <1>7
  <2> QED BY <2>1, <1>3, <1>6
<1> HIDE DEF Good
<1>8. \A p \in 1 .. n : p \in Good
  <2>1. n \in Nat /\ 1 \in {0, 1}  BY <1>1
  <2> HIDE DEF n
  <2> QED BY <2>1, <1>7, UpTo
<1> QED BY <1>8 DEF Good

\* The height that build_bptree writes into the header of the database, kept
\* as the greatest of the heights the recursive calls return, is the number of
\* nodes on the longest way from the root to a leaf.
THEOREM HeightsAreDepth == Spec => []HeightIsDepth
<1>1. IndexInv /\ HeightInv => HeightIsDepth
  <2> SUFFICES ASSUME IndexInv, HeightInv, phase = "built" PROVE height = Depth[root]
    BY DEF HeightIsDepth
  <2> PICK lo \in Spans, hi \in Spans, st \in Spans : BuildInv(lo, hi, st)
    BY DEF IndexInv
  <2> PICK ht \in Spans : Heights(nodes, stack, ht) /\ height = ht[root]
    BY DEF HeightInv
  <2>1. root \in 1 .. Len(nodes)  BY BuiltFacts
  <2> QED BY <2>1, DepthIs
<1> QED BY <1>1, HeightInvariance, PTL

-----------------------------------------------------------------------------
(* Prefix matches.                                                          *)

\* No node ends inside a leaf.
LEMMA EndsApart ==
  ASSUME NEW lo \in Spans, NEW hi \in Spans, NEW st \in Spans, BuildInv(lo, hi, st), ChainInv,
         NEW p, IsLeafOf(nodes, p), NEW c \in 1 .. Len(nodes)
  PROVE  hi[c] <= lo[p] \/ hi[p] <= hi[c]
<1> DEFINE n == Len(nodes)
<1> PICK en \in Spans : Chain(nodes, taken, en)  BY DEF ChainInv
<1>1. keys \in KeyLists /\ Len(keys) \in Nat /\ n \in Nat /\ taken \in Nat  BY Building
<1>2. ASSUME NEW q, IsLeafOf(nodes, q) PROVE lo[q] = en[q - 1] /\ hi[q] = en[q]
  <2> DEFINE es == nodes[q].keys
             a  == en[q - 1]
             b  == lo[q]
  <2>1. q \in 1 .. n /\ nodes[q].kind = "leaf"  BY <1>2 DEF IsLeafOf
  <2>2. /\ Len(es) \in Nat /\ Len(es) > 0 /\ hi[q] = b + Len(es)
        /\ \A i \in 1 .. Len(es) : b + i \in 1 .. Len(keys) /\ es[i] = keys[b + i]
    BY <1>2, LeafEntries
  <2>3. en[q] = a + Len(es) /\ \A i \in 1 .. Len(es) : es[i] = keys[a + i]
    BY <2>1 DEF Chain
  <2>4. en[q] <= taken /\ taken <= Len(keys)
    <3>1. q \in 0 .. n /\ n \in 0 .. n /\ q <= n  BY <1>1, <2>1
    <3> QED BY <3>1 DEF Chain
  <2>5. a \in Nat /\ b \in Nat
    <3>1. q \in Nat /\ q - 1 \in Nat  BY <2>1
    <3> QED BY <3>1 DEF Spans
  <2>6. 1 \in 1 .. Len(es)  BY <2>2
  <2>7. keys[a + 1] = keys[b + 1] /\ b + 1 \in 1 .. Len(keys)  BY <2>2, <2>3, <2>6
  <2> HIDE DEF es, a, b
  <2>8. a + 1 \in 1 .. Len(keys)  BY <1>1, <2>2, <2>3, <2>4, <2>5
  <2>9. a = b
    <3>1. CASE a < b
      <4>1. a + 1 < b + 1  BY <3>1, <2>5
      <4>2. keys[a + 1] < keys[b + 1]  BY <4>1, <1>1, <2>7, <2>8, KeysFacts
      <4>3. keys[a + 1] \in Int  BY <1>1, <2>8, KeysFacts
      <4> QED BY <4>2, <4>3, <2>7
    <3>2. CASE b < a
      <4>1. b + 1 < a + 1  BY <3>2, <2>5
      <4>2. keys[b + 1] < keys[a + 1]  BY <4>1, <1>1, <2>7, <2>8, KeysFacts
      <4>3. keys[a + 1] \in Int  BY <1>1, <2>8, KeysFacts
      <4> QED BY <4>2, <4>3, <2>7
    <3> QED BY <3>1, <3>2, <2>5
  <2> QED BY <2>2, <2>3, <2>9 DEF a, b
<1> DEFINE Good == {x \in 1 .. n : \E l \in 1 .. n : hi[x] = en[l]}
<1>3. ASSUME NEW x \in 1 .. n, \A y \in 1 .. x - 1 : y \in Good PROVE x \in Good
  <2>1. CASE nodes[x].kind = "leaf"
    <3>1. hi[x] = en[x]  BY <2>1, <1>2 DEF IsLeafOf
    <3> QED BY <3>1
  <2>2. CASE nodes[x].kind = "inner"
    <3> DEFINE y == nodes[x].children[M + 1]
    <3>1. M + 1 \in 1 .. M + 1  BY IndexAssumption DEF M
    <3>2. y \in 1 .. x - 1 /\ hi[y] = hi[x]  BY <2>2, <3>1, InnerFacts
    <3> QED BY <3>2, <1>3
  <2> QED BY <2>1, <2>2, NodeFacts
<1> HIDE DEF Good
<1>4. c \in Good
  <2>1. n \in Nat /\ 1 \in {0, 1} /\ c \in 1 .. n  BY <1>1
  <2> HIDE DEF n
  <2> QED BY <2>1, <1>3, UpTo
<1>5. PICK l \in 1 .. n : hi[c] = en[l]  BY <1>4 DEF Good
<1>6. lo[p] = en[p - 1] /\ hi[p] = en[p] /\ p \in 1 .. n  BY <1>2 DEF IsLeafOf
<1>7. p \in 0 .. n /\ l \in 0 .. n /\ p - 1 \in 0 .. n  BY <1>1, <1>6
<1>8. CASE p <= l  BY <1>5, <1>6, <1>7, <1>8 DEF Chain
<1>9. CASE ~(p <= l)
  <2>1. l <= p - 1  BY <1>7, <1>9
  <2> QED BY <2>1, <1>5, <1>6, <1>7 DEF Chain
<1> QED BY <1>8, <1>9

\* A separator is the last key below a child that is not the last one.
LEMMA SeparatorIs ==
  ASSUME NEW lo \in Spans, NEW hi \in Spans, NEW st \in Spans, BuildInv(lo, hi, st),
         NEW w \in Separators
  PROVE  \E c \in 1 .. Len(nodes) :
           /\ hi[c] \in 1 .. Len(keys) /\ hi[c] < Len(keys) /\ w = keys[hi[c]]
<1>1. PICK p \in 1 .. Len(nodes) : ~IsLeaf(p) /\ w \in ToSet(nodes[p].keys)
  BY DEF Separators
<1>2. nodes[p].kind = "inner"  BY <1>1, NodeFacts DEF IsLeaf
<1> DEFINE cs   == nodes[p].children
           seps == nodes[p].keys
<1>3. /\ Len(seps) = M
      /\ \A i \in 1 .. M + 1 : cs[i] \in 1 .. Len(nodes)
      /\ \A i \in 1 .. M : hi[cs[i]] = lo[cs[i + 1]]
      /\ \A i \in 1 .. M : seps[i] = keys[hi[cs[i]]]
      /\ \A i \in 1 .. M + 1 :
           /\ lo[cs[i]] \in Nat /\ hi[cs[i]] \in 1 .. Len(keys) /\ lo[cs[i]] < hi[cs[i]]
  BY <1>2, InnerFacts
<1>4. PICK i \in 1 .. M : w = seps[i]
  <2>1. seps \in Seq(Words)  BY NodeFacts
  <2> QED BY <2>1, <1>1, <1>3 DEF ToSet
<1> HIDE DEF cs, seps
<1>5. M \in Nat \ {0}  BY IndexAssumption DEF M
<1>6. i \in 1 .. M + 1 /\ i + 1 \in 1 .. M + 1  BY <1>5
<1>7. hi[cs[i]] < Len(keys)
  <2> DEFINE x == hi[cs[i]]
             y == hi[cs[i + 1]]
  <2>1. x < y /\ x \in 1 .. Len(keys) /\ y \in 1 .. Len(keys)  BY <1>3, <1>6
  <2> HIDE DEF x, y
  <2>2. Len(keys) \in Nat  BY Building
  <2>3. x < Len(keys)  BY <2>1, <2>2
  <2> QED BY <2>3 DEF x
<1> QED BY <1>3, <1>4, <1>6, <1>7

\* A match for w should return the keys behind f, up to u.
Hits(w, f, u) ==
  /\ f \in Nat /\ u \in Nat /\ f <= u /\ u <= Len(keys)
  /\ \A i \in 1 .. Len(keys) :
       /\ i <= f <=> keys[i] < w \/ (keys[i] = w /\ w \in Separators)
       /\ i <= u <=> keys[i] <= PrefixEnd[w]

\* Entries picked from the keys behind f, up to e, in their order.
Picked(out, f, e) ==
  \A i \in 1 .. Len(out) :
    /\ \E j \in f + 1 .. e : out[i] = keys[j]
    /\ i > 1 => out[i - 1] < out[i]

\* None of them is left out.
Exact(out, f) == \A i \in 1 .. Len(out) : out[i] = keys[f + i]

\* The way down has not left the first entry behind.
Near(p, f, lo, hi) == lo[p] <= f /\ (f < hi[p] \/ hi[p] = Len(keys))

\* The scan stands behind e keys and has those of them that it should have.
Scanned(c, f, u, lo, hi) ==
  LET e == lo[c.node] + c.at - 1 IN
  /\ c.at <= Len(nodes[c.node].keys) + 1
  /\ c.next = 0 => hi[c.node] = Len(keys)
  /\ c.next # 0 => lo[c.next] = hi[c.node]
  /\ f <= e /\ e <= u
  /\ c.limit = 0 \/ Len(c.out) < c.limit
  /\ Picked(c.out, f, e)
  /\ ~c.fault => Len(c.out) = e - f /\ Exact(c.out, f)

\* What was found when the scan has gone behind e keys, the last one counted.
Behind(out, fault, limit, f, u, e) ==
  /\ f <= e /\ e <= u
  /\ limit = 0 \/ Len(out) <= limit
  /\ Picked(out, f, e)
  /\ ~fault => Len(out) = e - f /\ Exact(out, f)

MatchCall(c, lo, hi) ==
  c.op = "prefix" =>
    \A f, u \in Nat : Hits(c.arg, f, u) =>
      /\ c.at = 0 => c.out = <<>> /\ ~c.fault /\ Near(c.node, f, lo, hi)
      /\ c.at # 0 => Scanned(c, f, u, lo, hi)

\* What a match has to return of the keys behind f, up to u.
Full(out, fault, limit, f, u) ==
  /\ limit > 0 => Len(out) <= limit
  /\ Picked(out, f, u)
  /\ ~fault => /\ Exact(out, f)
               /\ Len(out) = u - f \/ (limit > 0 /\ Len(out) = limit /\ limit <= u - f)

Fits(r, f, u) ==
  (r.status = "OK" <=> r.out # <<>>) /\ Full(r.out, r.fault, r.limit, f, u)

MatchAnswer(r) ==
  r.op = "prefix" => \A f, u \in Nat : Hits(r.arg, f, u) => Fits(r, f, u)

MatchInv ==
  /\ ChainInv
  /\ \E lo, hi, st \in Spans :
       /\ BuildInv(lo, hi, st) /\ ReadInv(lo, hi)
       /\ MatchCall(call, lo, hi) /\ MatchAnswer(ret)

\* One turn of the way down.
LEMMA NearKept ==
  ASSUME NEW lo \in Spans, NEW hi \in Spans, NEW st \in Spans, BuildInv(lo, hi, st),
         NEW p \in 1 .. Len(nodes), nodes[p].kind = "inner", NEW w \in Words,
         NEW f, NEW u, Hits(w, f, u), Near(p, f, lo, hi)
  PROVE  Near(FindChild(nodes[p], w), f, lo, hi)
<1> DEFINE cs   == nodes[p].children
           seps == nodes[p].keys
           S    == Passed(nodes[p], w)
           c    == Cardinality(S)
<1>1. /\ Len(cs) = M + 1 /\ Len(seps) = M
      /\ lo[cs[1]] = lo[p] /\ hi[cs[M + 1]] = hi[p]
      /\ \A i \in 1 .. M : hi[cs[i]] = lo[cs[i + 1]]
      /\ \A i, j \in 1 .. M + 1 : i < j => hi[cs[i]] <= lo[cs[j]]
      /\ \A i \in 1 .. M : seps[i] = keys[hi[cs[i]]]
      /\ \A i \in 1 .. M + 1 :
           /\ lo[cs[i]] \in Nat /\ hi[cs[i]] \in 1 .. Len(keys) /\ lo[cs[i]] < hi[cs[i]]
  BY InnerFacts
<1>2. keys \in KeyLists /\ Len(keys) \in Nat  BY Building
<1>3. M \in Nat \ {0}  BY IndexAssumption DEF M
<1>4. w \in Int /\ \A i \in 1 .. Len(keys) : keys[i] \in Int
  <2>1. Words \subseteq Int  BY IndexAssumption DEF Words
  <2> QED BY <2>1, <1>2, KeysFacts
<1>5. S = {i \in 1 .. M : seps[i] <= w}  BY <1>1 DEF Passed
<1>6. \A i \in 1 .. M : seps[i] \in Separators
  <2>1. p \in {q \in 1 .. Len(nodes) : ~IsLeaf(q)}  BY DEF IsLeaf
  <2>2. ToSet(nodes[p].keys) \subseteq Separators  BY <2>1 DEF Separators
  <2>3. ToSet(nodes[p].keys) = {seps[j] : j \in 1 .. Len(seps)}  BY DEF ToSet
  <2> QED BY <2>2, <2>3, <1>1
<1> HIDE DEF S, cs, seps
<1>7. ASSUME NEW i \in S, NEW j \in 1 .. M, j < i PROVE j \in S
  <2>1. i \in 1 .. M /\ seps[i] <= w  BY <1>5
  <2>2. i \in 1 .. M + 1 /\ j \in 1 .. M + 1  BY <2>1, <1>3
  <2> DEFINE x == hi[cs[j]]
             y == hi[cs[i]]
  <2>3. x < y /\ x \in 1 .. Len(keys) /\ y \in 1 .. Len(keys)
    <3>1. x <= lo[cs[i]] /\ lo[cs[i]] < y /\ lo[cs[i]] \in Nat
          /\ x \in 1 .. Len(keys) /\ y \in 1 .. Len(keys)
      BY <2>2, <1>1, <1>7
    <3> HIDE DEF x, y
    <3> QED BY <3>1
  <2>4. keys[x] < keys[y] /\ keys[x] \in Int /\ keys[y] \in Int
    BY <2>3, <1>2, <1>4, KeysFacts
  <2>5. seps[j] = keys[x] /\ seps[i] = keys[y]  BY <2>1, <1>1
  <2> HIDE DEF x, y
  <2>6. seps[j] <= w  BY <2>1, <2>4, <2>5, <1>4
  <2> QED BY <2>6, <1>5
<1>8. c \in 0 .. M /\ \A i \in 1 .. M : i \in S <=> i <= c
  <2>1. S \subseteq 1 .. M /\ M \in Nat  BY <1>3, <1>5
  <2> QED BY <2>1, <1>7, CountOfInitial
<1>9. FindChild(nodes[p], w) = cs[c + 1]  BY DEF FindChild, S, cs
<1> HIDE DEF c
<1> DEFINE q == cs[c + 1]
<1>10. lo[q] <= f
  <2>1. CASE c = 0  BY <2>1, <1>1 DEF Near
  <2>2. CASE c # 0
    <3> DEFINE h == hi[cs[c]]
    <3>1. c \in 1 .. M /\ c \in 1 .. M + 1 /\ c <= c  BY <2>2, <1>3, <1>8
    <3>2. seps[c] <= w /\ seps[c] \in Separators  BY <3>1, <1>5, <1>6, <1>8
    <3>3. seps[c] = keys[h] /\ lo[q] = h /\ h \in 1 .. Len(keys)  BY <3>1, <1>1
    <3> HIDE DEF h, q
    <3>4. keys[h] < w \/ (keys[h] = w /\ w \in Separators)
      BY <3>2, <3>3, <1>4
    <3> QED BY <3>3, <3>4 DEF Hits
  <2> QED BY <2>1, <2>2
<1>11. f < hi[q] \/ hi[q] = Len(keys)
  <2>1. CASE c = M  BY <2>1, <1>1 DEF Near
  <2>2. CASE c # M
    <3> DEFINE h == hi[q]
    <3>1. c + 1 \in 1 .. M /\ c + 1 \in 1 .. M + 1 /\ ~(c + 1 <= c)
      BY <2>2, <1>3, <1>8
    <3>2. ~(seps[c + 1] <= w)  BY <3>1, <1>5, <1>8
    <3>3. seps[c + 1] = keys[h] /\ h \in 1 .. Len(keys)  BY <3>1, <1>1
    <3> HIDE DEF h, q
    <3>4. ~(keys[h] < w) /\ keys[h] # w  BY <3>2, <3>3, <1>4
    <3>5. ~(h <= f) /\ f \in Nat  BY <3>3, <3>4 DEF Hits
    <3>6. f < h  BY <3>3, <3>5
    <3> QED BY <3>6 DEF h
  <2> QED BY <2>1, <2>2
<1> QED BY <1>9, <1>10, <1>11 DEF Near

\* At the leaf: the search ends at the first entry of the match, or there is none.
LEMMA LeafEntered ==
  ASSUME NEW lo \in Spans, NEW hi \in Spans, NEW st \in Spans, BuildInv(lo, hi, st), ChainInv,
         NEW p, IsLeafOf(nodes, p), NEW w \in Words,
         NEW f, NEW u, Hits(w, f, u), Near(p, f, lo, hi)
  PROVE  LET es  == nodes[p].keys
             lb  == LowerBound(es, w)
             hit == lb <= Len(es) /\ HasPrefix(es[lb], w)
         IN  /\ lb \in 1 .. Len(es) + 1
             /\ hit => lo[p] + lb - 1 = f
             /\ ~hit => u = f
<1> DEFINE es  == nodes[p].keys
           lb  == LowerBound(es, w)
           hit == lb <= Len(es) /\ HasPrefix(es[lb], w)
           a   == lo[p]
           b   == hi[p]
<1>1. /\ es \in Seq(Words) /\ Len(es) \in Nat /\ Len(es) > 0 /\ b = a + Len(es)
      /\ \A i \in 1 .. Len(es) : a + i \in 1 .. Len(keys) /\ es[i] = keys[a + i]
      /\ \A i, j \in 1 .. Len(es) : i < j => es[i] < es[j]
  BY LeafEntries
<1>2. a \in Nat  BY DEF IsLeafOf, Spans
<1>3. keys \in KeyLists /\ Len(keys) \in Nat  BY Building
<1>4. Words \subseteq Int  BY IndexAssumption DEF Words
<1>5. /\ w \in Int /\ PrefixEnd[w] \in Int /\ w <= PrefixEnd[w]
      /\ \A i \in 1 .. Len(keys) : keys[i] \in Int
  <2>1. PrefixEnd[w] \in Words /\ w <= PrefixEnd[w]  BY IndexAssumption
  <2> QED BY <2>1, <1>3, <1>4, KeysFacts
<1>6. f \in Nat /\ u \in Nat /\ f <= u /\ u <= Len(keys)  BY DEF Hits
<1>7. \A i \in 1 .. Len(keys) :
        /\ i <= f <=> keys[i] < w \/ (keys[i] = w /\ w \in Separators)
        /\ i <= u <=> keys[i] <= PrefixEnd[w]
  BY DEF Hits
<1>8. a <= f /\ (f < b \/ b = Len(keys))  BY DEF Near
<1>9. ASSUME NEW c \in 1 .. Len(nodes) PROVE hi[c] <= a \/ b <= hi[c]
  BY EndsApart
<1> HIDE DEF es, a, b
<1>10. lb \in 1 .. Len(es) + 1 /\ \A i \in 1 .. Len(es) : es[i] < w <=> i < lb
  BY <1>1, LowerBoundIs
<1> HIDE DEF lb
<1> DEFINE j == a + lb
<1>11. j \in Nat /\ j - 1 \in Nat /\ j - 1 = a + lb - 1  BY <1>1, <1>2, <1>10
\* The entries before the bound are behind f or before.
<1>12. j - 1 <= f
  <2>1. CASE lb = 1  BY <2>1, <1>2, <1>8, <1>6
  <2>2. CASE lb # 1
    <3> DEFINE k == lb - 1
    <3>1. k \in 1 .. Len(es) /\ k < lb /\ a + k = j - 1  BY <2>2, <1>1, <1>2, <1>10
    <3> HIDE DEF k, j
    <3>2. es[k] < w /\ es[k] = keys[a + k] /\ a + k \in 1 .. Len(keys)
      BY <3>1, <1>1, <1>10
    <3> QED BY <3>1, <3>2, <1>7
  <2> QED BY <2>1, <2>2
<1>13. ASSUME lb <= Len(es)
       PROVE  /\ j \in 1 .. Len(keys) /\ es[lb] = keys[j] /\ w <= keys[j] /\ ~(j <= f)
  <2>1. lb \in 1 .. Len(es)  BY <1>13, <1>1, <1>10
  <2>2. j \in 1 .. Len(keys) /\ es[lb] = keys[j]  BY <2>1, <1>1
  <2>3. ~(lb < lb)  BY <2>1
  <2>4. ~(keys[j] < w)  BY <2>1, <2>2, <2>3, <1>10
  <2>5. w <= keys[j]  BY <2>2, <2>4, <1>5
  <2>6. ~(j <= f)
    <3> SUFFICES ASSUME j <= f PROVE FALSE  OBVIOUS
    <3>1. keys[j] = w /\ w \in Separators  BY <2>2, <2>4, <1>7
    <3>2. PICK c \in 1 .. Len(nodes) :
            hi[c] \in 1 .. Len(keys) /\ hi[c] < Len(keys) /\ w = keys[hi[c]]
      BY <3>1, SeparatorIs
    <3> DEFINE h == hi[c]
    <3>3. h \in 1 .. Len(keys) /\ h < Len(keys) /\ keys[h] = keys[j] /\ (h <= a \/ b <= h)
      BY <3>1, <3>2, <1>9
    <3> HIDE DEF h
    <3>4. h = j
      <4>1. ~(h < j)
        <5> SUFFICES ASSUME h < j PROVE FALSE  OBVIOUS
        <5>1. keys[h] < keys[j]  BY <2>2, <3>3, <1>3, KeysFacts
        <5>2. keys[j] \in Int  BY <2>2, <1>5
        <5> QED BY <5>1, <5>2, <3>3
      <4>2. ~(j < h)
        <5> SUFFICES ASSUME j < h PROVE FALSE  OBVIOUS
        <5>1. keys[j] < keys[h]  BY <2>2, <3>3, <1>3, KeysFacts
        <5>2. keys[j] \in Int  BY <2>2, <1>5
        <5> QED BY <5>1, <5>2, <3>3
      <4>3. h \in Int /\ j \in Int  BY <3>3, <1>11
      <4> HIDE DEF j
      <4> QED BY <4>1, <4>2, <4>3
    <3>5. a < j /\ j <= b  BY <2>1, <1>1, <1>2
    <3>6. j = b
      <4>1. b <= j  BY <3>3, <3>4, <3>5, <1>2, <1>11
      <4>2. b \in Nat  BY <1>1, <1>2
      <4> HIDE DEF j
      <4> QED BY <3>5, <4>1, <4>2, <1>11
    <3> HIDE DEF j
    <3> QED BY <3>3, <3>4, <3>6, <1>6, <1>8, <1>11
  <2> QED BY <2>2, <2>5, <2>6
<1>14. ASSUME hit PROVE a + lb - 1 = f
  <2>1. ~(j <= f) /\ j - 1 <= f  BY <1>12, <1>13, <1>14
  <2> HIDE DEF j
  <2>2. j - 1 = f  BY <2>1, <1>6, <1>11
  <2> QED BY <2>2, <1>11
<1>15. ASSUME ~hit PROVE u = f
  <2>1. CASE lb <= Len(es)
    <3>1. j \in 1 .. Len(keys) /\ es[lb] = keys[j] /\ w <= keys[j]  BY <2>1, <1>13
    <3>2. ~(keys[j] <= PrefixEnd[w])  BY <2>1, <3>1, <1>15 DEF HasPrefix
    <3>3. ~(j <= u)  BY <3>1, <3>2, <1>7
    <3> HIDE DEF j
    <3> QED BY <3>3, <1>6, <1>11, <1>12
  <2>2. CASE ~(lb <= Len(es))
    <3>1. lb = Len(es) + 1  BY <2>2, <1>1, <1>10
    <3>2. j - 1 = b  BY <3>1, <1>1, <1>2
    <3>3. b <= f /\ b \in Nat  BY <3>2, <1>1, <1>2, <1>12
    <3>4. b = Len(keys)  BY <3>3, <1>6, <1>8
    <3> QED BY <3>3, <3>4, <1>6
  <2> QED BY <2>1, <2>2
<1> QED BY <1>10, <1>14, <1>15 DEF es, lb, a

\* The scan takes an entry exactly if it belongs to the match.
LEMMA EntryBelongs ==
  ASSUME NEW lo \in Spans, NEW hi \in Spans, NEW st \in Spans, BuildInv(lo, hi, st),
         NEW w \in Words, NEW f, NEW u, Hits(w, f, u),
         NEW e \in Nat, f <= e, e + 1 <= Len(keys)
  PROVE  HasPrefix(keys[e + 1], w) <=> e + 1 <= u
<1>1. keys \in KeyLists /\ Len(keys) \in Nat  BY Building
<1>2. e + 1 \in 1 .. Len(keys) /\ f \in Nat  BY <1>1 DEF Hits
<1>3. Words \subseteq Int  BY IndexAssumption DEF Words
<1>4. w \in Int /\ keys[e + 1] \in Int  BY <1>1, <1>2, <1>3, KeysFacts
<1>5. ~(e + 1 <= f)  BY <1>2
<1>6. ~(keys[e + 1] < w)  BY <1>2, <1>5 DEF Hits
<1>7. e + 1 <= u <=> keys[e + 1] <= PrefixEnd[w]  BY <1>2 DEF Hits
<1> QED BY <1>4, <1>6, <1>7 DEF HasPrefix

\* One more entry.
LEMMA PickedMore ==
  ASSUME keys \in KeyLists, NEW out \in Seq(Words), NEW f \in Nat, NEW e \in Nat, f <= e,
         e + 1 <= Len(keys), Picked(out, f, e)
  PROVE  /\ Picked(out, f, e + 1)
         /\ Picked(Append(out, keys[e + 1]), f, e + 1)
         /\ Len(out) = e - f /\ Exact(out, f) => Exact(Append(out, keys[e + 1]), f)
<1> DEFINE n == Len(out)
           w == keys[e + 1]
           o == Append(out, w)
<1>1. Len(keys) \in Nat /\ n \in Nat  BY KeysFacts
<1>2. e + 1 \in 1 .. Len(keys) /\ e + 1 \in f + 1 .. e + 1  BY <1>1
<1>3. w \in Words  BY <1>2, KeysFacts
<1>4. Len(o) = n + 1 /\ o[n + 1] = w /\ \A i \in 1 .. n : o[i] = out[i]
  <2> HIDE DEF w
  <2> QED BY <1>3
<1> HIDE DEF o
<1>5. \A j \in f + 1 .. e : j \in f + 1 .. e + 1 /\ j \in 1 .. Len(keys) /\ j < e + 1
  BY <1>1
<1>6. Picked(out, f, e + 1)  BY <1>5 DEF Picked
<1>7. ASSUME NEW i \in 1 .. Len(o)
      PROVE  /\ \E j \in f + 1 .. e + 1 : o[i] = keys[j]
             /\ i > 1 => o[i - 1] < o[i]
  <2>1. CASE i \in 1 .. n
    <3>1. i > 1 => i - 1 \in 1 .. n  BY <2>1, <1>1
    <3> QED BY <2>1, <3>1, <1>4, <1>6 DEF Picked
  <2>2. CASE i = n + 1
    <3>1. o[i] = keys[e + 1]  BY <2>2, <1>4
    <3>2. ASSUME i > 1 PROVE o[i - 1] < o[i]
      <4>1. n \in 1 .. n /\ i - 1 = n  BY <2>2, <3>2, <1>1
      <4>2. PICK j \in f + 1 .. e : out[n] = keys[j]  BY <4>1 DEF Picked
      <4>3. keys[j] < keys[e + 1]  BY <1>2, <1>5, KeysFacts
      <4> QED BY <3>1, <4>1, <4>2, <4>3, <1>4
    <3> QED BY <3>1, <3>2, <1>2
  <2> QED BY <2>1, <2>2, <1>1, <1>4
<1>8. ASSUME n = e - f, Exact(out, f) PROVE Exact(o, f)
  <2> SUFFICES ASSUME NEW i \in 1 .. n + 1 PROVE o[i] = keys[f + i]
    BY <1>4 DEF Exact
  <2>1. CASE i \in 1 .. n  BY <2>1, <1>4, <1>8 DEF Exact
  <2>2. CASE i = n + 1
    <3>1. f + i = e + 1  BY <2>2, <1>8
    <3> QED BY <2>2, <3>1, <1>4
  <2> QED BY <2>1, <2>2, <1>1
<1> QED BY <1>6, <1>7, <1>8 DEF Picked, o

\* What the match relies on stays while the file does.
LEMMA MatchPrimed ==
  ASSUME NEW lo, NEW hi, UNCHANGED buildVars, MatchCall(call', lo, hi), MatchAnswer(ret')
  PROVE  MatchCall(call, lo, hi)' /\ MatchAnswer(ret)'
<1>1. UNCHANGED <<keys, nodes>>  BY DEF buildVars
<1>2. Separators' = Separators  BY <1>1 DEF Separators, IsLeaf
<1>3. MatchCall(call, lo, hi)'
  BY <1>1, <1>2 DEF MatchCall, Hits, Near, Scanned, Picked, Exact
<1>4. MatchAnswer(ret)'
  BY <1>1, <1>2, ZenonT(60) DEF MatchAnswer, Hits, Fits, Full, Picked, Exact
<1> QED BY <1>3, <1>4

LEMMA PickedUp ==
  ASSUME NEW out, NEW f \in Nat, NEW e \in Nat, NEW u \in Nat, e <= u, Picked(out, f, e)
  PROVE  Picked(out, f, u)
<1>1. \A j \in f + 1 .. e : j \in f + 1 .. u  OBVIOUS
<1> QED BY <1>1 DEF Picked

LEMMA MatchNothing ==
  ASSUME NEW lo, NEW hi
  PROVE  /\ MatchCall(NoCall, lo, hi) /\ MatchAnswer(NoRet)
         /\ \A limit, f, u \in Nat : Full(<<>>, TRUE, limit, f, u)
         /\ \A limit, f \in Nat : Full(<<>>, FALSE, limit, f, f)
<1>1. NoCall.op = "none" /\ NoRet.op = "none"  BY DEF NoCall, NoRet
<1>2. Len(<<>>) = 0  OBVIOUS
<1>3. \A f, u \in Nat : Picked(<<>>, f, u) /\ Exact(<<>>, f)  BY <1>2 DEF Picked, Exact
<1>4. \A limit, f, u \in Nat : Full(<<>>, TRUE, limit, f, u)  BY <1>2, <1>3 DEF Full
<1>5. \A limit, f \in Nat : Full(<<>>, FALSE, limit, f, f)  BY <1>2, <1>3 DEF Full
<1> QED BY <1>1, <1>4, <1>5 DEF MatchCall, MatchAnswer

LEMMA MatchReturned ==
  ASSUME NEW lo, NEW hi, NEW status, NEW out, NEW fault, Return(status, out, fault),
         call.op = "prefix" =>
           /\ status = "OK" <=> out # <<>>
           /\ \A f, u \in Nat : Hits(call.arg, f, u) => Full(out, fault, call.limit, f, u)
  PROVE  MatchCall(call', lo, hi) /\ MatchAnswer(ret')
<1>1. /\ call' = NoCall
      /\ ret' = [op |-> call.op, arg |-> call.arg, limit |-> call.limit,
                 status |-> status, out |-> out, fault |-> fault]
  BY DEF Return
<1>2. /\ ret'.op = call.op /\ ret'.arg = call.arg /\ ret'.limit = call.limit
      /\ ret'.status = status /\ ret'.out = out /\ ret'.fault = fault
  BY <1>1
<1>3. MatchAnswer(ret')  BY <1>2 DEF MatchAnswer, Fits
<1> QED BY <1>1, <1>3, MatchNothing

\* A call that fails returns no entries.
LEMMA MatchFailed ==
  ASSUME NEW lo, NEW hi, NEW status, status # "OK", call \in Calls,
         Return(status, <<>>, TRUE)
  PROVE  MatchCall(call', lo, hi) /\ MatchAnswer(ret')
<1>1. call.limit \in Nat  BY DEF Calls
<1>2. \A f, u \in Nat : Full(<<>>, TRUE, call.limit, f, u)  BY <1>1, MatchNothing
<1> QED BY <1>2, MatchReturned

LEMMA MatchStarts ==
  ASSUME NEW lo \in Spans, NEW hi \in Spans, NEW st \in Spans, BuildInv(lo, hi, st),
         ReadInv(lo, hi), NEW op \in {"lookup", "prefix"}, NEW w \in Words, NEW limit \in Nat,
         Start(op, w, limit)
  PROVE  MatchCall(call', lo, hi) /\ MatchAnswer(ret')
<1>1. /\ db
      /\ \/ /\ call' = [NoCall EXCEPT !.op = op, !.arg = w, !.limit = limit, !.node = root]
            /\ ret' = NoRet
         \/ /\ call' = NoCall
            /\ ret' = [op |-> op, arg |-> w, limit |-> limit,
                       status |-> "ERR_MEMORY", out |-> <<>>, fault |-> TRUE]
  BY DEF Start
<1>2. db = TRUE /\ phase = "built"  BY <1>1, Reading
<1>3. lo[root] = 0 /\ hi[root] = Len(keys)  BY <1>2, BuiltFacts
<1>4. CASE /\ call' = [NoCall EXCEPT !.op = op, !.arg = w, !.limit = limit, !.node = root]
           /\ ret' = NoRet
  <2>1. call' = [op |-> op, arg |-> w, limit |-> limit, node |-> root, next |-> 0,
                at |-> 0, out |-> <<>>, cap |-> 0, fault |-> FALSE]
    BY <1>4 DEF NoCall
  <2>2. call'.at = 0 /\ call'.out = <<>> /\ call'.fault = FALSE /\ call'.node = root
    BY <2>1
  <2>3. \A f \in Nat : Near(root, f, lo, hi)  BY <1>3 DEF Near
  <2>4. MatchCall(call', lo, hi)  BY <2>2, <2>3 DEF MatchCall
  <2> QED BY <2>4, <1>4, MatchNothing
<1>5. CASE /\ call' = NoCall
           /\ ret' = [op |-> op, arg |-> w, limit |-> limit,
                      status |-> "ERR_MEMORY", out |-> <<>>, fault |-> TRUE]
  <2>1. /\ ret'.status = "ERR_MEMORY" /\ ret'.out = <<>> /\ ret'.fault = TRUE
        /\ ret'.limit = limit
    BY <1>5
  <2>2. \A f, u \in Nat : Full(<<>>, TRUE, limit, f, u)  BY MatchNothing
  <2>3. MatchAnswer(ret')  BY <2>1, <2>2 DEF MatchAnswer, Fits
  <2> QED BY <2>3, <1>5, MatchNothing
<1> QED BY <1>1, <1>4, <1>5

LEMMA MatchDescends ==
  ASSUME NEW lo \in Spans, NEW hi \in Spans, NEW st \in Spans, BuildInv(lo, hi, st),
         ReadInv(lo, hi), MatchCall(call, lo, hi), MatchAnswer(ret), Descend
  PROVE  MatchCall(call', lo, hi) /\ MatchAnswer(ret')
<1> DEFINE child == FindChild(nodes[call.node], call.arg)
<1>1. /\ call.op # "none" /\ call.at = 0 /\ nodes[call.node].kind = "inner"
      /\ \/ call' = [call EXCEPT !.node = child] /\ UNCHANGED ret
         \/ Return("ERR_FORMAT", <<>>, TRUE)
  BY DEF Descend
<1>2. call \in Calls /\ CallSound(call, lo, hi)  BY Reading
<1>3. call.node \in 1 .. Len(nodes) /\ call.arg \in Words
  BY <1>1, <1>2 DEF CallSound, Calls
<1>4. CASE call' = [call EXCEPT !.node = child] /\ UNCHANGED ret
  <2>1. \A f, u \in Nat : Hits(call.arg, f, u) /\ Near(call.node, f, lo, hi)
          => Near(child, f, lo, hi)
    BY <1>1, <1>3, NearKept
  <2> HIDE DEF child
  <2>2. /\ call'.op = call.op /\ call'.arg = call.arg /\ call'.node = child
        /\ call'.at = 0 /\ call'.out = call.out /\ call'.fault = call.fault
    BY <1>1, <1>2, <1>4 DEF Calls
  <2>3. MatchCall(call', lo, hi)  BY <1>1, <2>1, <2>2 DEF MatchCall
  <2> QED BY <1>4, <2>3
<1>5. CASE Return("ERR_FORMAT", <<>>, TRUE)
  <2>1. "ERR_FORMAT" # "OK"  OBVIOUS
  <2> QED BY <2>1, <1>2, <1>5, MatchFailed
<1> QED BY <1>1, <1>4, <1>5

LEMMA MatchEnters ==
  ASSUME NEW lo \in Spans, NEW hi \in Spans, NEW st \in Spans, BuildInv(lo, hi, st), ChainInv,
         ReadInv(lo, hi), MatchCall(call, lo, hi), MatchAnswer(ret), EnterLeaf
  PROVE  MatchCall(call', lo, hi) /\ MatchAnswer(ret')
<1> DEFINE es  == nodes[call.node].keys
           lb  == LowerBound(es, call.arg)
           hit == lb <= Len(es) /\ HasPrefix(es[lb], call.arg)
           cap == FirstCapFor(call.limit)
           nxt == NextOf(call.node)
           new == [call EXCEPT !.next = nxt, !.at = lb, !.cap = cap]
<1>1. /\ call.op = "prefix" /\ call.at = 0 /\ nodes[call.node].kind = "leaf"
      /\ \/ hit /\ call' = new /\ UNCHANGED ret
         \/ ~hit /\ Return("NOT_FOUND", <<>>, FALSE)
         \/ Return("NOT_FOUND", <<>>, TRUE)
         \/ Return("ERR_MEMORY", <<>>, TRUE)
         \/ Return("ERR_IO", <<>>, TRUE)
  BY DEF EnterLeaf
<1>2. call \in Calls /\ CallSound(call, lo, hi) /\ phase = "built"  BY <1>1, Reading
<1>3. IsLeafOf(nodes, call.node) /\ call.arg \in Words /\ call.limit \in Nat
  BY <1>1, <1>2 DEF CallSound, Calls, IsLeafOf
<1>4. \A f, u \in Nat : Hits(call.arg, f, u) =>
        call.out = <<>> /\ ~call.fault /\ Near(call.node, f, lo, hi)
  BY <1>1 DEF MatchCall
<1>5. /\ lb \in 1 .. Len(es) + 1
      /\ \A f, u \in Nat : Hits(call.arg, f, u) =>
           /\ hit => lo[call.node] + lb - 1 = f
           /\ ~hit => u = f
  <2>1. \A f, u \in Nat : Hits(call.arg, f, u) =>
          /\ hit => lo[call.node] + lb - 1 = f
          /\ ~hit => u = f
    BY <1>3, <1>4, LeafEntered
  <2>2. /\ es \in Seq(Words) /\ \A i, j \in 1 .. Len(es) : i < j => es[i] < es[j]
    BY <1>3, LeafEntries
  <2> HIDE DEF es
  <2>3. lb \in 1 .. Len(es) + 1  BY <2>2, <1>3, LowerBoundIs
  <2> QED BY <2>1, <2>3
<1>6. CASE hit /\ call' = new /\ UNCHANGED ret
  <2>1. /\ nxt = 0 => hi[call.node] = Len(keys)
        /\ nxt # 0 => lo[nxt] = hi[call.node]
    <3>1. CASE call.node = root  BY <3>1, <1>2, BuiltFacts DEF NextOf
    <3>2. CASE call.node # root  BY <3>2, <1>2, <1>3, LinkLeads DEF NextOf
    <3> QED BY <3>1, <3>2
  <2> HIDE DEF lb, hit, cap, nxt
  <2>2. call' = [op |-> call.op, arg |-> call.arg, limit |-> call.limit,
                 node |-> call.node, next |-> nxt, at |-> lb, out |-> call.out,
                 cap |-> cap, fault |-> call.fault]
    BY <1>2, <1>6 DEF Calls
  <2>3. /\ call'.op = "prefix" /\ call'.arg = call.arg /\ call'.limit = call.limit
        /\ call'.node = call.node /\ call'.next = nxt /\ call'.at = lb
        /\ call'.out = call.out /\ call'.fault = call.fault
    BY <1>1, <2>2
  <2>4. ASSUME NEW f \in Nat, NEW u \in Nat, Hits(call.arg, f, u)
        PROVE  Scanned(call', f, u, lo, hi)
    <3>1. call.out = <<>> /\ ~call.fault /\ lo[call.node] + lb - 1 = f
      BY <1>4, <1>5, <1>6, <2>4
    <3>2. Len(<<>>) = 0  OBVIOUS
    <3>3. Picked(<<>>, f, f) /\ Exact(<<>>, f)  BY <3>2 DEF Picked, Exact
    <3>4. f <= f /\ f <= u /\ f - f = 0  BY <2>4 DEF Hits
    <3>5. lb <= Len(es) + 1  BY <1>5
    <3>6. call.limit = 0 \/ 0 < call.limit  BY <1>3
    <3> QED BY <2>1, <2>3, <3>1, <3>2, <3>3, <3>4, <3>5, <3>6 DEF Scanned
  <2>5. lb # 0  BY <1>5
  <2>6. MatchCall(call', lo, hi)  BY <2>3, <2>4, <2>5 DEF MatchCall
  <2> QED BY <1>6, <2>6
<1>7. CASE ~hit /\ Return("NOT_FOUND", <<>>, FALSE)
  <2>1. \A f, u \in Nat : Hits(call.arg, f, u) => Full(<<>>, FALSE, call.limit, f, u)
    <3> SUFFICES ASSUME NEW f \in Nat, NEW u \in Nat, Hits(call.arg, f, u)
                 PROVE  Full(<<>>, FALSE, call.limit, f, u)
      OBVIOUS
    <3>1. u = f  BY <1>5, <1>7
    <3> QED BY <3>1, <1>3, MatchNothing
  <2> QED BY <2>1, <1>7, MatchReturned
<1>8. ASSUME NEW status \in {"NOT_FOUND", "ERR_MEMORY", "ERR_IO"},
             Return(status, <<>>, TRUE)
      PROVE  MatchCall(call', lo, hi) /\ MatchAnswer(ret')
  BY <1>2, <1>8, MatchFailed
<1> HIDE DEF new, hit
<1> QED BY <1>1, <1>6, <1>7, <1>8

\* What is found so far is delivered.
LEMMA MatchDelivered ==
  ASSUME NEW lo, NEW hi, NEW out, NEW fault, Deliver(out, fault),
         \A f, u \in Nat : Hits(call.arg, f, u) => Full(out, fault, call.limit, f, u)
  PROVE  MatchCall(call', lo, hi) /\ MatchAnswer(ret')
<1> DEFINE status == IF out = <<>> THEN "NOT_FOUND" ELSE "OK"
<1>1. Return(status, out, fault)  BY DEF Deliver
<1>2. status = "OK" <=> out # <<>>  OBVIOUS
<1> HIDE DEF status
<1> QED BY <1>1, <1>2, MatchReturned

\* The scan has gone behind one more entry.
LEMMA MatchAdvances ==
  ASSUME NEW lo \in Spans, NEW hi \in Spans, NEW st \in Spans, BuildInv(lo, hi, st),
         ReadInv(lo, hi), MatchCall(call, lo, hi), MatchAnswer(ret),
         Scanning, call.at <= Len(nodes[call.node].keys),
         NEW out \in Seq(Words), NEW cap, NEW fault, Advance(out, cap, fault),
         NEW e \in Nat, e = lo[call.node] + call.at,
         \A f, u \in Nat : Hits(call.arg, f, u) => Behind(out, fault, call.limit, f, u, e)
  PROVE  MatchCall(call', lo, hi) /\ MatchAnswer(ret')
<1>1. call.op = "prefix" /\ call.at # 0  BY DEF Scanning
<1>2. call \in Calls /\ CallSound(call, lo, hi)  BY Reading
<1>3. /\ IsLeafOf(nodes, call.node) /\ call.limit \in Nat /\ call.at \in Nat
      /\ call.node \in Nat
  BY <1>1, <1>2 DEF CallSound, Calls
<1>4. Len(out) \in Nat /\ Len(nodes[call.node].keys) \in Nat  BY <1>3, LeafEntries
<1>5. lo[call.node] + (call.at + 1) - 1 = e
  <2>1. lo[call.node] \in Nat  BY <1>3 DEF Spans
  <2> QED BY <2>1, <1>3
<1>6. CASE LimitReached(out)
  <2>1. Len(out) = call.limit \/ call.limit < Len(out)
    BY <1>3, <1>4, <1>6 DEF LimitReached
  <2>2. call.limit > 0  BY <1>6 DEF LimitReached
  <2>3. ASSUME NEW f \in Nat, NEW u \in Nat, Hits(call.arg, f, u)
        PROVE  Full(out, fault, call.limit, f, u)
    <3>1. Behind(out, fault, call.limit, f, u, e)  BY <2>3
    <3>2. f <= e /\ e <= u /\ Picked(out, f, e)  BY <3>1 DEF Behind
    <3>3. Len(out) = call.limit  BY <2>1, <2>2, <3>1, <1>3, <1>4 DEF Behind
    <3>4. Picked(out, f, u)  BY <3>2, PickedUp
    <3>5. ~fault => Len(out) = e - f /\ Exact(out, f)  BY <3>1 DEF Behind
    <3>6. ~fault => call.limit <= u - f  BY <3>2, <3>3, <3>5
    <3> QED BY <2>2, <3>3, <3>4, <3>5, <3>6, <1>3 DEF Full
  <2>4. Deliver(out, fault)  BY <1>6 DEF Advance
  <2> QED BY <2>3, <2>4, MatchDelivered
<1>7. CASE ~LimitReached(out)
  <2>1. /\ call' = [call EXCEPT !.at = @ + 1, !.out = out, !.cap = cap, !.fault = fault]
        /\ UNCHANGED ret
    BY <1>7 DEF Advance
  <2>2. call' = [op |-> call.op, arg |-> call.arg, limit |-> call.limit, node |-> call.node,
                 next |-> call.next, at |-> call.at + 1, out |-> out, cap |-> cap,
                 fault |-> fault]
    BY <1>2, <2>1 DEF Calls
  <2>3. /\ call'.op = "prefix" /\ call'.arg = call.arg /\ call'.limit = call.limit
        /\ call'.node = call.node /\ call'.next = call.next /\ call'.at = call.at + 1
        /\ call'.out = out /\ call'.fault = fault
    BY <1>1, <2>2
  <2>4. call.limit = 0 \/ Len(out) < call.limit  BY <1>3, <1>4, <1>7 DEF LimitReached
  <2>5. call.at + 1 <= Len(nodes[call.node].keys) + 1 /\ call.at + 1 # 0
    BY <1>3, <1>4
  <2>6. ASSUME NEW f \in Nat, NEW u \in Nat, Hits(call.arg, f, u)
        PROVE  Scanned(call', f, u, lo, hi)
    <3>1. /\ f <= e /\ e <= u /\ Picked(out, f, e)
          /\ ~fault => Len(out) = e - f /\ Exact(out, f)
      BY <2>6 DEF Behind
    <3>2. /\ call.next = 0 => hi[call.node] = Len(keys)
          /\ call.next # 0 => lo[call.next] = hi[call.node]
      BY <1>1, <2>6 DEF MatchCall, Scanned
    <3>3. lo[call'.node] + call'.at - 1 = e  BY <1>5, <2>3
    <3>4. call'.at <= Len(nodes[call'.node].keys) + 1  BY <2>3, <2>5
    <3> QED BY <2>3, <2>4, <3>1, <3>2, <3>3, <3>4 DEF Scanned
  <2>7. MatchCall(call', lo, hi)  BY <2>3, <2>5, <2>6 DEF MatchCall
  <2> QED BY <2>1, <2>7
<1> QED BY <1>6, <1>7

LEMMA BehindMore ==
  ASSUME keys \in KeyLists, NEW out \in Seq(Words), NEW limit \in Nat, NEW fault,
         NEW f \in Nat, NEW u \in Nat, NEW e \in Nat, f <= e, e + 1 <= u,
         e + 1 <= Len(keys), limit = 0 \/ Len(out) < limit, Picked(out, f, e)
  PROVE  /\ (~fault => Len(out) = e - f /\ Exact(out, f)) =>
              Behind(Append(out, keys[e + 1]), fault, limit, f, u, e + 1)
         /\ Behind(out, TRUE, limit, f, u, e + 1)
<1> DEFINE o == Append(out, keys[e + 1])
<1>1. Len(out) \in Nat /\ Len(o) = Len(out) + 1  OBVIOUS
<1>2. Picked(out, f, e + 1) /\ Picked(o, f, e + 1)  BY PickedMore
<1>3. Len(out) = e - f /\ Exact(out, f) => Exact(o, f)  BY PickedMore
<1> HIDE DEF o
<1>4. f <= e + 1 /\ (limit = 0 \/ Len(o) <= limit) /\ (limit = 0 \/ Len(out) <= limit)
  BY <1>1
<1>5. Len(out) = e - f => Len(o) = e + 1 - f  BY <1>1
<1>6. Behind(out, TRUE, limit, f, u, e + 1)  BY <1>2, <1>4 DEF Behind
<1>7. ASSUME ~fault => Len(out) = e - f /\ Exact(out, f)
      PROVE  Behind(o, fault, limit, f, u, e + 1)
  <2>1. ~fault => Len(o) = e + 1 - f /\ Exact(o, f)  BY <1>3, <1>5, <1>7
  <2> QED BY <1>2, <1>4, <2>1 DEF Behind
<1> QED BY <1>6, <1>7 DEF o

LEMMA MatchScansEntry ==
  ASSUME NEW lo \in Spans, NEW hi \in Spans, NEW st \in Spans, BuildInv(lo, hi, st),
         ReadInv(lo, hi), MatchCall(call, lo, hi), MatchAnswer(ret), ScanEntry
  PROVE  MatchCall(call', lo, hi) /\ MatchAnswer(ret')
<1> DEFINE es   == nodes[call.node].keys
           w    == es[call.at]
           full == Len(call.out) >= call.cap
           a    == lo[call.node]
           e    == a + call.at - 1
<1>1. /\ Scanning /\ call.op = "prefix" /\ call.at # 0 /\ call.at <= Len(es)
      /\ \/ ~HasPrefix(w, call.arg) /\ Deliver(call.out, call.fault)
         \/ /\ HasPrefix(w, call.arg)
            /\ \/ Advance(Append(call.out, w), IF full THEN 2 * call.cap ELSE call.cap,
                          call.fault)
               \/ Advance(call.out, call.cap, TRUE)
               \/ Return("ERR_FORMAT", <<>>, TRUE)
  BY DEF ScanEntry, Scanning
<1>2. call \in Calls /\ CallSound(call, lo, hi) /\ keys \in KeyLists
  BY Reading, Building
<1>3. /\ IsLeafOf(nodes, call.node) /\ call.limit \in Nat /\ call.at \in Nat
      /\ call.node \in Nat /\ call.arg \in Words /\ call.out \in Seq(Words)
  BY <1>1, <1>2 DEF CallSound, Calls
<1>4. /\ Len(es) \in Nat
      /\ \A i \in 1 .. Len(es) : a + i \in 1 .. Len(keys) /\ es[i] = keys[a + i]
  BY <1>3, LeafEntries
<1>5. a \in Nat  BY <1>3 DEF Spans
<1>6. call.at \in 1 .. Len(es)  BY <1>1, <1>3, <1>4
<1>7. /\ e \in Nat /\ e + 1 \in Nat /\ e + 1 = a + call.at /\ e + 1 <= Len(keys)
      /\ w = keys[e + 1] /\ w \in Words
  <2>1. a + call.at \in 1 .. Len(keys) /\ w = keys[a + call.at]  BY <1>4, <1>6
  <2>2. w \in Words  BY <2>1, <1>2, KeysFacts
  <2>3. e \in Nat /\ e + 1 \in Nat /\ e + 1 = a + call.at  BY <1>5, <1>6
  <2>4. Len(keys) \in Nat  BY <1>2, KeysFacts
  <2> HIDE DEF e, w
  <2> QED BY <2>1, <2>2, <2>3, <2>4
<1>8. ASSUME NEW f \in Nat, NEW u \in Nat, Hits(call.arg, f, u)
      PROVE  /\ f <= e /\ e <= u
             /\ call.limit = 0 \/ Len(call.out) < call.limit
             /\ Picked(call.out, f, e)
             /\ ~call.fault => Len(call.out) = e - f /\ Exact(call.out, f)
             /\ HasPrefix(w, call.arg) <=> e + 1 <= u
  <2>1. Scanned(call, f, u, lo, hi)  BY <1>1, <1>8 DEF MatchCall
  <2>2. f <= e  BY <2>1 DEF Scanned
  <2> HIDE DEF e, w
  <2>3. HasPrefix(w, call.arg) <=> e + 1 <= u
    <3>1. HasPrefix(keys[e + 1], call.arg) <=> e + 1 <= u
      BY <1>3, <1>7, <1>8, <2>2, EntryBelongs
    <3> QED BY <3>1, <1>7
  <2> QED BY <2>1, <2>3 DEF Scanned, e
<1>9. e + 1 = lo[call.node] + call.at  BY <1>7
<1> HIDE DEF e, w, a
<1>10. CASE ~HasPrefix(w, call.arg) /\ Deliver(call.out, call.fault)
  <2> SUFFICES ASSUME NEW f \in Nat, NEW u \in Nat, Hits(call.arg, f, u)
               PROVE  Full(call.out, call.fault, call.limit, f, u)
    BY <1>10, MatchDelivered
  <2>1. e = u  BY <1>7, <1>8, <1>10
  <2>2. Len(call.out) \in Nat  BY <1>3
  <2> QED BY <2>1, <2>2, <1>3, <1>8 DEF Full
<1>11. CASE /\ HasPrefix(w, call.arg)
            /\ Advance(Append(call.out, w), IF full THEN 2 * call.cap ELSE call.cap,
                       call.fault)
  <2> DEFINE out == Append(call.out, w)
             cap == IF full THEN 2 * call.cap ELSE call.cap
  <2>1. out \in Seq(Words) /\ Len(out) = Len(call.out) + 1 /\ Len(call.out) \in Nat
    BY <1>3, <1>7
  <2>2. ASSUME NEW f \in Nat, NEW u \in Nat, Hits(call.arg, f, u)
        PROVE  Behind(out, call.fault, call.limit, f, u, e + 1)
    <3>1. /\ f <= e /\ e + 1 <= u /\ Picked(call.out, f, e)
          /\ call.limit = 0 \/ Len(call.out) < call.limit
          /\ ~call.fault => Len(call.out) = e - f /\ Exact(call.out, f)
      BY <1>8, <1>11, <2>2
    <3>2. Behind(Append(call.out, keys[e + 1]), call.fault, call.limit, f, u, e + 1)
      BY <3>1, <1>2, <1>3, <1>7, BehindMore
    <3> QED BY <3>2, <1>7
  <2>3. Advance(out, cap, call.fault)  BY <1>11
  <2> HIDE DEF out, cap
  <2>4. call.at <= Len(nodes[call.node].keys)  BY <1>1
  <2> QED BY <1>1, <1>7, <1>9, <2>1, <2>2, <2>3, <2>4, MatchAdvances
<1>12. CASE HasPrefix(w, call.arg) /\ Advance(call.out, call.cap, TRUE)
  <2>1. ASSUME NEW f \in Nat, NEW u \in Nat, Hits(call.arg, f, u)
        PROVE  Behind(call.out, TRUE, call.limit, f, u, e + 1)
    <3>1. /\ f <= e /\ e + 1 <= u /\ Picked(call.out, f, e)
          /\ call.limit = 0 \/ Len(call.out) < call.limit
      BY <1>8, <1>12, <2>1
    <3> QED BY <3>1, <1>2, <1>3, <1>7, BehindMore
  <2>2. call.at <= Len(nodes[call.node].keys)  BY <1>1
  <2> QED BY <1>1, <1>3, <1>7, <1>9, <1>12, <2>1, <2>2, MatchAdvances
<1>13. CASE Return("ERR_FORMAT", <<>>, TRUE)
  <2>1. "ERR_FORMAT" # "OK"  OBVIOUS
  <2> QED BY <2>1, <1>2, <1>13, MatchFailed
<1> HIDE DEF full
<1> QED BY <1>1, <1>10, <1>11, <1>12, <1>13

\* At the end of a leaf the scan goes on with the next one, or has everything.
LEMMA MatchScansLeaf ==
  ASSUME NEW lo \in Spans, NEW hi \in Spans, NEW st \in Spans, BuildInv(lo, hi, st),
         ReadInv(lo, hi), MatchCall(call, lo, hi), MatchAnswer(ret), ScanLeaf
  PROVE  MatchCall(call', lo, hi) /\ MatchAnswer(ret')
<1> DEFINE p == call.node
           q == call.next
           e == lo[p] + call.at - 1
           l == LinkRead(q)
<1>1. /\ Scanning /\ call.op = "prefix" /\ call.at # 0 /\ call.at > Len(nodes[p].keys)
      /\ \/ q = 0 /\ Deliver(call.out, call.fault)
         \/ /\ q # 0 /\ UNCHANGED ret
            /\ call' = [call EXCEPT !.node = q, !.at = 1, !.next = l]
         \/ q # 0 /\ Deliver(call.out, TRUE)
  BY DEF ScanLeaf, Scanning
<1>2. call \in Calls /\ CallSound(call, lo, hi) /\ phase = "built" /\ keys \in KeyLists
  BY <1>1, Reading, Building
<1>3. /\ IsLeafOf(nodes, p) /\ call.limit \in Nat /\ call.at \in Nat /\ p \in Nat
      /\ call.arg \in Words /\ call.out \in Seq(Words)
      /\ q # 0 => IsLeafOf(nodes, q)
  BY <1>1, <1>2 DEF CallSound, Calls
<1>4. Len(nodes[p].keys) \in Nat /\ hi[p] = lo[p] + Len(nodes[p].keys)
  BY <1>3, LeafEntries
<1>5. lo[p] \in Nat /\ Len(keys) \in Nat /\ Len(call.out) \in Nat
  <2>1. lo[p] \in Nat  BY <1>3 DEF Spans
  <2>2. Len(keys) \in Nat  BY <1>2, KeysFacts
  <2>3. Len(call.out) \in Nat  BY <1>3
  <2> QED BY <2>1, <2>2, <2>3
<1>6. ASSUME NEW f \in Nat, NEW u \in Nat, Hits(call.arg, f, u)
      PROVE  /\ e = hi[p] /\ f <= hi[p] /\ hi[p] <= u /\ hi[p] \in Nat
             /\ q = 0 => hi[p] = Len(keys)
             /\ q # 0 => lo[q] = hi[p]
             /\ call.limit = 0 \/ Len(call.out) < call.limit
             /\ Picked(call.out, f, hi[p])
             /\ ~call.fault => Len(call.out) = hi[p] - f /\ Exact(call.out, f)
  <2>1. Scanned(call, f, u, lo, hi)  BY <1>1, <1>6 DEF MatchCall
  <2>2. call.at <= Len(nodes[p].keys) + 1  BY <2>1 DEF Scanned
  <2>3. call.at = Len(nodes[p].keys) + 1  BY <2>2, <1>1, <1>3, <1>4
  <2>4. e = hi[p] /\ hi[p] \in Nat  BY <2>3, <1>4, <1>5
  <2>5. /\ f <= e /\ e <= u /\ Picked(call.out, f, e)
        /\ ~call.fault => Len(call.out) = e - f /\ Exact(call.out, f)
    BY <2>1 DEF Scanned
  <2> QED BY <2>1, <2>4, <2>5 DEF Scanned
<1> HIDE DEF e
<1>7. CASE q = 0 /\ Deliver(call.out, call.fault)
  <2> SUFFICES ASSUME NEW f \in Nat, NEW u \in Nat, Hits(call.arg, f, u)
               PROVE  Full(call.out, call.fault, call.limit, f, u)
    BY <1>7, MatchDelivered
  <2>1. u <= Len(keys)  BY DEF Hits
  <2>2. hi[p] = u  BY <2>1, <1>5, <1>6, <1>7
  <2> QED BY <2>2, <1>3, <1>5, <1>6 DEF Full
<1>8. CASE /\ q # 0 /\ UNCHANGED ret
           /\ call' = [call EXCEPT !.node = q, !.at = 1, !.next = l]
  <2>1. /\ l = 0 => hi[q] = Len(keys)
        /\ l # 0 => lo[l] = hi[q]
    BY <1>2, <1>3, <1>8, LinkLeads DEF LinkRead
  <2> HIDE DEF l
  <2>2. call' = [op |-> call.op, arg |-> call.arg, limit |-> call.limit,
                 node |-> q, next |-> l, at |-> 1, out |-> call.out,
                 cap |-> call.cap, fault |-> call.fault]
    BY <1>2, <1>8 DEF Calls
  <2>3. /\ call'.op = "prefix" /\ call'.arg = call.arg /\ call'.limit = call.limit
        /\ call'.node = q /\ call'.next = l /\ call'.at = 1
        /\ call'.out = call.out /\ call'.fault = call.fault
    BY <1>1, <2>2
  <2>4. ASSUME NEW f \in Nat, NEW u \in Nat, Hits(call.arg, f, u)
        PROVE  Scanned(call', f, u, lo, hi)
    <3>1. lo[q] = hi[p] /\ hi[p] \in Nat  BY <1>6, <1>8, <2>4
    <3>2. lo[call'.node] + call'.at - 1 = hi[p]  BY <2>3, <3>1
    <3>3. Len(nodes[q].keys) \in Nat  BY <1>3, <1>8, LeafEntries
    <3>4. call'.at <= Len(nodes[call'.node].keys) + 1  BY <2>3, <3>3
    <3>5. /\ f <= hi[p] /\ hi[p] <= u /\ Picked(call.out, f, hi[p])
          /\ call.limit = 0 \/ Len(call.out) < call.limit
          /\ ~call.fault => Len(call.out) = hi[p] - f /\ Exact(call.out, f)
      BY <1>6, <2>4
    <3> QED BY <2>1, <2>3, <3>2, <3>4, <3>5 DEF Scanned
  <2>5. MatchCall(call', lo, hi)  BY <2>3, <2>4 DEF MatchCall
  <2> QED BY <2>5, <1>8
<1>9. CASE q # 0 /\ Deliver(call.out, TRUE)
  <2> SUFFICES ASSUME NEW f \in Nat, NEW u \in Nat, Hits(call.arg, f, u)
               PROVE  Full(call.out, TRUE, call.limit, f, u)
    BY <1>9, MatchDelivered
  <2>1. Picked(call.out, f, u)  BY <1>6, PickedUp
  <2> QED BY <2>1, <1>3, <1>5, <1>6 DEF Full
<1> QED BY <1>1, <1>7, <1>8, <1>9

LEMMA MatchInvInit == Init => MatchInv
<1> SUFFICES ASSUME Init PROVE MatchInv  OBVIOUS
<1>1. TreeInv /\ ChainInv  BY TreeInvInit, ChainInvInit
<1>2. call = NoCall /\ ret = NoRet  BY DEF Init, ReadInit
<1>3. \A lo, hi \in Spans : MatchCall(call, lo, hi) /\ MatchAnswer(ret)
  BY <1>2, MatchNothing
<1> QED BY <1>1, <1>3 DEF MatchInv, TreeInv

\* While the index is built there are no matches.
LEMMA BuildStepMatch ==
  ASSUME MatchInv, BuildStep
  PROVE  MatchInv'
<1>1. TreeInv /\ IndexInv /\ Idle  BY DEF MatchInv, TreeInv, IndexInv, ReadInv
<1>2. [Next]_vars  BY DEF Next
<1>3. TreeInv' /\ ChainInv'  BY <1>1, <1>2, BuildStepInv, ChainInvStep DEF MatchInv
<1>4. phase \in {"call", "return"}
  BY DEF BuildStep, BuildNext, BuildLeaf, OpenNode, NextChild, CloseNode, BuildDone, BuildFails
<1>5. call' = NoCall /\ ret' = NoRet  BY <1>1, <1>4 DEF Idle, BuildStep, readVars
<1>6. NoCall.op = "none" /\ NoRet.op = "none"  BY DEF NoCall, NoRet
<1>7. \A lo, hi : MatchCall(call, lo, hi)' /\ MatchAnswer(ret)'
  BY <1>5, <1>6 DEF MatchCall, MatchAnswer
<1>8. PICK lo \in Spans, hi \in Spans, st \in Spans :
        BuildInv(lo, hi, st)' /\ ReadInv(lo, hi)'
  BY <1>3 DEF TreeInv
<1> QED BY <1>3, <1>7, <1>8 DEF MatchInv

LEMMA ReadStepMatch ==
  ASSUME NEW lo \in Spans, NEW hi \in Spans, NEW st \in Spans, BuildInv(lo, hi, st), ChainInv,
         ReadInv(lo, hi), MatchCall(call, lo, hi), MatchAnswer(ret), ReadStep
  PROVE  MatchCall(call', lo, hi) /\ MatchAnswer(ret')
<1>1. CASE UNCHANGED <<call, ret>>  BY <1>1
<1>2. CASE DbClose
  <2>1. UNCHANGED call /\ ret' = NoRet  BY <1>2 DEF DbClose
  <2> QED BY <2>1, MatchNothing
<1>3. CASE StartLookup
  <2>1. PICK w \in Words : Start("lookup", w, 0)  BY <1>3 DEF StartLookup
  <2> QED BY <2>1, MatchStarts
<1>4. CASE StartPrefix
  <2>1. PICK w \in Words, limit \in Limits : Start("prefix", w, limit)
    BY <1>4 DEF StartPrefix
  <2>2. limit \in Nat  BY ReadAssumption
  <2> QED BY <2>1, <2>2, MatchStarts
<1>5. CASE Descend    BY <1>5, MatchDescends
<1>6. CASE SearchLeaf
  <2>1. call.op = "lookup" /\ call.op # "prefix"  BY <1>6 DEF SearchLeaf
  <2>2. \E status, out, fault : Return(status, out, fault)  BY <1>6 DEF SearchLeaf
  <2> QED BY <2>1, <2>2, MatchReturned
<1>7. CASE EnterLeaf  BY <1>7, MatchEnters
<1>8. CASE ScanEntry  BY <1>8, MatchScansEntry
<1>9. CASE ScanLeaf   BY <1>9, MatchScansLeaf
<1>10. DbOpen \/ IterCreate \/ IterNext \/ IterDestroy => UNCHANGED <<call, ret>>
  BY DEF DbOpen, IterCreate, IterNext, IterDestroy
<1> QED
  BY <1>1, <1>2, <1>3, <1>4, <1>5, <1>6, <1>7, <1>8, <1>9, <1>10
     DEF ReadStep, ReadNext, CallNext

LEMMA MatchInvStep == MatchInv /\ [Next]_vars => MatchInv'
<1> SUFFICES ASSUME MatchInv, [Next]_vars PROVE MatchInv'  OBVIOUS
<1> PICK lo \in Spans, hi \in Spans, st \in Spans :
      /\ BuildInv(lo, hi, st) /\ ReadInv(lo, hi)
      /\ MatchCall(call, lo, hi) /\ MatchAnswer(ret)
  BY DEF MatchInv
<1>1. ChainInv /\ IndexInv  BY DEF MatchInv, IndexInv
<1>2. ChainInv'  BY <1>1, ChainInvStep
<1>3. CASE BuildStep  BY <1>3, BuildStepMatch
<1>4. CASE ReadStep
  <2>1. UNCHANGED buildVars  BY <1>4, ReadsOnly
  <2>2. BuildInv(lo, hi, st)' /\ ReadInv(lo, hi)'  BY <1>4, ReadStepKept
  <2>3. MatchCall(call', lo, hi) /\ MatchAnswer(ret')  BY <1>1, <1>4, ReadStepMatch
  <2>4. MatchCall(call, lo, hi)' /\ MatchAnswer(ret)'  BY <2>1, <2>3, MatchPrimed
  <2> QED BY <1>2, <2>2, <2>4 DEF MatchInv
<1>5. CASE UNCHANGED vars
  <2>1. UNCHANGED buildVars /\ UNCHANGED <<db, call, ret, iter>>
    BY <1>5 DEF vars, readVars
  <2>2. BuildInv(lo, hi, st)'  BY <2>1, BuildKept
  <2>3. ReadInv(lo, hi)'  BY <2>1, ReadInvStutters
  <2>4. MatchCall(call', lo, hi) /\ MatchAnswer(ret')  BY <2>1
  <2>5. MatchCall(call, lo, hi)' /\ MatchAnswer(ret)'  BY <2>1, <2>4, MatchPrimed
  <2> QED BY <1>2, <2>2, <2>3, <2>5 DEF MatchInv
<1> QED BY <1>3, <1>4, <1>5 DEF Next

LEMMA MatchInvariance == Spec => []MatchInv
BY MatchInvInit, MatchInvStep, PTL DEF Spec

\* There is one place where a match starts, and one where it ends.
LEMMA HitsExist ==
  ASSUME keys \in KeyLists, NEW w \in Words
  PROVE  \E f, u \in Nat : Hits(w, f, u)
<1> DEFINE n == Len(keys)
           P == {i \in 1 .. n : keys[i] < w \/ (keys[i] = w /\ w \in Separators)}
           Q == {i \in 1 .. n : keys[i] <= PrefixEnd[w]}
           f == Cardinality(P)
           u == Cardinality(Q)
<1>1. n \in Nat /\ \A i \in 1 .. n : keys[i] \in Int  BY KeysFacts
<1>2. \A i, j \in 1 .. n : i < j => keys[i] < keys[j]  BY KeysFacts
<1>3. w \in Int /\ PrefixEnd[w] \in Int /\ w <= PrefixEnd[w]
  <2>1. PrefixEnd[w] \in Words /\ w <= PrefixEnd[w]  BY IndexAssumption
  <2>2. Words \subseteq Int  BY IndexAssumption DEF Words
  <2> QED BY <2>1, <2>2
<1> HIDE DEF n
<1>4. /\ f \in 0 .. n
      /\ \A i \in 1 .. n : i \in P <=> i <= f
  <2>1. ASSUME NEW i \in P, NEW j \in 1 .. n, j < i PROVE j \in P
    BY <2>1, <1>1, <1>2, <1>3
  <2>2. P \subseteq 1 .. n  OBVIOUS
  <2> HIDE DEF P
  <2> QED BY <2>1, <2>2, <1>1, CountOfInitial
<1>5. /\ u \in 0 .. n
      /\ \A i \in 1 .. n : i \in Q <=> i <= u
  <2>1. ASSUME NEW i \in Q, NEW j \in 1 .. n, j < i PROVE j \in Q
    BY <2>1, <1>1, <1>2, <1>3
  <2>2. Q \subseteq 1 .. n  OBVIOUS
  <2> HIDE DEF Q
  <2> QED BY <2>1, <2>2, <1>1, CountOfInitial
<1> HIDE DEF f, u
<1>6. f <= u
  <2>1. CASE f = 0  BY <2>1, <1>5
  <2>2. CASE f # 0
    <3>1. f \in 1 .. n /\ f <= f  BY <2>2, <1>1, <1>4
    <3>2. f \in P  BY <3>1, <1>4
    <3>3. keys[f] <= PrefixEnd[w]  BY <3>1, <3>2, <1>1, <1>3
    <3>4. f \in Q  BY <3>1, <3>3
    <3> QED BY <3>1, <3>4, <1>5
  <2> QED BY <2>1, <2>2
<1>7. f \in Nat /\ u \in Nat /\ u <= n  BY <1>1, <1>4, <1>5
<1>8. Hits(w, f, u)
  <2>1. ASSUME NEW i \in 1 .. Len(keys)
        PROVE  /\ i <= f <=> keys[i] < w \/ (keys[i] = w /\ w \in Separators)
               /\ i <= u <=> keys[i] <= PrefixEnd[w]
    BY <1>4, <1>5 DEF n
  <2> QED BY <2>1, <1>6, <1>7 DEF Hits, n
<1> QED BY <1>7, <1>8

\* The keys with a prefix are an interval.
LEMMA MatchingIs ==
  ASSUME keys \in KeyLists, NEW w \in Words, NEW a \in Nat, NEW u \in Nat, a <= u,
         u <= Len(keys),
         \A i \in 1 .. Len(keys) : i <= a <=> keys[i] < w,
         \A i \in 1 .. Len(keys) : i <= u <=> keys[i] <= PrefixEnd[w]
  PROVE  Matching(w) = SubSeq(keys, a + 1, u)
<1> DEFINE n    == Len(keys)
           m(i) == IF i < a THEN a ELSE IF i > u THEN u ELSE i
           Eq(f) == f = [i \in 0 .. Len(keys) |->
                           IF i = 0 THEN <<>>
                           ELSE IF HasPrefix(keys[i], w) THEN Append(f[i - 1], keys[i])
                                                         ELSE f[i - 1]]
           v    == [i \in 0 .. n |-> SubSeq(keys, a + 1, m(i))]
           upTo == CHOOSE f : Eq(f)
<1>1. n \in Nat /\ keys \in Seq(Words) /\ n = Len(keys)  BY KeysFacts
<1>2. \A i \in 1 .. n : HasPrefix(keys[i], w) <=> ~(i <= a) /\ i <= u
  <2>1. w \in Int /\ \A i \in 1 .. n : keys[i] \in Int
    <3>1. Words \subseteq Int  BY IndexAssumption DEF Words
    <3> QED BY <3>1, KeysFacts
  <2> QED BY <2>1 DEF HasPrefix
<1>3. ASSUME NEW f, NEW i \in 0 .. n, i # 0 => f[i - 1] = SubSeq(keys, a + 1, m(i - 1))
      PROVE  SubSeq(keys, a + 1, m(i)) =
               IF i = 0 THEN <<>>
               ELSE IF HasPrefix(keys[i], w) THEN Append(f[i - 1], keys[i]) ELSE f[i - 1]
  <2>1. CASE i = 0
    <3>1. m(i) = a  BY <2>1
    <3>2. SubSeq(keys, a + 1, a) = <<>>  BY SubSeqEmpty
    <3> QED BY <2>1, <3>1, <3>2
  <2>2. CASE i # 0 /\ HasPrefix(keys[i], w)
    <3>1. i \in 1 .. n /\ i \in Nat /\ i - 1 \in Nat  BY <2>2, <1>1
    <3>2. ~(i <= a) /\ i <= u  BY <2>2, <3>1, <1>2
    <3>3. a <= i - 1  BY <3>1, <3>2
    <3>4. m(i) = i /\ m(i - 1) = i - 1  BY <3>1, <3>2, <3>3
    <3> HIDE DEF m
    <3>5. f[i - 1] = SubSeq(keys, a + 1, i - 1)  BY <2>2, <3>4, <1>3
    <3>6. SubSeq(keys, a + 1, i) = Append(SubSeq(keys, a + 1, i - 1), keys[i])
      <4>1. a + 1 \in 1 .. Len(keys) /\ i \in a + 1 .. Len(keys)  BY <3>1, <3>3, <1>1
      <4>2. SubSeq(keys, a + 1, i) = SubSeq(keys, a + 1, i - 1) \o <<keys[i]>>
        BY <4>1, <1>1, SubSeqRecursiveSecond
      <4>3. keys[i] \in Words  BY <3>1, <1>1
      <4>4. i - 1 <= Len(keys)  BY <3>1, <1>1
      <4>5. SubSeq(keys, a + 1, i - 1) \in Seq(Words)
        BY <3>1, <3>3, <4>4, <1>1, Interval
      <4> QED BY <4>2, <4>3, <4>5, AppendIsConcat
    <3> QED BY <2>2, <3>4, <3>5, <3>6
  <2>3. CASE i # 0 /\ ~HasPrefix(keys[i], w)
    <3>1. i \in 1 .. n /\ i \in Nat /\ i - 1 \in Nat  BY <2>3, <1>1
    <3>2. i <= a \/ ~(i <= u)  BY <2>3, <3>1, <1>2
    <3>3. m(i) = m(i - 1)  BY <3>1, <3>2
    <3> HIDE DEF m
    <3> QED BY <2>3, <3>3, <1>3
  <2> QED BY <2>1, <2>2, <2>3
<1>4. m(n) = u  BY <1>1
<1> HIDE DEF m, n
<1>5. Eq(v)
  <2>1. ASSUME NEW i \in 0 .. n
        PROVE  v[i] = IF i = 0 THEN <<>>
                      ELSE IF HasPrefix(keys[i], w) THEN Append(v[i - 1], keys[i])
                                                    ELSE v[i - 1]
    <3>1. i # 0 => v[i - 1] = SubSeq(keys, a + 1, m(i - 1))
      <4>1. i # 0 => i - 1 \in 0 .. n  BY <1>1
      <4> QED BY <4>1
    <3>2. v[i] = SubSeq(keys, a + 1, m(i))  OBVIOUS
    <3> HIDE DEF v
    <3> QED BY <3>1, <3>2, <1>3
  <2>2. v = [i \in 0 .. n |-> v[i]]  OBVIOUS
  <2> HIDE DEF v
  <2> QED BY <2>1, <2>2 DEF n
<1>6. Eq(upTo)  BY <1>5
<1>7. Matching(w) = upTo[n]  BY DEF Matching, n
<1> HIDE DEF upTo
<1>8. ASSUME NEW i \in 0 .. n
      PROVE  upTo[i] = IF i = 0 THEN <<>>
                       ELSE IF HasPrefix(keys[i], w) THEN Append(upTo[i - 1], keys[i])
                                                     ELSE upTo[i - 1]
  BY <1>6 DEF n
<1> DEFINE Good == {i \in 0 .. n : upTo[i] = SubSeq(keys, a + 1, m(i))}
<1>9. ASSUME NEW i \in 0 .. n, \A j \in 0 .. i - 1 : j \in Good PROVE i \in Good
  <2>1. i # 0 => i - 1 \in 0 .. i - 1  BY <1>1
  <2>2. i # 0 => upTo[i - 1] = SubSeq(keys, a + 1, m(i - 1))  BY <2>1, <1>9
  <2> QED BY <2>2, <1>3, <1>8
<1> HIDE DEF Good
<1>10. \A i \in 0 .. n : i \in Good
  <2>1. 0 \in {0, 1}  OBVIOUS
  <2> QED BY <2>1, <1>1, <1>9, UpTo
<1>11. n \in 0 .. n  BY <1>1
<1>12. upTo[n] = SubSeq(keys, a + 1, m(n))  BY <1>10, <1>11 DEF Good
<1> QED BY <1>4, <1>7, <1>12

\* What a match for w should return, as PrefixAnswers has it: the keys behind f.
LEMMA FoundIs ==
  ASSUME keys \in KeyLists, NEW w \in Words, NEW f \in Nat, NEW u \in Nat, Hits(w, f, u)
  PROVE  (IF w \in KeySet \cap Separators THEN Tail(Matching(w)) ELSE Matching(w)) =
           SubSeq(keys, f + 1, u)
<1> DEFINE n == Len(keys)
           P == {i \in 1 .. n : keys[i] < w}
           a == Cardinality(P)
<1>1. n \in Nat /\ keys \in Seq(Words) /\ \A i \in 1 .. n : keys[i] \in Int  BY KeysFacts
<1>2. \A i, j \in 1 .. n : i < j => keys[i] < keys[j]  BY KeysFacts
<1>3. w \in Int /\ PrefixEnd[w] \in Int /\ w <= PrefixEnd[w]
  <2>1. PrefixEnd[w] \in Words /\ w <= PrefixEnd[w]  BY IndexAssumption
  <2>2. Words \subseteq Int  BY IndexAssumption DEF Words
  <2> QED BY <2>1, <2>2
<1>4. /\ f <= u /\ u <= n
      /\ \A i \in 1 .. n : i <= f <=> keys[i] < w \/ (keys[i] = w /\ w \in Separators)
  BY DEF Hits
<1>5. \A i \in 1 .. n : i <= u <=> keys[i] <= PrefixEnd[w]  BY DEF Hits
<1> HIDE DEF n
<1>6. /\ a \in 0 .. n
      /\ \A i \in 1 .. n : i \in P <=> i <= a
  <2>1. ASSUME NEW i \in P, NEW j \in 1 .. n, j < i PROVE j \in P
    BY <2>1, <1>1, <1>2, <1>3
  <2>2. P \subseteq 1 .. n  OBVIOUS
  <2> HIDE DEF P
  <2> QED BY <2>1, <2>2, <1>1, CountOfInitial
<1> HIDE DEF a
<1>7. a \in Nat /\ \A i \in 1 .. n : i <= a <=> keys[i] < w  BY <1>6
<1>8. a <= f
  <2>1. CASE a = 0  BY <2>1
  <2>2. CASE a # 0
    <3>1. a \in 1 .. n /\ a <= a  BY <2>2, <1>1, <1>6
    <3>2. keys[a] < w  BY <3>1, <1>7
    <3> QED BY <3>1, <3>2, <1>4
  <2> QED BY <2>1, <2>2
<1>9. a <= u  BY <1>4, <1>7, <1>8
<1>10. Matching(w) = SubSeq(keys, a + 1, u)
  BY <1>4, <1>5, <1>7, <1>9, MatchingIs DEF n
<1>11. CASE w \in KeySet \cap Separators
  <2>1. PICK k \in 1 .. n : keys[k] = w  BY <1>11 DEF KeySet, n
  <2>2. w \in Separators  BY <1>11
  <2>3. k <= f /\ ~(k <= a)  BY <2>1, <2>2, <1>3, <1>4, <1>7
  <2>4. k = a + 1
    <3> SUFFICES ASSUME a + 1 < k PROVE FALSE  BY <2>3, <1>7
    <3>1. a + 1 \in 1 .. n /\ ~(a + 1 <= a)  BY <2>1, <1>1, <1>7
    <3>2. keys[a + 1] < w  BY <3>1, <2>1, <1>2
    <3> QED BY <3>1, <3>2, <1>7
  <2>5. f = k
    <3> SUFFICES ASSUME k < f PROVE FALSE  BY <2>3
    <3>1. f \in 1 .. n /\ f <= f  BY <2>1, <1>1, <1>4
    <3>2. w < keys[f]  BY <3>1, <2>1, <1>2
    <3> QED BY <3>1, <3>2, <1>1, <1>3, <1>4
  <2>6. a + 1 \in 1 .. Len(keys) /\ u \in a + 1 .. Len(keys)
    BY <2>1, <2>4, <2>5, <1>1, <1>4 DEF n
  <2>7. Tail(SubSeq(keys, a + 1, u)) = SubSeq(keys, (a + 1) + 1, u)
    BY <2>6, <1>1, HeadTailOfSubSeq
  <2>8. (a + 1) + 1 = f + 1  BY <2>4, <2>5
  <2> QED BY <2>7, <2>8, <1>10, <1>11
<1>12. CASE w \notin KeySet \cap Separators
  <2>1. \A i \in 1 .. n : ~(keys[i] = w /\ w \in Separators)  BY <1>12 DEF KeySet, n
  <2>2. f = a
    <3> SUFFICES ASSUME a < f PROVE FALSE  BY <1>7, <1>8
    <3>1. f \in 1 .. n /\ f <= f /\ ~(f <= a)  BY <1>1, <1>4, <1>7
    <3>2. keys[f] < w  BY <3>1, <2>1, <1>4
    <3> QED BY <3>1, <3>2, <1>7
  <2> QED BY <2>2, <1>10, <1>12
<1> QED BY <1>11, <1>12

\* A prefix match returns entries whose keys have the prefix, in the order of
\* the keys, each once and not more than the limit; when it met no failure it
\* returns the first ones there are, none of them left out, whatever the
\* leaves they lie in.  Only the prefix itself is missed, where it is a
\* separator: find_child_offset leaves it behind.
THEOREM PrefixMatchesAnswer == Spec => []PrefixAnswers
<1>1. MatchInv => PrefixAnswers
  <2> SUFFICES ASSUME MatchInv, ret.op = "prefix" PROVE PrefixAnswers  BY DEF PrefixAnswers
  <2> PICK lo \in Spans, hi \in Spans, st \in Spans :
        /\ BuildInv(lo, hi, st) /\ ReadInv(lo, hi)
        /\ MatchCall(call, lo, hi) /\ MatchAnswer(ret)
    BY DEF MatchInv
  <2> DEFINE w     == ret.arg
             limit == ret.limit
             out   == ret.out
             found == IF w \in KeySet \cap Separators THEN Tail(Matching(w)) ELSE Matching(w)
             cut   == IF limit > 0 /\ limit < Len(found)
                        THEN SubSeq(found, 1, limit) ELSE found
  <2>1. keys \in KeyLists /\ ret \in Answers  BY Building, Reading DEF AnswerSound
  <2>2. w \in Words /\ limit \in Nat /\ out \in Seq(Words) /\ Len(out) \in Nat
    <3>1. w \in Words /\ limit \in Nat /\ out \in Seq(Words)  BY <2>1 DEF Answers
    <3> HIDE DEF out
    <3> QED BY <3>1
  <2>3. PICK f \in Nat, u \in Nat : Hits(w, f, u)  BY <2>1, <2>2, HitsExist
  <2>4. Fits(ret, f, u)  BY <2>3 DEF MatchAnswer
  <2>5. /\ ret.status = "OK" <=> out # <<>>
        /\ limit > 0 => Len(out) <= limit
        /\ Picked(out, f, u)
        /\ ~ret.fault => Exact(out, f)
        /\ ~ret.fault => Len(out) = u - f
                           \/ (limit > 0 /\ Len(out) = limit /\ limit <= u - f)
    BY <2>4 DEF Fits, Full
  <2>6. found = SubSeq(keys, f + 1, u)  BY <2>1, <2>2, <2>3, FoundIs
  <2>7. f <= u /\ u <= Len(keys) /\ keys \in Seq(Words)  BY <2>1, <2>3, KeysFacts DEF Hits
  <2> HIDE DEF found, out, w, limit
  <2>8. /\ found \in Seq(Words) /\ Len(found) = u - f
        /\ \A i \in 1 .. u - f : found[i] = keys[f + i]
    BY <2>6, <2>7, Interval
  <2>9. ASSUME NEW i \in 1 .. Len(out)
        PROVE  /\ out[i] \in ToSet(found)
               /\ i > 1 => out[i - 1] < out[i]
    <3>1. PICK j \in f + 1 .. u : out[i] = keys[j]  BY <2>5 DEF Picked
    <3>2. j - f \in 1 .. u - f /\ f + (j - f) = j  BY <2>7
    <3>3. out[i] = found[j - f] /\ j - f \in 1 .. Len(found)  BY <3>1, <3>2, <2>8
    <3>4. ToSet(found) = {found[k] : k \in 1 .. Len(found)}  BY <2>8, SMTT(30) DEF ToSet
    <3> QED BY <3>3, <3>4, <2>5 DEF Picked
  <2>10. ASSUME ~ret.fault PROVE out = cut
    <3>1. \A i \in 1 .. Len(out) : out[i] = keys[f + i]  BY <2>5, <2>10 DEF Exact
    <3>2. CASE Len(out) = u - f
      <4>1. out = found  BY <3>1, <3>2, <2>2, <2>6, <2>7, IntervalOf
      <4>2. ~(limit > 0 /\ limit < Len(found))  BY <3>2, <2>2, <2>5, <2>8
      <4> QED BY <4>1, <4>2
    <3>3. CASE limit > 0 /\ Len(out) = limit /\ limit <= u - f /\ Len(out) # u - f
      <4>1. limit < Len(found)  BY <3>3, <2>2, <2>8
      <4>2. \A i \in 1 .. limit - 0 : out[i] = found[0 + i]
        <5> SUFFICES ASSUME NEW i \in 1 .. limit PROVE out[i] = found[i]  BY <2>2
        <5>1. i \in 1 .. u - f /\ i \in 1 .. Len(out)  BY <3>3, <2>2
        <5> QED BY <5>1, <3>1, <2>8
      <4>3. 0 <= limit /\ limit <= Len(found) /\ Len(out) = limit - 0
        BY <3>3, <4>1, <2>2, <2>8
      <4>4. 0 \in Nat  OBVIOUS
      <4>5. out = SubSeq(found, 0 + 1, limit)
        BY <4>2, <4>3, <4>4, <2>2, <2>8, IntervalOf
      <4>6. 0 + 1 = 1  OBVIOUS
      <4>7. cut = SubSeq(found, 1, limit)  BY <3>3, <4>1
      <4> HIDE DEF cut
      <4> QED BY <4>5, <4>6, <4>7
    <3> QED BY <3>2, <3>3, <2>5, <2>10
  <2> QED BY <2>5, <2>9, <2>10 DEF PrefixAnswers, found, out, w, limit
<1> QED BY <1>1, MatchInvariance, PTL

=============================================================================
