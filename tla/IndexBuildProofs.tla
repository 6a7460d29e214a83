-------------------------- MODULE IndexBuildProofs --------------------------
(***************************************************************************)
(* The construction of the index is right for any number of keys and any    *)
(* size of the leaves.                                                      *)
(*                                                                         *)
(* The keys below a node are an interval of the sorted keys: those behind   *)
(* lo[p], up to hi[p].  Such spans exist at every step, and so do the        *)
(* places st[i] where the frames of the stack begin.                        *)
(***************************************************************************)
EXTENDS IndexTree, SequenceTheorems, TLAPS

M == MaxElements
Spans == [Nat -> Nat]

\* The children of a node or of a frame stand in a row from a to b, each
\* separator being the last key of the child on its left.
Row(cs, seps, a, b, lo, hi) ==
  /\ cs = <<>> => a = b
  /\ cs # <<>> => lo[cs[1]] = a /\ hi[cs[Len(cs)]] = b
  /\ \A i \in 1 .. Len(cs) - 1 : hi[cs[i]] = lo[cs[i + 1]]
  /\ \A i, j \in 1 .. Len(cs) : i < j => hi[cs[i]] <= lo[cs[j]]
  /\ \A i \in 1 .. Len(seps) : seps[i] = keys[hi[cs[i]]]

LeafSound(ns, p, lo, hi, last) ==
  /\ hi[p] = lo[p] + Len(ns[p].keys)
  /\ \A i \in 1 .. Len(ns[p].keys) : ns[p].keys[i] = keys[lo[p] + i]
  /\ ns[p].next = 0 => p = last
  /\ ns[p].next # 0 => /\ ns[p].next \in 1 .. Len(ns)
                       /\ ns[ns[p].next].kind = "leaf"
                       /\ lo[ns[p].next] = hi[p]

InnerSound(ns, p, lo, hi) ==
  /\ Len(ns[p].children) = M + 1 /\ Len(ns[p].keys) = M
  /\ \A i \in 1 .. M + 1 : ns[p].children[i] \in 1 .. p - 1
  /\ Row(ns[p].children, ns[p].keys, lo[p], hi[p], lo, hi)

NodeSound(ns, p, lo, hi, last) ==
  /\ lo[p] < hi[p] /\ hi[p] <= Len(keys)
  /\ ns[p].kind = "leaf" => LeafSound(ns, p, lo, hi, last)
  /\ ns[p].kind = "inner" => InnerSound(ns, p, lo, hi)

NodesSound(ns, lo, hi, last) == \A p \in 1 .. Len(ns) : NodeSound(ns, p, lo, hi, last)

\* A frame that begins at s and whose first children are built.
FrameSound(n, f, s, lo, hi) ==
  /\ f.size > M /\ s + f.size <= Len(keys)
  /\ Len(f.children) <= M /\ Len(f.seps) = Len(f.children)
  /\ f.prev = Boundary(f.size, Len(f.children))
  /\ \A i \in 1 .. Len(f.children) : f.children[i] \in 1 .. n
  /\ Row(f.children, f.seps, s, s + f.prev, lo, hi)

\* Where the child ends that a frame is waiting for.
EndOf(f) == IF Len(f.children) < M THEN Boundary(f.size, Len(f.children) + 1) ELSE f.size

FramesSound(n, stk, lo, hi, st) ==
  /\ \A i \in 1 .. Len(stk) : FrameSound(n, stk[i], st[i], lo, hi)
  /\ stk # <<>> => st[1] = 0 /\ stk[1].size = Len(keys)
  /\ \A i \in 1 .. Len(stk) - 1 :
       /\ st[i + 1] = st[i] + stk[i].prev
       /\ stk[i + 1].size = EndOf(stk[i]) - stk[i].prev

\* The keys of the call that is being made, or was made last.
From(stk, st) == IF stk = <<>> THEN 0 ELSE st[Len(stk)] + stk[Len(stk)].prev
To(stk, st)   == IF stk = <<>> THEN Len(keys) ELSE st[Len(stk)] + EndOf(stk[Len(stk)])

\* The first leaf and the last one.
EndsSound(ns, lo, hi) ==
  /\ lastLeaf = 0 => taken = 0 /\ first = 0
  /\ lastLeaf # 0 =>
       /\ lastLeaf \in 1 .. Len(ns) /\ ns[lastLeaf].kind = "leaf" /\ hi[lastLeaf] = taken
       /\ first \in 1 .. Len(ns) /\ ns[first].kind = "leaf" /\ lo[first] = 0

BuildTyped ==
  /\ keys \in KeyLists /\ nodes \in Seq(Node)
  /\ phase \in {"call", "return", "built", "failed"}
  /\ root \in Nat /\ first \in Nat /\ height \in Nat
  /\ todo \in Nat /\ taken \in Nat /\ lastLeaf \in Nat
  /\ stack \in Seq(Frame)
  /\ result \in [pos : Nat, height : Nat]

Progress(lo, hi, st) ==
  /\ phase = "call" =>
       taken = From(stack, st) /\ todo = To(stack, st) - From(stack, st)
  /\ phase = "return" =>
       /\ taken = To(stack, st) /\ result.pos \in 1 .. Len(nodes)
       /\ lo[result.pos] = From(stack, st) /\ hi[result.pos] = To(stack, st)
  /\ phase = "built" =>
       /\ taken = Len(keys) /\ root \in 1 .. Len(nodes)
       /\ lo[root] = 0 /\ hi[root] = Len(keys)

BuildInv(lo, hi, st) ==
  /\ BuildTyped
  /\ lo \in Spans /\ hi \in Spans /\ st \in Spans
  /\ NodesSound(nodes, lo, hi, lastLeaf)
  /\ EndsSound(nodes, lo, hi)
  /\ FramesSound(Len(nodes), stack, lo, hi, st)
  /\ Progress(lo, hi, st)

IndexInv == \E lo, hi, st \in Spans : BuildInv(lo, hi, st)

-----------------------------------------------------------------------------
(* Boundaries between children.                                             *)

LEMMA DivFacts ==
  ASSUME NEW a \in Nat, NEW d \in Nat \ {0}
  PROVE  a \div d \in Nat /\ d * (a \div d) <= a /\ a < d * (a \div d) + d
OBVIOUS

LEMMA TimesMonotone ==
  ASSUME NEW a \in Nat, NEW b \in Nat, NEW c \in Nat, a <= b
  PROVE  c * a <= c * b
OBVIOUS

\* Between two boundaries of a node of more than M keys lies a key, and one
\* behind the last boundary.
LEMMA BoundaryGrows ==
  ASSUME NEW size \in Nat, size > M, NEW x \in 0 .. M
  PROVE  /\ Boundary(size, x) \in Nat /\ Boundary(size, x) < size
         /\ Boundary(size, x) < Boundary(size, x + 1)
         /\ x = 0 => Boundary(size, x) = 0
<1> DEFINE D == M + 1
           q == (size * x) \div D
           r == (size * (x + 1)) \div D
<1>1. M \in Nat \ {0} /\ D \in Nat \ {0}  BY IndexAssumption DEF M
<1>2. Boundary(size, x) = q /\ Boundary(size, x + 1) = r  BY DEF Boundary, M
<1>3. size * x \in Nat /\ size * (x + 1) \in Nat /\ size * (x + 1) = size * x + size
  OBVIOUS
<1>4. q \in Nat /\ D * q <= size * x  BY <1>1, <1>3, DivFacts
<1>5. r \in Nat /\ size * (x + 1) < D * r + D  BY <1>1, <1>3, DivFacts
<1> HIDE DEF q, r
<1>6. q < r
  <2> SUFFICES ASSUME r <= q PROVE FALSE  BY <1>4, <1>5
  <2>1. D * r <= D * q  BY <1>1, <1>4, <1>5, TimesMonotone
  <2>2. D * r + D <= size * (x + 1)  BY <1>1, <1>3, <1>4, <1>5, <2>1
  <2> QED BY <2>2, <1>1, <1>3, <1>5
<1>7. q < size
  <2> SUFFICES ASSUME size <= q PROVE FALSE  BY <1>4
  <2>1. D * size <= D * q  BY <1>1, <1>4, TimesMonotone
  <2>2. size * x <= size * M  BY <1>1, TimesMonotone
  <2>3. D * size = size * M + size  BY <1>1
  <2> QED BY <2>1, <2>2, <2>3, <1>1, <1>3, <1>4
<1>8. x = 0 => q = 0
  <2> SUFFICES ASSUME x = 0, q >= 1 PROVE FALSE  BY <1>4
  <2>1. D * 1 <= D * q  BY <1>1, <1>4, TimesMonotone
  <2> QED BY <2>1, <1>1, <1>4
<1> QED BY <1>2, <1>4, <1>5, <1>6, <1>7, <1>8

\* The child that a frame waits for is not empty and lies within the frame.
LEMMA ChildFits ==
  ASSUME NEW n \in Nat, NEW f \in Frame, NEW s \in Nat, NEW lo \in Spans, NEW hi \in Spans,
         FrameSound(n, f, s, lo, hi)
  PROVE  EndOf(f) \in Nat /\ f.prev < EndOf(f) /\ EndOf(f) <= f.size
<1>1. M \in Nat \ {0}  BY IndexAssumption DEF M
<1>2. f.size \in Nat /\ f.children \in Seq(Nat) /\ Len(f.children) \in Nat
  BY DEF Frame
<1> DEFINE x == Len(f.children)
<1>3. f.size > M /\ x \in 0 .. M /\ f.prev = Boundary(f.size, x)
  BY <1>1, <1>2 DEF FrameSound
<1>4. /\ f.prev \in Nat /\ f.prev < f.size /\ f.prev < Boundary(f.size, x + 1)
  BY <1>2, <1>3, BoundaryGrows
<1>5. x < M => Boundary(f.size, x + 1) \in Nat /\ Boundary(f.size, x + 1) < f.size
  <2> SUFFICES ASSUME x < M
               PROVE  Boundary(f.size, x + 1) \in Nat /\ Boundary(f.size, x + 1) < f.size
    OBVIOUS
  <2>1. x + 1 \in 0 .. M  BY <1>1, <1>3
  <2> QED BY <1>2, <1>3, <2>1, BoundaryGrows
<1> QED BY <1>2, <1>3, <1>4, <1>5 DEF EndOf

-----------------------------------------------------------------------------
(* Rows of children.                                                        *)

Agree(n, f, g) == \A p \in 1 .. n : g[p] = f[p]

\* A row depends on the spans of its children only.
LEMMA RowKept ==
  ASSUME NEW n \in Nat, NEW cs \in Seq(Nat), NEW seps, NEW a, NEW b,
         NEW lo, NEW hi, NEW lo2, NEW hi2,
         Len(seps) \in Nat, Len(seps) <= Len(cs),
         \A i \in 1 .. Len(cs) : cs[i] \in 1 .. n,
         Agree(n, lo, lo2), Agree(n, hi, hi2),
         Row(cs, seps, a, b, lo, hi)
  PROVE  Row(cs, seps, a, b, lo2, hi2)
<1>1. Len(cs) \in Nat  OBVIOUS
<1>2. \A i \in 1 .. Len(cs) : lo2[cs[i]] = lo[cs[i]] /\ hi2[cs[i]] = hi[cs[i]]
  BY DEF Agree
<1>3. cs # <<>> => 1 \in 1 .. Len(cs) /\ Len(cs) \in 1 .. Len(cs)
  OBVIOUS
<1>4. \A i \in 1 .. Len(cs) - 1 : i \in 1 .. Len(cs) /\ i + 1 \in 1 .. Len(cs)
  BY <1>1
<1>5. \A i \in 1 .. Len(seps) : i \in 1 .. Len(cs)
  BY <1>1
<1> QED BY <1>2, <1>3, <1>4, <1>5 DEF Row

\* One more child in the row.
LEMMA RowAppended ==
  ASSUME NEW n \in Nat, NEW cs \in Seq(Nat), NEW seps, NEW a \in Nat, NEW b \in Nat,
         NEW lo \in Spans, NEW hi \in Spans,
         Len(seps) \in Nat, Len(seps) <= Len(cs),
         Row(cs, seps, a, b, lo, hi),
         \A i \in 1 .. Len(cs) : lo[cs[i]] < hi[cs[i]],
         NEW c \in Nat, lo[c] = b
  PROVE  Row(Append(cs, c), seps, a, hi[c], lo, hi)
<1> DEFINE ds == Append(cs, c)
           k  == Len(cs)
<1>1. /\ ds \in Seq(Nat) /\ k \in Nat /\ Len(ds) = k + 1 /\ ds # <<>>
      /\ ds[k + 1] = c /\ \A i \in 1 .. k : ds[i] = cs[i]
  OBVIOUS
<1>2. \A i \in 1 .. k : cs[i] \in Nat /\ lo[cs[i]] \in Nat /\ hi[cs[i]] \in Nat
  <2>1. \A i \in 1 .. k : cs[i] \in Nat  BY <1>1
  <2> QED BY <2>1 DEF Spans
<1> HIDE DEF ds
<1>3. lo[ds[1]] = a /\ hi[ds[Len(ds)]] = hi[c]
  <2>1. CASE k = 0
    <3>1. cs = <<>>  BY <2>1
    <3> QED BY <3>1, <2>1, <1>1 DEF Row
  <2>2. CASE k # 0
    <3>1. cs # <<>> /\ 1 \in 1 .. k  BY <2>2, <1>1
    <3> QED BY <3>1, <1>1 DEF Row
  <2> QED BY <2>1, <2>2
<1>4. k # 0 => hi[cs[k]] = b
  <2>1. k # 0 => cs # <<>>  OBVIOUS
  <2> QED BY <2>1 DEF Row
<1>5. ASSUME NEW i \in 1 .. Len(ds) - 1 PROVE hi[ds[i]] = lo[ds[i + 1]]
  <2>1. i \in 1 .. k  BY <1>1
  <2>2. CASE i = k  BY <2>1, <2>2, <1>1, <1>4
  <2>3. CASE i # k
    <3>1. i \in 1 .. k - 1 /\ i + 1 \in 1 .. k  BY <2>1, <2>3, <1>1
    <3> QED BY <3>1, <2>1, <1>1 DEF Row
  <2> QED BY <2>2, <2>3
<1>6. ASSUME NEW i \in 1 .. Len(ds), NEW j \in 1 .. Len(ds), i < j
      PROVE  hi[ds[i]] <= lo[ds[j]]
  <2>1. i \in 1 .. k  BY <1>1, <1>6
  <2>2. CASE j \in 1 .. k  BY <2>1, <2>2, <1>1, <1>6 DEF Row
  <2>3. CASE j = k + 1
    <3>1. k \in 1 .. k /\ hi[cs[k]] = b  BY <2>1, <1>1, <1>4
    <3>2. hi[cs[i]] <= b
      <4>1. CASE i = k  BY <4>1, <3>1, <1>2
      <4>2. CASE i # k
        <5>1. i < k  BY <4>2, <2>1, <1>1
        <5>2. hi[cs[i]] <= lo[cs[k]]  BY <5>1, <2>1, <3>1 DEF Row
        <5>3. lo[cs[k]] < hi[cs[k]]  BY <3>1
        <5>4. hi[cs[i]] \in Nat /\ lo[cs[k]] \in Nat /\ hi[cs[k]] \in Nat
          BY <2>1, <3>1, <1>2
        <5> QED BY <5>2, <5>3, <5>4, <3>1
      <4> QED BY <4>1, <4>2
    <3> QED BY <3>2, <2>1, <2>3, <1>1
  <2> QED BY <2>2, <2>3, <1>1
<1>7. \A i \in 1 .. Len(seps) : seps[i] = keys[hi[ds[i]]]
  <2>1. \A i \in 1 .. Len(seps) : i \in 1 .. k  BY <1>1
  <2> QED BY <2>1, <1>1 DEF Row
<1> QED BY <1>1, <1>3, <1>5, <1>6, <1>7 DEF Row, ds

\* And the separator behind it.
LEMMA SeparatorAppended ==
  ASSUME NEW cs \in Seq(Nat), NEW seps \in Seq(Words), NEW a, NEW lo, NEW hi,
         NEW c \in Nat, Len(seps) = Len(cs), NEW w \in Words, w = keys[hi[c]],
         Row(Append(cs, c), seps, a, hi[c], lo, hi)
  PROVE  Row(Append(cs, c), Append(seps, w), a, hi[c], lo, hi)
<1> DEFINE ds == Append(cs, c)
           ts == Append(seps, w)
           k  == Len(cs)
<1>1. k \in Nat /\ Len(ts) = k + 1 /\ ds[k + 1] = c  OBVIOUS
<1>2. \A i \in 1 .. k : ts[i] = seps[i]  OBVIOUS
<1>3. ts[k + 1] = w  OBVIOUS
<1> HIDE DEF ds, ts
<1>4. Row(ds, seps, a, hi[c], lo, hi)  BY DEF ds
<1>5. ASSUME NEW i \in 1 .. Len(ts) PROVE ts[i] = keys[hi[ds[i]]]
  <2>1. CASE i \in 1 .. k  BY <2>1, <1>2, <1>4 DEF Row
  <2>2. CASE i = k + 1  BY <2>2, <1>1, <1>3
  <2> QED BY <2>1, <2>2, <1>1
<1>6. Row(ds, ts, a, hi[c], lo, hi)  BY <1>4, <1>5 DEF Row
<1> QED BY <1>6 DEF ds, ts

-----------------------------------------------------------------------------
(* Nodes and frames when one more node is written.                          *)

\* A node stays sound when its link does, in the nodes and spans as they grew.
LEMMA NodeKept ==
  ASSUME NEW ns \in Seq(Node), NEW ms \in Seq(Node), Len(ns) <= Len(ms),
         NEW lo, NEW hi, NEW lo2, NEW hi2, NEW last, NEW last2,
         Agree(Len(ns), lo, lo2), Agree(Len(ns), hi, hi2),
         NEW p \in 1 .. Len(ns), NodeSound(ns, p, lo, hi, last),
         ms[p].kind = ns[p].kind, ms[p].keys = ns[p].keys,
         ms[p].children = ns[p].children,
         ms[p].next = 0 /\ ns[p].kind = "leaf" => p = last2,
         ms[p].next # 0 /\ ns[p].kind = "leaf" =>
           /\ ms[p].next \in 1 .. Len(ms) /\ ms[ms[p].next].kind = "leaf"
           /\ lo2[ms[p].next] = hi2[p]
  PROVE  NodeSound(ms, p, lo2, hi2, last2)
<1>1. lo2[p] = lo[p] /\ hi2[p] = hi[p]  BY DEF Agree
<1>2. ns[p] \in Node  OBVIOUS
<1>3. ns[p].children \in Seq(Nat) /\ ns[p].keys \in Seq(Words)  BY <1>2 DEF Node
<1>4. CASE ns[p].kind = "leaf"
  <2>1. LeafSound(ns, p, lo, hi, last)  BY <1>4 DEF NodeSound
  <2>2. LeafSound(ms, p, lo2, hi2, last2)  BY <1>1, <1>4, <2>1 DEF LeafSound
  <2> QED BY <1>1, <1>4, <2>2 DEF NodeSound
<1>5. CASE ns[p].kind = "inner"
  <2> DEFINE cs   == ns[p].children
             seps == ns[p].keys
  <2>1. InnerSound(ns, p, lo, hi)  BY <1>5 DEF NodeSound
  <2>2. /\ Len(cs) = M + 1 /\ Len(seps) = M
        /\ \A i \in 1 .. M + 1 : cs[i] \in 1 .. p - 1
        /\ Row(cs, seps, lo[p], hi[p], lo, hi)
    BY <2>1 DEF InnerSound
  <2>3. M \in Nat  BY IndexAssumption DEF M
  <2>4. \A i \in 1 .. Len(cs) : cs[i] \in 1 .. Len(ns)  BY <2>2
  <2>5. Len(seps) \in Nat /\ Len(seps) <= Len(cs)  BY <2>2, <2>3
  <2>6. Len(ns) \in Nat  OBVIOUS
  <2> HIDE DEF cs, seps
  <2>7. cs \in Seq(Nat)  BY <1>3 DEF cs
  <2>8. Row(cs, seps, lo[p], hi[p], lo2, hi2)
    BY <2>2, <2>4, <2>5, <2>6, <2>7, RowKept
  <2>9. InnerSound(ms, p, lo2, hi2)  BY <1>1, <2>2, <2>8 DEF InnerSound, cs, seps
  <2> QED BY <1>1, <1>5, <2>9 DEF NodeSound
<1> QED BY <1>2, <1>4, <1>5 DEF Node

LEMMA FrameKept ==
  ASSUME NEW n \in Nat, NEW m \in Nat, n <= m, NEW f \in Frame, NEW s,
         NEW lo, NEW hi, NEW lo2, NEW hi2, Agree(n, lo, lo2), Agree(n, hi, hi2),
         FrameSound(n, f, s, lo, hi)
  PROVE  FrameSound(m, f, s, lo2, hi2)
<1> DEFINE cs   == f.children
           seps == f.seps
           b    == s + f.prev
<1>1. cs \in Seq(Nat) /\ seps \in Seq(Words)  BY DEF Frame
<1>2. Len(seps) \in Nat /\ Len(seps) <= Len(cs)  BY <1>1 DEF FrameSound
<1>3. \A i \in 1 .. Len(cs) : cs[i] \in 1 .. n  BY DEF FrameSound
<1>4. Row(cs, seps, s, b, lo, hi)  BY DEF FrameSound
<1> HIDE DEF cs, seps, b
<1>5. Row(cs, seps, s, b, lo2, hi2)  BY <1>1, <1>2, <1>3, <1>4, RowKept
<1>6. \A i \in 1 .. Len(cs) : cs[i] \in 1 .. m  BY <1>3
<1> QED BY <1>5, <1>6 DEF FrameSound, cs, seps, b

LEMMA FramesKept ==
  ASSUME NEW n \in Nat, NEW m \in Nat, n <= m, NEW stk \in Seq(Frame), NEW st,
         NEW lo, NEW hi, NEW lo2, NEW hi2, Agree(n, lo, lo2), Agree(n, hi, hi2),
         FramesSound(n, stk, lo, hi, st)
  PROVE  FramesSound(m, stk, lo2, hi2, st)
<1>1. ASSUME NEW i \in 1 .. Len(stk) PROVE FrameSound(m, stk[i], st[i], lo2, hi2)
  <2>1. stk[i] \in Frame  OBVIOUS
  <2>2. FrameSound(n, stk[i], st[i], lo, hi)  BY DEF FramesSound
  <2> QED BY <2>1, <2>2, FrameKept
<1> QED BY <1>1 DEF FramesSound

\* The span of the call under way is not empty and lies within the keys.
LEMMA CallFits ==
  ASSUME NEW n \in Nat, NEW stk \in Seq(Frame), NEW lo \in Spans, NEW hi \in Spans,
         NEW st \in Spans, FramesSound(n, stk, lo, hi, st), keys \in KeyLists
  PROVE  /\ From(stk, st) \in Nat /\ To(stk, st) \in Nat
         /\ From(stk, st) < To(stk, st) /\ To(stk, st) <= Len(keys)
<1>1. keys \in Seq(Words) /\ keys # <<>>  BY KeysAssumption
<1>2. Len(keys) \in Nat /\ Len(keys) > 0  BY <1>1
<1>3. CASE stk = <<>>  BY <1>2, <1>3 DEF From, To
<1>4. CASE stk # <<>>
  <2> DEFINE k == Len(stk)
             f == stk[k]
             s == st[k]
  <2>1. k \in 1 .. Len(stk) /\ k \in Nat  BY <1>4
  <2>2. f \in Frame  BY <2>1
  <2>3. s \in Nat  BY <2>1 DEF Spans
  <2>4. FrameSound(n, f, s, lo, hi)  BY <2>1 DEF FramesSound
  <2> HIDE DEF f, s
  <2>5. EndOf(f) \in Nat /\ f.prev < EndOf(f) /\ EndOf(f) <= f.size
    BY <2>2, <2>3, <2>4, ChildFits
  <2>6. s + f.size <= Len(keys)  BY <2>4 DEF FrameSound
  <2>7. f.size \in Nat /\ f.prev \in Nat  BY <2>2 DEF Frame
  <2>8. From(stk, st) = s + f.prev /\ To(stk, st) = s + EndOf(f)
    BY <1>4 DEF From, To, f, s
  <2>9. s + f.prev \in Nat /\ s + EndOf(f) \in Nat  BY <2>3, <2>5, <2>7
  <2>10. s + f.prev < s + EndOf(f)  BY <2>3, <2>5, <2>7
  <2>11. s + EndOf(f) <= Len(keys)  BY <1>2, <2>3, <2>5, <2>6, <2>7
  <2> QED BY <2>8, <2>9, <2>10, <2>11
<1> QED BY <1>3, <1>4

-----------------------------------------------------------------------------
(* The steps of the construction.                                           *)

\* The invariant after a step, from what the lemmas say with keys unchanged.
LEMMA InvPrimed ==
  ASSUME NEW lo \in Spans, NEW hi \in Spans, NEW st \in Spans,
         keys' = keys, BuildTyped', NodesSound(nodes', lo, hi, lastLeaf'),
         EndsSound(nodes, lo, hi)', FramesSound(Len(nodes'), stack', lo, hi, st),
         Progress(lo, hi, st)'
  PROVE  BuildInv(lo, hi, st)' /\ IndexInv'
<1>1. NodesSound(nodes, lo, hi, lastLeaf)'
  BY DEF NodesSound, NodeSound, LeafSound, InnerSound, Row
<1>2. FramesSound(Len(nodes), stack, lo, hi, st)'
  BY DEF FramesSound, FrameSound, EndOf, Row, Boundary
<1>3. BuildInv(lo, hi, st)'  BY <1>1, <1>2 DEF BuildInv
<1> QED BY <1>3 DEF IndexInv

LEMMA Linked ==
  ASSUME NEW nd \in Node, NEW k \in Nat
  PROVE  /\ [nd EXCEPT !.next = k] \in Node
         /\ [nd EXCEPT !.next = k].kind = nd.kind
         /\ [nd EXCEPT !.next = k].keys = nd.keys
         /\ [nd EXCEPT !.next = k].children = nd.children
         /\ [nd EXCEPT !.next = k].next = k
BY DEF Node

LEMMA Replaced ==
  ASSUME NEW ns \in Seq(Node), NEW i \in 1 .. Len(ns), NEW nd \in Node,
         NEW ms, ms = [ns EXCEPT ![i] = nd]
  PROVE  /\ ms \in Seq(Node) /\ Len(ms) = Len(ns)
         /\ \A p \in 1 .. Len(ns) : ms[p] = IF p = i THEN nd ELSE ns[p]
OBVIOUS

\* What BuildLeaf writes: the leaf before gets its link, the others stay.
LEMMA LeafWritten ==
  ASSUME BuildTyped, lastLeaf = 0 \/ lastLeaf \in 1 .. Len(nodes), BuildLeaf
  PROVE  /\ nodes' \in Seq(Node) /\ Len(nodes') = Len(nodes) + 1
         /\ \A p \in 1 .. Len(nodes) :
              /\ nodes'[p].kind = nodes[p].kind /\ nodes'[p].keys = nodes[p].keys
              /\ nodes'[p].children = nodes[p].children
              /\ nodes'[p].next = IF p = lastLeaf THEN Len(nodes) + 1 ELSE nodes[p].next
         /\ nodes'[Len(nodes) + 1].kind = "leaf" /\ nodes'[Len(nodes) + 1].next = 0
         /\ Len(nodes'[Len(nodes) + 1].keys) = todo
         /\ \A i \in 1 .. todo : nodes'[Len(nodes) + 1].keys[i] = keys[taken + i]
<1> DEFINE n == Len(nodes)
           e == SubSeq(keys, taken + 1, taken + todo)
           ns == LinkLast(n + 1)
<1>1. /\ keys \in Seq(Words) /\ nodes \in Seq(Node) /\ n \in Nat
      /\ todo \in Nat /\ taken \in Nat /\ taken + todo <= Len(keys)
  BY KeysAssumption DEF BuildTyped, BuildLeaf
<1>2. e \in Seq(Words) /\ Len(e) = todo /\ \A i \in 1 .. todo : e[i] = keys[taken + i]
  BY <1>1
<1> HIDE DEF e
<1>3. LeafNode(e) \in Node  BY <1>2 DEF LeafNode, Node
<1>4. /\ ns \in Seq(Node) /\ Len(ns) = n
      /\ \A p \in 1 .. n :
           /\ ns[p].kind = nodes[p].kind /\ ns[p].keys = nodes[p].keys
           /\ ns[p].children = nodes[p].children
           /\ ns[p].next = IF p = lastLeaf THEN n + 1 ELSE nodes[p].next
  <2>1. CASE lastLeaf = 0  BY <2>1, <1>1 DEF LinkLast
  <2>2. CASE lastLeaf # 0
    <3>1. lastLeaf \in 1 .. n  BY <2>2
    <3>2. ns = [nodes EXCEPT ![lastLeaf].next = n + 1]  BY <2>2 DEF LinkLast
    <3>3. nodes[lastLeaf] \in Node  BY <3>1, <1>1
    <3>4. n + 1 \in Nat  BY <1>1
    <3> DEFINE nd == [nodes[lastLeaf] EXCEPT !.next = n + 1]
    <3>5. /\ nd \in Node /\ nd.kind = nodes[lastLeaf].kind /\ nd.next = n + 1
          /\ nd.keys = nodes[lastLeaf].keys /\ nd.children = nodes[lastLeaf].children
      BY <3>3, <3>4, Linked
    <3>6. ns = [nodes EXCEPT ![lastLeaf] = nd]  BY <3>2
    <3> HIDE DEF nd
    <3>7. ns \in Seq(Node) /\ Len(ns) = n
          /\ \A p \in 1 .. n : ns[p] = IF p = lastLeaf THEN nd ELSE nodes[p]
      BY <3>1, <3>5, <3>6, <1>1, Replaced
    <3> QED BY <3>5, <3>7
  <2> QED BY <2>1, <2>2
<1> HIDE DEF ns
<1>5. nodes' = Append(ns, LeafNode(e))  BY DEF BuildLeaf, ns, e
<1>6. /\ nodes' \in Seq(Node) /\ Len(nodes') = n + 1 /\ nodes'[n + 1] = LeafNode(e)
      /\ \A p \in 1 .. n : nodes'[p] = ns[p]
  BY <1>1, <1>3, <1>4, <1>5
<1>7. LeafNode(e).kind = "leaf" /\ LeafNode(e).next = 0 /\ LeafNode(e).keys = e
  BY DEF LeafNode
<1> QED BY <1>2, <1>4, <1>6, <1>7

\* Spans for one more node.
LEMMA Extended ==
  ASSUME NEW lo \in Spans, NEW n \in Nat, NEW v \in Nat
  PROVE  \E lo2 \in Spans : lo2[n + 1] = v /\ Agree(n, lo, lo2)
<1> DEFINE lo2 == [lo EXCEPT ![n + 1] = v]
<1>1. lo2 \in Spans /\ lo2[n + 1] = v  BY DEF Spans
<1>2. \A p \in 1 .. n : p \in Nat /\ p # n + 1  OBVIOUS
<1>3. Agree(n, lo, lo2)  BY <1>2 DEF Agree, Spans
<1> QED BY <1>1, <1>3

LEMMA BuildLeafInv ==
  ASSUME NEW lo \in Spans, NEW hi \in Spans, NEW st \in Spans,
         BuildInv(lo, hi, st), BuildLeaf
  PROVE  IndexInv'
<1> DEFINE n == Len(nodes)
<1>1. /\ BuildTyped /\ NodesSound(nodes, lo, hi, lastLeaf) /\ EndsSound(nodes, lo, hi)
      /\ FramesSound(n, stack, lo, hi, st) /\ Progress(lo, hi, st)
  BY DEF BuildInv
<1>2. /\ keys \in KeyLists /\ keys \in Seq(Words) /\ Len(keys) \in Nat
      /\ nodes \in Seq(Node) /\ n \in Nat /\ stack \in Seq(Frame)
      /\ todo \in Nat /\ taken \in Nat
  BY <1>1, KeysAssumption DEF BuildTyped
<1>3. /\ From(stack, st) \in Nat /\ To(stack, st) \in Nat
      /\ From(stack, st) < To(stack, st) /\ To(stack, st) <= Len(keys)
  BY <1>1, <1>2, CallFits
<1>4. /\ phase = "call" /\ phase' = "return" /\ keys' = keys /\ stack' = stack
      /\ taken' = taken + todo /\ lastLeaf' = n + 1
      /\ first' = (IF first = 0 THEN n + 1 ELSE first)
      /\ result' = [pos |-> n + 1, height |-> 1]
      /\ root' = root /\ height' = height /\ todo' = todo
  BY DEF BuildLeaf
<1>5. /\ taken = From(stack, st) /\ taken + todo = To(stack, st) /\ todo > 0
      /\ taken + todo <= Len(keys)
  <2>1. taken = From(stack, st) /\ todo = To(stack, st) - From(stack, st)
    BY <1>1, <1>4 DEF Progress
  <2> QED BY <2>1, <1>2, <1>3
<1>6. lastLeaf = 0 \/ lastLeaf \in 1 .. n  BY <1>1 DEF EndsSound
<1>7. /\ nodes' \in Seq(Node) /\ Len(nodes') = n + 1
      /\ \A p \in 1 .. n :
           /\ nodes'[p].kind = nodes[p].kind /\ nodes'[p].keys = nodes[p].keys
           /\ nodes'[p].children = nodes[p].children
           /\ nodes'[p].next = IF p = lastLeaf THEN n + 1 ELSE nodes[p].next
      /\ nodes'[n + 1].kind = "leaf" /\ nodes'[n + 1].next = 0
      /\ Len(nodes'[n + 1].keys) = todo
      /\ \A i \in 1 .. todo : nodes'[n + 1].keys[i] = keys[taken + i]
  BY <1>1, <1>6, LeafWritten
<1>8. PICK lo2 \in Spans, hi2 \in Spans :
        /\ lo2[n + 1] = taken /\ hi2[n + 1] = taken + todo
        /\ Agree(n, lo, lo2) /\ Agree(n, hi, hi2)
  <2>1. n \in Nat /\ taken \in Nat /\ taken + todo \in Nat  BY <1>2
  <2>2. \E lo2 \in Spans : lo2[n + 1] = taken /\ Agree(n, lo, lo2)
    BY <2>1, Extended
  <2>3. \E hi2 \in Spans : hi2[n + 1] = taken + todo /\ Agree(n, hi, hi2)
    BY <2>1, Extended
  <2> QED BY <2>2, <2>3
<1> HIDE DEF n
<1>9. ASSUME NEW p \in 1 .. n PROVE NodeSound(nodes', p, lo2, hi2, n + 1)
  <2>1. NodeSound(nodes, p, lo, hi, lastLeaf)  BY <1>1 DEF NodesSound, n
  <2>2. nodes[p] \in Node  BY <1>2 DEF n
  <2>3. nodes[p].kind = "leaf" => LeafSound(nodes, p, lo, hi, lastLeaf)
    BY <2>1 DEF NodeSound
  <2>4. hi2[p] = hi[p]  BY <1>8 DEF Agree
  <2>5. nodes'[p].next = 0 /\ nodes[p].kind = "leaf" => p = n + 1
    <3> SUFFICES ASSUME nodes'[p].next = 0, nodes[p].kind = "leaf" PROVE FALSE
      OBVIOUS
    <3>1. p # lastLeaf /\ nodes[p].next = 0  BY <1>2, <1>7
    <3> QED BY <3>1, <2>3 DEF LeafSound
  <2>6. ASSUME nodes'[p].next # 0, nodes[p].kind = "leaf"
        PROVE  /\ nodes'[p].next \in 1 .. n + 1 /\ nodes'[nodes'[p].next].kind = "leaf"
               /\ lo2[nodes'[p].next] = hi2[p]
    <3>1. CASE p = lastLeaf
      <4>1. nodes'[p].next = n + 1  BY <3>1, <1>7
      <4>2. hi[p] = taken  BY <3>1, <1>1, <1>2 DEF EndsSound, n
      <4>3. n + 1 \in 1 .. n + 1  BY <1>2
      <4>4. nodes'[n + 1].kind = "leaf"  BY <1>7
      <4>5. lo2[n + 1] = hi2[p]  BY <4>2, <2>4, <1>8
      <4> QED BY <4>1, <4>3, <4>4, <4>5
    <3>2. CASE p # lastLeaf
      <4>1. nodes'[p].next = nodes[p].next  BY <3>2, <1>7
      <4>2. /\ nodes[p].next \in 1 .. n /\ nodes[nodes[p].next].kind = "leaf"
            /\ lo[nodes[p].next] = hi[p]
        BY <4>1, <2>3, <2>6 DEF LeafSound, n
      <4> DEFINE q == nodes[p].next
      <4>3. q \in 1 .. n + 1 /\ nodes'[q].kind = "leaf"  BY <4>2, <1>2, <1>7
      <4>4. lo2[q] = hi2[p]  BY <4>2, <2>4, <1>8 DEF Agree
      <4> HIDE DEF q
      <4> QED BY <4>1, <4>3, <4>4 DEF q
    <3> QED BY <3>1, <3>2
  <2>7. n <= Len(nodes')  BY <1>2, <1>7
  <2>8. /\ nodes'[p].kind = nodes[p].kind /\ nodes'[p].keys = nodes[p].keys
        /\ nodes'[p].children = nodes[p].children
    BY <1>7
  <2>9. nodes'[p].next # 0 /\ nodes[p].kind = "leaf" =>
          /\ nodes'[p].next \in 1 .. Len(nodes') /\ nodes'[nodes'[p].next].kind = "leaf"
          /\ lo2[nodes'[p].next] = hi2[p]
    BY <2>6, <1>7
  <2>10. /\ nodes \in Seq(Node) /\ nodes' \in Seq(Node) /\ Len(nodes) <= Len(nodes')
         /\ Agree(Len(nodes), lo, lo2) /\ Agree(Len(nodes), hi, hi2) /\ p \in 1 .. Len(nodes)
    BY <1>2, <1>7, <1>8, <2>7 DEF n
  <2> HIDE DEF NodeSound, Agree
  <2> QED BY <2>1, <2>5, <2>8, <2>9, <2>10, NodeKept
<1>10. NodeSound(nodes', n + 1, lo2, hi2, n + 1)
  <2>1. LeafSound(nodes', n + 1, lo2, hi2, n + 1)  BY <1>7, <1>8 DEF LeafSound
  <2> QED BY <2>1, <1>2, <1>5, <1>7, <1>8 DEF NodeSound
<1>11. NodesSound(nodes', lo2, hi2, lastLeaf')
  <2> SUFFICES ASSUME NEW p \in 1 .. n + 1 PROVE NodeSound(nodes', p, lo2, hi2, n + 1)
    BY <1>4, <1>7 DEF NodesSound, n
  <2>1. p \in 1 .. n \/ p = n + 1  BY <1>2
  <2> QED BY <2>1, <1>9, <1>10
<1>12. FramesSound(Len(nodes'), stack', lo2, hi2, st)
  <2>1. FramesSound(n + 1, stack, lo2, hi2, st)
    <3>1. n + 1 \in Nat /\ n <= n + 1  BY <1>2
    <3> QED BY <3>1, <1>1, <1>2, <1>8, FramesKept DEF n
  <2> QED BY <2>1, <1>4, <1>7
<1>13. EndsSound(nodes, lo2, hi2)'
  <2>1. CASE first = 0
    <3>1. lastLeaf = 0  BY <2>1, <1>1 DEF EndsSound
    <3>2. taken = 0  BY <3>1, <1>1 DEF EndsSound
    <3> QED BY <2>1, <3>2, <1>2, <1>4, <1>7, <1>8 DEF EndsSound, n
  <2>2. CASE first # 0
    <3>1. /\ first \in 1 .. n /\ nodes[first].kind = "leaf" /\ lo[first] = 0
      BY <2>2, <1>1 DEF EndsSound, n
    <3>2. lo2[first] = 0  BY <3>1, <1>8 DEF Agree
    <3> QED BY <2>2, <3>1, <3>2, <1>2, <1>4, <1>7, <1>8 DEF EndsSound
  <2> QED BY <2>1, <2>2
<1>14. Progress(lo2, hi2, st)'
  <2>2. To(stack, st)' = To(stack, st)  BY <1>4 DEF To, EndOf, Boundary
  <2>3. From(stack, st)' = From(stack, st)  BY <1>4 DEF From
  <2>4. result'.pos = n + 1  BY <1>4
  <2> QED BY <2>2, <2>3, <2>4, <1>2, <1>4, <1>5, <1>7, <1>8 DEF Progress
<1>15. BuildTyped'
  <2>1. result' \in [pos : Nat, height : Nat] /\ first' \in Nat /\ lastLeaf' \in Nat
    BY <1>1, <1>2, <1>4 DEF BuildTyped
  <2> QED BY <2>1, <1>1, <1>2, <1>4, <1>7 DEF BuildTyped
<1> QED BY <1>4, <1>8, <1>11, <1>12, <1>13, <1>14, <1>15, InvPrimed

-----------------------------------------------------------------------------
(* A frame is pushed on the stack, or taken off.                            *)

LEMMA FramesPushed ==
  ASSUME NEW n \in Nat, NEW stk \in Seq(Frame), NEW lo \in Spans, NEW hi \in Spans,
         NEW st \in Spans, NEW st2 \in Spans, FramesSound(n, stk, lo, hi, st),
         keys \in KeyLists,
         NEW f \in Frame, FrameSound(n, f, From(stk, st), lo, hi),
         f.size = To(stk, st) - From(stk, st),
         Agree(Len(stk), st, st2), st2[Len(stk) + 1] = From(stk, st)
  PROVE  FramesSound(n, Append(stk, f), lo, hi, st2)
<1> DEFINE k    == Len(stk)
           stk2 == Append(stk, f)
<1>1. /\ k \in Nat /\ stk2 \in Seq(Frame) /\ Len(stk2) = k + 1 /\ stk2 # <<>>
      /\ stk2[k + 1] = f /\ \A i \in 1 .. k : stk2[i] = stk[i]
  OBVIOUS
<1> HIDE DEF stk2
<1>2. ASSUME NEW i \in 1 .. Len(stk2) PROVE FrameSound(n, stk2[i], st2[i], lo, hi)
  <2>1. CASE i \in 1 .. k
    <3>1. st2[i] = st[i] /\ stk2[i] = stk[i]  BY <2>1, <1>1 DEF Agree
    <3> QED BY <3>1, <2>1 DEF FramesSound
  <2>2. CASE i = k + 1
    <3>1. stk2[i] = f /\ st2[i] = From(stk, st)  BY <2>2, <1>1
    <3> QED BY <3>1
  <2> QED BY <2>1, <2>2, <1>1
<1>3. st2[1] = 0 /\ stk2[1].size = Len(keys)
  <2>1. CASE stk = <<>>
    <3>1. k = 0  BY <2>1
    <3>2. keys \in Seq(Words)  BY KeysAssumption
    <3>3. From(stk, st) = 0 /\ To(stk, st) = Len(keys)  BY <2>1 DEF From, To
    <3> QED BY <3>1, <3>2, <3>3, <1>1
  <2>2. CASE stk # <<>>
    <3>1. 1 \in 1 .. k  BY <2>2, <1>1
    <3> QED BY <2>2, <3>1, <1>1 DEF Agree, FramesSound
  <2> QED BY <2>1, <2>2
<1>4. ASSUME NEW i \in 1 .. Len(stk2) - 1
      PROVE  /\ st2[i + 1] = st2[i] + stk2[i].prev
             /\ stk2[i + 1].size = EndOf(stk2[i]) - stk2[i].prev
  <2>1. i \in 1 .. k  BY <1>1
  <2>2. st2[i] = st[i] /\ stk2[i] = stk[i]  BY <2>1, <1>1 DEF Agree
  <2>3. CASE i = k
    <3>1. stk # <<>>  BY <2>1, <1>1
    <3>2. From(stk, st) = st[i] + stk[i].prev /\ To(stk, st) = st[i] + EndOf(stk[i])
      BY <2>3, <3>1 DEF From, To
    <3>3. st2[i + 1] = From(stk, st) /\ stk2[i + 1] = f  BY <2>3, <1>1
    <3>4. stk[i] \in Frame /\ st[i] \in Nat
      <4>1. i \in Nat  BY <2>1
      <4>2. st[i] \in Nat  BY <4>1 DEF Spans
      <4>3. stk[i] \in Frame  BY <2>1
      <4> QED BY <4>2, <4>3
    <3>5. stk[i].prev \in Nat /\ EndOf(stk[i]) \in Nat
      <4>1. FrameSound(n, stk[i], st[i], lo, hi)  BY <2>1 DEF FramesSound
      <4>2. EndOf(stk[i]) \in Nat  BY <3>4, <4>1, ChildFits
      <4> QED BY <3>4, <4>2 DEF Frame
    <3> QED BY <2>2, <3>2, <3>3, <3>4, <3>5
  <2>4. CASE i # k
    <3>1. i \in 1 .. Len(stk) - 1 /\ i + 1 \in 1 .. k  BY <2>1, <2>4, <1>1
    <3>2. st2[i + 1] = st[i + 1] /\ stk2[i + 1] = stk[i + 1]  BY <3>1, <1>1 DEF Agree
    <3> QED BY <2>2, <3>1, <3>2 DEF FramesSound
  <2> QED BY <2>3, <2>4
<1> QED BY <1>2, <1>3, <1>4 DEF FramesSound, stk2

LEMMA FrontOf ==
  ASSUME NEW S, NEW s \in Seq(S), s # <<>>
  PROVE  /\ Len(s) \in Nat /\ Len(s) >= 1
         /\ SubSeq(s, 1, Len(s) - 1) \in Seq(S)
         /\ Len(SubSeq(s, 1, Len(s) - 1)) = Len(s) - 1
         /\ \A i \in 1 .. Len(s) - 1 : SubSeq(s, 1, Len(s) - 1)[i] = s[i]
<1>1. Len(s) \in Nat /\ Len(s) >= 1  OBVIOUS
<1> DEFINE m == Len(s) - 1
<1>2. 1 \in Int /\ m \in Int /\ m >= 0 /\ \A i \in 1 .. m : s[i] \in S  BY <1>1
<1> HIDE DEF m
<1>3. /\ SubSeq(s, 1, m) \in Seq(S)
      /\ Len(SubSeq(s, 1, m)) = IF 1 <= m THEN m - 1 + 1 ELSE 0
      /\ \A i \in 1 .. m - 1 + 1 : SubSeq(s, 1, m)[i] = s[1 + i - 1]
  BY <1>2, SubSeqProperties
<1>4. Len(SubSeq(s, 1, m)) = m  BY <1>2, <1>3
<1>5. \A i \in 1 .. m : SubSeq(s, 1, m)[i] = s[i]
  <2> SUFFICES ASSUME NEW i \in 1 .. m PROVE SubSeq(s, 1, m)[i] = s[i]  OBVIOUS
  <2>1. i \in 1 .. m - 1 + 1 /\ 1 + i - 1 = i  BY <1>2
  <2> QED BY <2>1, <1>3
<1> QED BY <1>1, <1>3, <1>4, <1>5 DEF m

LEMMA FramesPopped ==
  ASSUME NEW n \in Nat, NEW stk \in Seq(Frame), stk # <<>>,
         NEW lo \in Spans, NEW hi \in Spans, NEW st \in Spans,
         FramesSound(n, stk, lo, hi, st), keys \in KeyLists,
         NEW rest \in Seq(Frame), Len(rest) = Len(stk) - 1,
         \A i \in 1 .. Len(stk) - 1 : rest[i] = stk[i]
  PROVE  /\ FramesSound(n, rest, lo, hi, st)
         /\ From(rest, st) = st[Len(stk)]
         /\ To(rest, st) = st[Len(stk)] + stk[Len(stk)].size
<1> DEFINE k == Len(stk)
<1>1. /\ k \in Nat /\ k >= 1 /\ rest \in Seq(Frame) /\ Len(rest) = k - 1
      /\ \A i \in 1 .. k - 1 : rest[i] = stk[i]
  OBVIOUS
<1>2. FramesSound(n, rest, lo, hi, st)
  <2>1. \A i \in 1 .. Len(rest) : FrameSound(n, rest[i], st[i], lo, hi)
    BY <1>1 DEF FramesSound
  <2>2. rest # <<>> => st[1] = 0 /\ rest[1].size = Len(keys)
    BY <1>1 DEF FramesSound
  <2>3. \A i \in 1 .. Len(rest) - 1 :
          /\ st[i + 1] = st[i] + rest[i].prev
          /\ rest[i + 1].size = EndOf(rest[i]) - rest[i].prev
    <3> SUFFICES ASSUME NEW i \in 1 .. Len(rest) - 1
                 PROVE  /\ st[i + 1] = st[i] + rest[i].prev
                        /\ rest[i + 1].size = EndOf(rest[i]) - rest[i].prev
      OBVIOUS
    <3>1. i \in 1 .. Len(stk) - 1 /\ rest[i] = stk[i] /\ rest[i + 1] = stk[i + 1]
      BY <1>1
    <3> QED BY <3>1 DEF FramesSound
  <2> QED BY <2>1, <2>2, <2>3 DEF FramesSound
<1>3. CASE k = 1
  <2>1. rest = <<>>  BY <1>1, <1>3
  <2>2. st[1] = 0 /\ stk[1].size = Len(keys)  BY DEF FramesSound
  <2>3. keys \in Seq(Words)  BY KeysAssumption
  <2> QED BY <1>1, <1>2, <1>3, <2>1, <2>2, <2>3 DEF From, To
<1>4. CASE k # 1
  <2> DEFINE i == k - 1
  <2>1. i \in 1 .. k - 1 /\ i + 1 = k /\ rest # <<>> /\ rest[i] = stk[i]
    <3>1. k >= 2  BY <1>1, <1>4
    <3>2. i \in 1 .. k - 1 /\ i + 1 = k  BY <1>1, <3>1
    <3>3. rest # <<>>
      <4>1. Len(<<>>) = 0  OBVIOUS
      <4>2. Len(rest) # 0  BY <1>1, <3>1
      <4> QED BY <4>1, <4>2, Zenon
    <3> QED BY <3>2, <3>3, <1>1
  <2>2. st[i + 1] = st[i] + stk[i].prev /\ stk[i + 1].size = EndOf(stk[i]) - stk[i].prev
    BY <2>1 DEF FramesSound
  <2>3. stk[i] \in Frame /\ st[i] \in Nat
    <3>1. i \in Nat /\ i \in 1 .. Len(stk)  BY <1>1, <2>1
    <3> HIDE DEF i
    <3>2. st[i] \in Nat  BY <3>1 DEF Spans
    <3>3. stk[i] \in Frame  BY <3>1
    <3> QED BY <3>2, <3>3
  <2>4. stk[i].prev \in Nat /\ EndOf(stk[i]) \in Nat
    <3>1. FrameSound(n, stk[i], st[i], lo, hi)  BY <2>1 DEF FramesSound
    <3>2. EndOf(stk[i]) \in Nat  BY <2>3, <3>1, ChildFits
    <3> QED BY <2>3, <3>2 DEF Frame
  <2>5. From(rest, st) = st[i] + stk[i].prev /\ To(rest, st) = st[i] + EndOf(stk[i])
    BY <1>1, <2>1 DEF From, To
  <2> HIDE DEF i
  <2> QED BY <1>1, <1>2, <2>1, <2>2, <2>3, <2>4, <2>5
<1> QED BY <1>3, <1>4

-----------------------------------------------------------------------------

\* What the invariant says in the middle of the construction.
LEMMA Building ==
  ASSUME NEW lo \in Spans, NEW hi \in Spans, NEW st \in Spans,
         BuildInv(lo, hi, st)
  PROVE  /\ keys \in KeyLists /\ keys \in Seq(Words) /\ Len(keys) \in Nat
         /\ nodes \in Seq(Node) /\ Len(nodes) \in Nat /\ stack \in Seq(Frame)
         /\ todo \in Nat /\ taken \in Nat
         /\ NodesSound(nodes, lo, hi, lastLeaf) /\ EndsSound(nodes, lo, hi)
         /\ FramesSound(Len(nodes), stack, lo, hi, st) /\ Progress(lo, hi, st)
         /\ From(stack, st) \in Nat /\ To(stack, st) \in Nat
         /\ From(stack, st) < To(stack, st) /\ To(stack, st) <= Len(keys)
<1>1. /\ keys \in KeyLists /\ keys \in Seq(Words) /\ Len(keys) \in Nat
      /\ nodes \in Seq(Node) /\ Len(nodes) \in Nat /\ stack \in Seq(Frame)
      /\ todo \in Nat /\ taken \in Nat
      /\ NodesSound(nodes, lo, hi, lastLeaf) /\ EndsSound(nodes, lo, hi)
      /\ FramesSound(Len(nodes), stack, lo, hi, st) /\ Progress(lo, hi, st)
  BY KeysAssumption DEF BuildInv, BuildTyped
<1> QED BY <1>1, CallFits

LEMMA OpenNodeInv ==
  ASSUME NEW lo \in Spans, NEW hi \in Spans, NEW st \in Spans,
         BuildInv(lo, hi, st), OpenNode
  PROVE  IndexInv'
<1> DEFINE n == Len(nodes)
           k == Len(stack)
           f == [size |-> todo, prev |-> 0, children |-> <<>>, seps |-> <<>>, height |-> 0]
<1>1. /\ keys \in KeyLists /\ keys \in Seq(Words) /\ Len(keys) \in Nat
      /\ nodes \in Seq(Node) /\ n \in Nat /\ stack \in Seq(Frame) /\ k \in Nat
      /\ todo \in Nat /\ taken \in Nat
      /\ NodesSound(nodes, lo, hi, lastLeaf) /\ EndsSound(nodes, lo, hi)
      /\ FramesSound(n, stack, lo, hi, st) /\ Progress(lo, hi, st)
      /\ From(stack, st) \in Nat /\ To(stack, st) \in Nat
      /\ From(stack, st) < To(stack, st) /\ To(stack, st) <= Len(keys)
  BY Building
<1>2. /\ phase = "call" /\ phase' = "call" /\ todo > M /\ todo' = Boundary(todo, 1)
      /\ stack' = Append(stack, f) /\ taken' = taken
      /\ UNCHANGED <<keys, nodes, root, first, height, result, lastLeaf>>
  BY DEF OpenNode, M
<1>3. taken = From(stack, st) /\ todo = To(stack, st) - From(stack, st)
  BY <1>1, <1>2 DEF Progress
<1>4. M \in Nat \ {0}  BY IndexAssumption DEF M
<1>5. Boundary(todo, 0) = 0 /\ Boundary(todo, 1) \in Nat
  <2>1. 0 \in 0 .. M /\ 1 \in 0 .. M  BY <1>4
  <2> QED BY <1>1, <1>2, <2>1, BoundaryGrows
<1>6. f \in Frame  BY <1>1 DEF Frame
<1>7. FrameSound(n, f, taken, lo, hi)
  <2>1. /\ f.size = todo /\ f.prev = 0 /\ f.children = <<>> /\ f.seps = <<>>
        /\ Len(f.children) = 0 /\ Len(f.seps) = 0
    OBVIOUS
  <2>2. Row(f.children, f.seps, taken, taken + 0, lo, hi)
    BY <2>1, <1>1 DEF Row
  <2>3. taken + todo <= Len(keys)  BY <1>1, <1>3
  <2> HIDE DEF f
  <2> QED BY <2>1, <2>2, <2>3, <1>2, <1>4, <1>5 DEF FrameSound
<1>8. PICK st2 \in Spans : st2[k + 1] = taken /\ Agree(k, st, st2)
  BY <1>1, Extended
<1>9. FramesSound(Len(nodes'), stack', lo, hi, st2)
  <2>1. f.size = To(stack, st) - From(stack, st)  BY <1>3
  <2> HIDE DEF f
  <2>2. FramesSound(n, Append(stack, f), lo, hi, st2)
    BY <1>1, <1>3, <1>6, <1>7, <1>8, <2>1, FramesPushed
  <2> QED BY <2>2, <1>2
<1>10. NodesSound(nodes', lo, hi, lastLeaf')  BY <1>1, <1>2
<1>11. EndsSound(nodes, lo, hi)'  BY <1>1, <1>2 DEF EndsSound
<1>12. Progress(lo, hi, st2)'
  <2>1. stack' # <<>> /\ Len(stack') = k + 1 /\ stack'[k + 1] = f  BY <1>1, <1>2, <1>6
  <2>2. f.prev = 0 /\ Len(f.children) = 0 /\ f.size = todo  OBVIOUS
  <2> HIDE DEF f
  <2>3. From(stack, st2)' = taken  BY <2>1, <2>2, <1>1, <1>8 DEF From
  <2>5. To(stack, st2)' = taken + Boundary(todo, 1)
    BY <2>1, <2>2, <1>4, <1>8 DEF To, EndOf, Boundary, M
  <2> QED BY <2>3, <2>5, <1>1, <1>2, <1>5 DEF Progress
<1>13. BuildTyped'
  <2>1. stack' \in Seq(Frame)  BY <1>1, <1>2, <1>6
  <2>2. BuildTyped  BY DEF BuildInv
  <2> QED BY <2>1, <2>2, <1>1, <1>2, <1>5 DEF BuildTyped
<1> QED BY <1>2, <1>9, <1>10, <1>11, <1>12, <1>13, InvPrimed

\* The frame on top when the call for its next child has returned.
LEMMA TopReturned ==
  ASSUME NEW lo \in Spans, NEW hi \in Spans, NEW st \in Spans,
         BuildInv(lo, hi, st), phase = "return", stack # <<>>
  PROVE  /\ Len(stack) \in 1 .. Len(stack) /\ Top \in Frame
         /\ st[Len(stack)] \in Nat
         /\ FrameSound(Len(nodes), Top, st[Len(stack)], lo, hi)
         /\ EndOf(Top) \in Nat
         /\ taken = st[Len(stack)] + EndOf(Top)
         /\ result.pos \in 1 .. Len(nodes)
         /\ lo[result.pos] = st[Len(stack)] + Top.prev
         /\ hi[result.pos] = st[Len(stack)] + EndOf(Top)
         /\ Pop \in Seq(Frame) /\ Len(Pop) = Len(stack) - 1
         /\ FramesSound(Len(nodes), Pop, lo, hi, st)
         /\ From(Pop, st) = st[Len(stack)]
         /\ To(Pop, st) = st[Len(stack)] + Top.size
<1> DEFINE k == Len(stack)
<1>1. /\ keys \in KeyLists /\ stack \in Seq(Frame) /\ Len(nodes) \in Nat
      /\ FramesSound(Len(nodes), stack, lo, hi, st) /\ Progress(lo, hi, st)
  BY Building
<1>2. k \in 1 .. Len(stack) /\ k \in Nat  BY <1>1
<1>3. Top \in Frame  BY <1>1, <1>2 DEF Top
<1>4. st[k] \in Nat  BY <1>2 DEF Spans
<1>5. FrameSound(Len(nodes), Top, st[k], lo, hi)  BY <1>1, <1>2 DEF FramesSound, Top
<1>6. EndOf(Top) \in Nat  BY <1>1, <1>3, <1>4, <1>5, ChildFits
<1>7. From(stack, st) = st[k] + Top.prev /\ To(stack, st) = st[k] + EndOf(Top)
  BY DEF From, To, Top
<1>8. /\ Pop \in Seq(Frame) /\ Len(Pop) = k - 1
      /\ \A i \in 1 .. k - 1 : Pop[i] = stack[i]
  BY <1>1, FrontOf DEF Pop
<1>9. /\ FramesSound(Len(nodes), Pop, lo, hi, st)
      /\ From(Pop, st) = st[k] /\ To(Pop, st) = st[k] + stack[k].size
  BY <1>1, <1>8, FramesPopped
<1> QED BY <1>1, <1>2, <1>3, <1>4, <1>5, <1>6, <1>7, <1>8, <1>9 DEF Progress, Top

\* The children of a frame have keys below them.
LEMMA ChildrenNotEmpty ==
  ASSUME NEW ns, NEW lo, NEW hi, NEW last, NodesSound(ns, lo, hi, last),
         NEW cs, \A i \in 1 .. Len(cs) : cs[i] \in 1 .. Len(ns)
  PROVE  \A i \in 1 .. Len(cs) : lo[cs[i]] < hi[cs[i]]
BY DEF NodesSound, NodeSound

LEMMA NextChildInv ==
  ASSUME NEW lo \in Spans, NEW hi \in Spans, NEW st \in Spans,
         BuildInv(lo, hi, st), NextChild
  PROVE  IndexInv'
<1> DEFINE n == Len(nodes)
           k == Len(stack)
           s == st[k]
           c == result.pos
           f == WithChild(Top)
<1>1. /\ keys \in KeyLists /\ keys \in Seq(Words) /\ Len(keys) \in Nat
      /\ nodes \in Seq(Node) /\ n \in Nat /\ stack \in Seq(Frame)
      /\ NodesSound(nodes, lo, hi, lastLeaf) /\ EndsSound(nodes, lo, hi)
      /\ To(stack, st) \in Nat /\ From(stack, st) < To(stack, st)
      /\ To(stack, st) <= Len(keys) /\ From(stack, st) \in Nat
      /\ taken \in Nat
  BY Building
<1>2. /\ phase = "return" /\ stack # <<>> /\ phase' = "call"
      /\ Len(Top.children) < M /\ stack' = Append(Pop, f)
      /\ todo' = (IF Len(f.children) < M THEN Boundary(f.size, Len(f.children) + 1) - f.prev
                                         ELSE f.size - f.prev)
      /\ UNCHANGED <<keys, nodes, root, first, height, taken, result, lastLeaf>>
  BY DEF NextChild, M
<1>3. /\ k \in 1 .. Len(stack) /\ Top \in Frame /\ s \in Nat
      /\ FrameSound(n, Top, s, lo, hi) /\ EndOf(Top) \in Nat
      /\ taken = s + EndOf(Top) /\ c \in 1 .. n
      /\ lo[c] = s + Top.prev /\ hi[c] = s + EndOf(Top)
      /\ Pop \in Seq(Frame) /\ Len(Pop) = k - 1
      /\ FramesSound(n, Pop, lo, hi, st)
      /\ From(Pop, st) = s /\ To(Pop, st) = s + Top.size
  BY <1>2, TopReturned
<1>4. M \in Nat \ {0}  BY IndexAssumption DEF M
<1> DEFINE cs   == Top.children
           seps == Top.seps
           x    == Len(cs)
<1>5. /\ cs \in Seq(Nat) /\ seps \in Seq(Words) /\ x \in Nat /\ Len(seps) = x
      /\ Top.size \in Nat /\ Top.prev \in Nat /\ Top.size > M /\ s + Top.size <= Len(keys)
      /\ Row(cs, seps, s, s + Top.prev, lo, hi)
      /\ \A i \in 1 .. x : cs[i] \in 1 .. n
  BY <1>3 DEF Frame, FrameSound
<1>6. EndOf(Top) = Boundary(Top.size, x + 1)  BY <1>2 DEF EndOf
<1>7. hi[c] = taken /\ taken \in 1 .. Len(keys) /\ c \in Nat
  <2>1. NodeSound(nodes, c, lo, hi, lastLeaf)  BY <1>1, <1>3 DEF NodesSound
  <2>2. c \in Nat  BY <1>3
  <2>3. lo[c] \in Nat /\ lo[c] < hi[c] /\ hi[c] <= Len(keys)
    BY <2>1, <2>2 DEF NodeSound, Spans
  <2> QED BY <2>2, <2>3, <1>1, <1>3
<1>8. Peek = keys[hi[c]] /\ Peek \in Words  BY <1>1, <1>7 DEF Peek
<1>9. /\ f.size = Top.size /\ f.children = Append(cs, c) /\ f.seps = Append(seps, Peek)
      /\ f.prev = Boundary(Top.size, x + 1)
      /\ f.height = Tallest(Top.height, result.height)
  BY <1>3 DEF WithChild, Frame
<1>10. f \in Frame
  <2>1. result \in [pos : Nat, height : Nat]  BY DEF BuildInv, BuildTyped
  <2>2. Tallest(Top.height, result.height) \in Nat  BY <2>1, <1>3 DEF Tallest, Frame
  <2>3. Append(cs, c) \in Seq(Nat) /\ Append(seps, Peek) \in Seq(Words)
    BY <1>5, <1>7, <1>8
  <2>4. Boundary(Top.size, x + 1) \in Nat  BY <1>3, <1>6
  <2> QED BY <2>2, <2>3, <2>4, <1>3 DEF WithChild, Frame
<1>11. Row(f.children, f.seps, s, s + f.prev, lo, hi)
  <2>1. \A i \in 1 .. x : lo[cs[i]] < hi[cs[i]]  BY <1>1, <1>5, ChildrenNotEmpty
  <2> DEFINE b == s + Top.prev
  <2>2. b \in Nat /\ lo[c] = b /\ Row(cs, seps, s, b, lo, hi)
    <3>1. lo[c] = b /\ Row(cs, seps, s, b, lo, hi)  BY <1>3, <1>5
    <3>2. s \in Nat /\ Top.prev \in Nat  BY <1>3, <1>5
    <3> HIDE DEF s
    <3>3. b \in Nat  BY <3>2
    <3> QED BY <3>1, <3>3
  <2> HIDE DEF cs, seps, b, c, s
  <2>3. Len(seps) \in Nat /\ Len(seps) <= Len(cs)
    <3>1. Len(seps) = x /\ Len(cs) = x /\ x \in Nat  BY <1>5
    <3> QED BY <3>1
  <2>4. s \in Nat  BY <1>3
  <2>5. Row(Append(cs, c), seps, s, hi[c], lo, hi)
    BY <2>1, <2>2, <2>3, <2>4, <1>1, <1>5, <1>7, RowAppended
  <2>6. Row(Append(cs, c), Append(seps, Peek), s, hi[c], lo, hi)
    BY <2>5, <1>5, <1>7, <1>8, SeparatorAppended
  <2>7. hi[c] = s + f.prev  BY <1>3, <1>6, <1>9
  <2> QED BY <2>6, <2>7, <1>9
<1>12. Len(f.children) = x + 1 /\ Len(f.seps) = x + 1
       /\ \A i \in 1 .. x + 1 : f.children[i] \in 1 .. n
  <2> HIDE DEF cs, seps, c, f
  <2>1. Len(Append(cs, c)) = x + 1 /\ Len(Append(seps, Peek)) = x + 1
    BY <1>5
  <2>2. \A i \in 1 .. x + 1 : Append(cs, c)[i] = IF i = x + 1 THEN c ELSE cs[i]
    BY <1>5
  <2>3. ASSUME NEW i \in 1 .. x + 1 PROVE Append(cs, c)[i] \in 1 .. n
    <3>1. CASE i = x + 1  BY <3>1, <2>2, <1>3
    <3>2. CASE i # x + 1
      <4>1. i \in 1 .. x  BY <3>2, <1>5
      <4> QED BY <4>1, <3>2, <2>2, <1>5
    <3> QED BY <3>1, <3>2
  <2> QED BY <2>1, <2>3, <1>9
<1>13. FrameSound(n, f, s, lo, hi)
  <2> HIDE DEF f, s
  <2>1. x + 1 <= M  BY <1>2, <1>4, <1>5
  <2> QED BY <2>1, <1>5, <1>9, <1>11, <1>12 DEF FrameSound
<1>14. FramesSound(n, stack', lo, hi, st)
  <2>1. f.size = To(Pop, st) - From(Pop, st)
    <3>1. f.size = Top.size /\ Top.size \in Nat  BY <1>5, <1>9
    <3>2. From(Pop, st) = s /\ To(Pop, st) = s + Top.size /\ s \in Nat  BY <1>3
    <3> HIDE DEF f, s
    <3> QED BY <3>1, <3>2
  <2>2. Agree(Len(Pop), st, st) /\ st[Len(Pop) + 1] = From(Pop, st)
    BY <1>3 DEF Agree
  <2>3. FrameSound(n, f, From(Pop, st), lo, hi)  BY <1>3, <1>13
  <2> HIDE DEF f, s
  <2>4. FramesSound(n, Append(Pop, f), lo, hi, st)
    BY <2>1, <2>2, <2>3, <1>1, <1>3, <1>10, FramesPushed
  <2> QED BY <2>4, <1>2
<1>15. FramesSound(Len(nodes'), stack', lo, hi, st)  BY <1>2, <1>14
<1>16. EndOf(f) \in Nat /\ f.prev < EndOf(f)  BY <1>1, <1>3, <1>10, <1>13, ChildFits
<1>17. /\ stack' \in Seq(Frame) /\ stack' # <<>> /\ Len(stack') = k /\ stack'[k] = f
       /\ todo' = EndOf(f) - f.prev
  <2> HIDE DEF f
  <2>1. /\ Append(Pop, f) \in Seq(Frame) /\ Append(Pop, f) # <<>>
        /\ Len(Append(Pop, f)) = Len(Pop) + 1 /\ Append(Pop, f)[Len(Pop) + 1] = f
    BY <1>3, <1>10
  <2>2. Len(Pop) + 1 = k  BY <1>1, <1>3
  <2> QED BY <2>1, <2>2, <1>2 DEF EndOf
<1>18. Progress(lo, hi, st)'
  <2> HIDE DEF f
  <2>1. From(stack, st)' = s + f.prev  BY <1>17 DEF From
  <2>2. To(stack, st)' = s + EndOf(f)
    BY <1>17 DEF To, EndOf, Boundary
  <2>3. taken' = s + f.prev  BY <1>2, <1>3, <1>6, <1>9
  <2>4. f.prev \in Nat  BY <1>10 DEF Frame
  <2>5. To(stack, st)' - From(stack, st)' = EndOf(f) - f.prev
    BY <2>1, <2>2, <2>4, <1>3, <1>16
  <2> QED BY <2>1, <2>3, <2>5, <1>2, <1>17 DEF Progress
<1>19. BuildTyped'
  <2>1. todo' \in Nat
    <3>1. f.prev \in Nat  BY <1>10 DEF Frame
    <3> QED BY <3>1, <1>16, <1>17
  <2>2. BuildTyped  BY DEF BuildInv
  <2> QED BY <2>1, <2>2, <1>2, <1>17 DEF BuildTyped
<1>20. NodesSound(nodes', lo, hi, lastLeaf')  BY <1>1, <1>2
<1>21. EndsSound(nodes, lo, hi)'  BY <1>1, <1>2 DEF EndsSound
<1> QED BY <1>2, <1>15, <1>18, <1>19, <1>20, <1>21, InvPrimed

\* Nodes stay as they are when one is appended.
LEMMA NodesAppended ==
  ASSUME NEW ns \in Seq(Node), NEW nd \in Node, NEW last,
         NEW lo \in Spans, NEW hi \in Spans, NEW lo2 \in Spans, NEW hi2 \in Spans,
         Agree(Len(ns), lo, lo2), Agree(Len(ns), hi, hi2),
         NodesSound(ns, lo, hi, last),
         NodeSound(Append(ns, nd), Len(ns) + 1, lo2, hi2, last)
  PROVE  NodesSound(Append(ns, nd), lo2, hi2, last)
<1> DEFINE n  == Len(ns)
           ms == Append(ns, nd)
<1>1. /\ n \in Nat /\ ms \in Seq(Node) /\ Len(ms) = n + 1
      /\ \A p \in 1 .. n : ms[p] = ns[p]
  OBVIOUS
<1> HIDE DEF ms
<1>2. ASSUME NEW p \in 1 .. n PROVE NodeSound(ms, p, lo2, hi2, last)
  <2>1. NodeSound(ns, p, lo, hi, last)  BY DEF NodesSound
  <2>2. ms[p] = ns[p] /\ Len(ns) <= Len(ms)  BY <1>1
  <2>3. ns[p].kind = "leaf" => LeafSound(ns, p, lo, hi, last)  BY <2>1 DEF NodeSound
  <2>4. ms[p].next = 0 /\ ns[p].kind = "leaf" => p = last
    BY <2>2, <2>3 DEF LeafSound
  <2>5. ms[p].next # 0 /\ ns[p].kind = "leaf" =>
          /\ ms[p].next \in 1 .. Len(ms) /\ ms[ms[p].next].kind = "leaf"
          /\ lo2[ms[p].next] = hi2[p]
    <3> SUFFICES ASSUME ms[p].next # 0, ns[p].kind = "leaf"
                 PROVE  /\ ms[p].next \in 1 .. Len(ms) /\ ms[ms[p].next].kind = "leaf"
                        /\ lo2[ms[p].next] = hi2[p]
      OBVIOUS
    <3> DEFINE q == ns[p].next
    <3>1. q \in 1 .. n /\ ns[q].kind = "leaf" /\ lo[q] = hi[p]
      BY <2>2, <2>3 DEF LeafSound
    <3>2. lo2[q] = lo[q] /\ hi2[p] = hi[p]  BY <3>1 DEF Agree
    <3>3. ms[q] = ns[q] /\ q \in 1 .. Len(ms)  BY <3>1, <1>1
    <3>4. ms[p].next = q  BY <2>2
    <3> HIDE DEF q
    <3> QED BY <3>1, <3>2, <3>3, <3>4
  <2> QED BY <1>1, <2>1, <2>2, <2>4, <2>5, NodeKept
<1> SUFFICES ASSUME NEW p \in 1 .. n + 1 PROVE NodeSound(ms, p, lo2, hi2, last)
  BY <1>1 DEF NodesSound, ms
<1>3. p \in 1 .. n \/ p = n + 1  BY <1>1
<1> QED BY <1>2, <1>3 DEF ms

LEMMA CloseNodeInv ==
  ASSUME NEW lo \in Spans, NEW hi \in Spans, NEW st \in Spans,
         BuildInv(lo, hi, st), CloseNode
  PROVE  IndexInv'
<1> DEFINE n    == Len(nodes)
           s    == st[Len(stack)]
           c    == result.pos
           cs   == Top.children
           seps == Top.seps
           e    == s + Top.size
           nd   == InnerNode(Append(cs, c), seps)
<1>1. /\ keys \in KeyLists /\ keys \in Seq(Words) /\ Len(keys) \in Nat
      /\ nodes \in Seq(Node) /\ n \in Nat /\ stack \in Seq(Frame)
      /\ NodesSound(nodes, lo, hi, lastLeaf) /\ EndsSound(nodes, lo, hi)
      /\ taken \in Nat
  BY Building
<1>2. /\ phase = "return" /\ stack # <<>> /\ phase' = "return"
      /\ Len(Top.children) = M /\ stack' = Pop
      /\ nodes' = Append(nodes, nd)
      /\ result' = [pos |-> n + 1, height |-> Tallest(Top.height, result.height) + 1]
      /\ UNCHANGED <<keys, root, first, height, todo, taken, lastLeaf>>
  BY DEF CloseNode, M
<1>3. /\ Top \in Frame /\ s \in Nat
      /\ FrameSound(n, Top, s, lo, hi)
      /\ taken = s + EndOf(Top) /\ c \in 1 .. n
      /\ lo[c] = s + Top.prev /\ hi[c] = s + EndOf(Top)
      /\ Pop \in Seq(Frame)
      /\ FramesSound(n, Pop, lo, hi, st)
      /\ From(Pop, st) = s /\ To(Pop, st) = e
  BY <1>2, TopReturned
<1>4. M \in Nat \ {0}  BY IndexAssumption DEF M
<1>5. EndOf(Top) = Top.size  BY <1>2, <1>4 DEF EndOf
<1>6. /\ cs \in Seq(Nat) /\ seps \in Seq(Words) /\ Len(cs) = M /\ Len(seps) = M
      /\ Top.size \in Nat /\ Top.prev \in Nat /\ Top.size > M /\ e <= Len(keys)
      /\ Row(cs, seps, s, s + Top.prev, lo, hi)
      /\ \A i \in 1 .. M : cs[i] \in 1 .. n
  BY <1>2, <1>3 DEF Frame, FrameSound
<1>7. c \in Nat /\ e \in Nat /\ s < e /\ taken = e /\ hi[c] = e
  <2>1. taken = e /\ hi[c] = e  BY <1>3, <1>5
  <2>2. c \in Nat /\ e \in Nat  BY <1>1, <1>3, <1>6
  <2>3. Top.size > 0  BY <1>4, <1>6
  <2>4. s < e  BY <1>3, <1>6, <2>3
  <2> QED BY <2>1, <2>2, <2>4
<1>8. PICK lo2 \in Spans, hi2 \in Spans :
        /\ lo2[n + 1] = s /\ hi2[n + 1] = e
        /\ Agree(n, lo, lo2) /\ Agree(n, hi, hi2)
  <2>1. \E lo2 \in Spans : lo2[n + 1] = s /\ Agree(n, lo, lo2)
    BY <1>1, <1>3, Extended
  <2> HIDE DEF e
  <2>2. \E hi2 \in Spans : hi2[n + 1] = e /\ Agree(n, hi, hi2)
    BY <1>1, <1>7, Extended
  <2> QED BY <2>1, <2>2
<1> DEFINE ds == Append(cs, c)
<1>9. /\ ds \in Seq(Nat) /\ Len(ds) = M + 1 /\ \A i \in 1 .. M + 1 : ds[i] \in 1 .. n
  <2> HIDE DEF cs, c
  <2>1. /\ Append(cs, c) \in Seq(Nat) /\ Len(Append(cs, c)) = M + 1
        /\ \A i \in 1 .. M + 1 : Append(cs, c)[i] = IF i = M + 1 THEN c ELSE cs[i]
    BY <1>6, <1>7, <1>4
  <2>2. ASSUME NEW i \in 1 .. M + 1 PROVE Append(cs, c)[i] \in 1 .. n
    <3>1. CASE i = M + 1  BY <3>1, <2>1, <1>3
    <3>2. CASE i # M + 1
      <4>1. i \in 1 .. M  BY <3>2, <1>4
      <4> QED BY <4>1, <3>2, <2>1, <1>6
    <3> QED BY <3>1, <3>2
  <2> QED BY <2>1, <2>2
<1>10. Row(ds, seps, s, e, lo2, hi2)
  <2>1. \A i \in 1 .. Len(cs) : lo[cs[i]] < hi[cs[i]]
    BY <1>1, <1>6, ChildrenNotEmpty
  <2> DEFINE b == s + Top.prev
  <2>2. b \in Nat /\ lo[c] = b /\ Row(cs, seps, s, b, lo, hi)  BY <1>3, <1>6
  <2>3. Len(seps) \in Nat /\ Len(seps) <= Len(cs) /\ Len(seps) <= Len(ds)
    BY <1>4, <1>6, <1>9
  <2> HIDE DEF cs, seps, b, c, s, e
  <2>4. s \in Nat  BY <1>3
  <2>5. Row(ds, seps, s, hi[c], lo, hi)
    BY <2>1, <2>2, <2>3, <2>4, <1>1, <1>6, <1>7, RowAppended
  <2> HIDE DEF ds
  <2>6. Row(ds, seps, s, e, lo, hi)  BY <2>5, <1>7
  <2>7. \A i \in 1 .. Len(ds) : ds[i] \in 1 .. n  BY <1>9
  <2> QED BY <2>3, <2>6, <2>7, <1>1, <1>8, <1>9, RowKept
<1>11. nd \in Node /\ nd.kind = "inner" /\ nd.children = ds /\ nd.keys = seps
  <2> HIDE DEF cs, seps, c
  <2>1. Append(cs, c) \in Seq(Nat)  BY <1>9
  <2> QED BY <2>1, <1>6 DEF InnerNode, Node
<1> HIDE DEF nd, ds
<1>12. NodesSound(Append(nodes, nd), lo2, hi2, lastLeaf)
  <2>1. Append(nodes, nd)[n + 1] = nd  BY <1>1, <1>11
  <2>2. InnerSound(Append(nodes, nd), n + 1, lo2, hi2)
    <3>1. 1 .. n = 1 .. (n + 1) - 1  BY <1>1
    <3>2. \A i \in 1 .. M + 1 : ds[i] \in 1 .. (n + 1) - 1  BY <3>1, <1>9
    <3> HIDE DEF cs, seps, c, s, e
    <3> QED BY <2>1, <3>2, <1>6, <1>8, <1>9, <1>10, <1>11 DEF InnerSound
  <2>3. NodeSound(Append(nodes, nd), n + 1, lo2, hi2, lastLeaf)
    BY <2>1, <2>2, <1>6, <1>7, <1>8, <1>11 DEF NodeSound
  <2> QED BY <2>3, <1>1, <1>8, <1>11, NodesAppended
<1>13. NodesSound(nodes', lo2, hi2, lastLeaf')  BY <1>2, <1>12
<1>14. /\ nodes' \in Seq(Node) /\ Len(nodes') = n + 1
       /\ \A p \in 1 .. n : nodes'[p] = nodes[p]
  BY <1>1, <1>2, <1>11
<1>15. FramesSound(Len(nodes'), stack', lo2, hi2, st)
  <2>1. n <= n + 1 /\ n + 1 \in Nat  BY <1>1
  <2>2. FramesSound(n + 1, Pop, lo2, hi2, st)
    BY <2>1, <1>1, <1>3, <1>8, FramesKept
  <2> QED BY <2>2, <1>2, <1>14
<1>16. EndsSound(nodes, lo2, hi2)'
  <2>1. lastLeaf = 0 => taken = 0 /\ first = 0  BY <1>1 DEF EndsSound
  <2>2. ASSUME lastLeaf # 0
        PROVE  /\ lastLeaf \in 1 .. n + 1 /\ nodes'[lastLeaf].kind = "leaf"
               /\ hi2[lastLeaf] = taken
               /\ first \in 1 .. n + 1 /\ nodes'[first].kind = "leaf" /\ lo2[first] = 0
    <3>1. /\ lastLeaf \in 1 .. n /\ nodes[lastLeaf].kind = "leaf" /\ hi[lastLeaf] = taken
          /\ first \in 1 .. n /\ nodes[first].kind = "leaf" /\ lo[first] = 0
      BY <2>2, <1>1 DEF EndsSound
    <3>2. hi2[lastLeaf] = hi[lastLeaf] /\ lo2[first] = lo[first]
      BY <3>1, <1>8 DEF Agree
    <3>3. nodes'[lastLeaf] = nodes[lastLeaf] /\ nodes'[first] = nodes[first]
      BY <3>1, <1>14
    <3>4. lastLeaf \in 1 .. n + 1 /\ first \in 1 .. n + 1  BY <3>1, <1>1
    <3> QED BY <3>1, <3>2, <3>3, <3>4
  <2> QED BY <2>1, <2>2, <1>2, <1>14 DEF EndsSound
<1>17. Progress(lo2, hi2, st)'
  <2>1. From(stack, st)' = s  BY <1>2, <1>3 DEF From
  <2>2. To(stack, st)' = e
    BY <1>2, <1>3 DEF To, EndOf, Boundary
  <2>3. result'.pos = n + 1  BY <1>2
  <2> HIDE DEF s, e
  <2> QED BY <2>1, <2>2, <2>3, <1>1, <1>2, <1>7, <1>8, <1>14 DEF Progress
<1>18. BuildTyped'
  <2>1. BuildTyped  BY DEF BuildInv
  <2>2. Tallest(Top.height, result.height) \in Nat
    BY <2>1, <1>3 DEF BuildTyped, Tallest, Frame
  <2>3. result' \in [pos : Nat, height : Nat]  BY <2>2, <1>1, <1>2
  <2>4. stack' \in Seq(Frame)  BY <1>2, <1>3
  <2> QED BY <2>1, <2>3, <2>4, <1>2, <1>14 DEF BuildTyped
<1> QED BY <1>2, <1>8, <1>13, <1>15, <1>16, <1>17, <1>18, InvPrimed

LEMMA BuildDoneInv ==
  ASSUME NEW lo \in Spans, NEW hi \in Spans, NEW st \in Spans,
         BuildInv(lo, hi, st), BuildDone
  PROVE  IndexInv'
<1>1. /\ phase = "return" /\ phase' = "built" /\ stack = <<>>
      /\ root' = result.pos /\ height' = result.height
      /\ UNCHANGED <<keys, nodes, first, todo, taken, stack, result, lastLeaf>>
  BY DEF BuildDone
<1>2. /\ BuildTyped /\ NodesSound(nodes, lo, hi, lastLeaf) /\ EndsSound(nodes, lo, hi)
      /\ FramesSound(Len(nodes), stack, lo, hi, st) /\ Progress(lo, hi, st)
  BY DEF BuildInv
<1>3. From(stack, st) = 0 /\ To(stack, st) = Len(keys)  BY <1>1 DEF From, To
<1>4. Progress(lo, hi, st)'  BY <1>1, <1>2, <1>3 DEF Progress
<1>5. BuildTyped'  BY <1>1, <1>2 DEF BuildTyped
<1>6. EndsSound(nodes, lo, hi)'  BY <1>1, <1>2 DEF EndsSound
<1>7. FramesSound(Len(nodes'), stack', lo, hi, st) /\ NodesSound(nodes', lo, hi, lastLeaf')
  BY <1>1, <1>2
<1> QED BY <1>1, <1>4, <1>5, <1>6, <1>7, InvPrimed

\* A build that failed keeps what it wrote.
LEMMA BuildFailsInv ==
  ASSUME NEW lo \in Spans, NEW hi \in Spans, NEW st \in Spans,
         BuildInv(lo, hi, st), BuildFails
  PROVE  IndexInv'
<1>1. /\ phase' = "failed"
      /\ UNCHANGED <<keys, nodes, root, first, height, todo, taken, stack, result, lastLeaf>>
  BY DEF BuildFails
<1>2. /\ BuildTyped /\ NodesSound(nodes, lo, hi, lastLeaf) /\ EndsSound(nodes, lo, hi)
      /\ FramesSound(Len(nodes), stack, lo, hi, st)
  BY DEF BuildInv
<1>3. Progress(lo, hi, st)'  BY <1>1 DEF Progress
<1>4. BuildTyped'  BY <1>1, <1>2 DEF BuildTyped
<1>5. EndsSound(nodes, lo, hi)'  BY <1>1, <1>2 DEF EndsSound
<1>6. FramesSound(Len(nodes'), stack', lo, hi, st) /\ NodesSound(nodes', lo, hi, lastLeaf')
  BY <1>1, <1>2
<1> QED BY <1>1, <1>3, <1>4, <1>5, <1>6, InvPrimed

LEMMA IndexInvInit == Init => IndexInv
<1> SUFFICES ASSUME Init PROVE IndexInv  OBVIOUS
<1>1. /\ keys \in KeyLists /\ nodes = <<>> /\ phase = "call" /\ root = 0 /\ first = 0
      /\ height = 0 /\ todo = Len(keys) /\ taken = 0 /\ stack = <<>>
      /\ result = [pos |-> 0, height |-> 0] /\ lastLeaf = 0
  BY DEF Init, BuildInit
<1>2. keys \in Seq(Words) /\ Len(keys) \in Nat  BY <1>1, KeysAssumption
<1> DEFINE z == [p \in Nat |-> 0]
<1>3. z \in Spans  BY DEF Spans
<1>4. Len(nodes) = 0 /\ Len(stack) = 0  BY <1>1
<1>5. NodesSound(nodes, z, z, lastLeaf)  BY <1>4 DEF NodesSound
<1>6. EndsSound(nodes, z, z)  BY <1>1 DEF EndsSound
<1>7. FramesSound(Len(nodes), stack, z, z, z)  BY <1>1, <1>4 DEF FramesSound
<1>8. Progress(z, z, z)
  <2>1. From(stack, z) = 0 /\ To(stack, z) = Len(keys)  BY <1>1 DEF From, To
  <2> QED BY <2>1, <1>1, <1>2 DEF Progress
<1>9. BuildTyped
  <2>1. nodes \in Seq(Node) /\ stack \in Seq(Frame)  BY <1>1
  <2> QED BY <2>1, <1>1, <1>2 DEF BuildTyped
<1> HIDE DEF z
<1>10. BuildInv(z, z, z)  BY <1>3, <1>5, <1>6, <1>7, <1>8, <1>9 DEF BuildInv
<1> QED BY <1>3, <1>10 DEF IndexInv

LEMMA BuildKept ==
  ASSUME NEW lo \in Spans, NEW hi \in Spans, NEW st \in Spans,
         BuildInv(lo, hi, st), UNCHANGED buildVars
  PROVE  BuildInv(lo, hi, st)' /\ IndexInv'
<1>1. /\ BuildTyped /\ NodesSound(nodes, lo, hi, lastLeaf) /\ EndsSound(nodes, lo, hi)
      /\ FramesSound(Len(nodes), stack, lo, hi, st) /\ Progress(lo, hi, st)
  BY DEF BuildInv
<1>2. UNCHANGED <<keys, nodes, phase, root, first, height,
                  todo, taken, stack, result, lastLeaf>>
  BY DEF buildVars
<1>3. Progress(lo, hi, st)'
  BY <1>1, <1>2 DEF Progress, From, To, EndOf, Boundary
<1>4. BuildTyped'  BY <1>1, <1>2 DEF BuildTyped
<1>5. EndsSound(nodes, lo, hi)'  BY <1>1, <1>2 DEF EndsSound
<1>6. FramesSound(Len(nodes'), stack', lo, hi, st) /\ NodesSound(nodes', lo, hi, lastLeaf')
  BY <1>1, <1>2
<1> QED BY <1>2, <1>3, <1>4, <1>5, <1>6, InvPrimed

LEMMA ReadsOnly == ReadStep => UNCHANGED buildVars
BY DEF ReadStep, ReadNext, CallNext, DbOpen, DbClose, StartLookup, StartPrefix, Start,
       Descend, SearchLeaf, EnterLeaf, ScanEntry, ScanLeaf, IterCreate, IterNext,
       IterDestroy, fileVars, buildVars

\* The spans exist as long as the index does.
LEMMA IndexInvStep == IndexInv /\ [Next]_vars => IndexInv'
<1> SUFFICES ASSUME IndexInv, [Next]_vars PROVE IndexInv'  OBVIOUS
<1> PICK lo \in Spans, hi \in Spans, st \in Spans : BuildInv(lo, hi, st)
  BY DEF IndexInv
<1>1. CASE BuildLeaf   BY <1>1, BuildLeafInv
<1>2. CASE OpenNode    BY <1>2, OpenNodeInv
<1>3. CASE NextChild   BY <1>3, NextChildInv
<1>4. CASE CloseNode   BY <1>4, CloseNodeInv
<1>5. CASE BuildDone   BY <1>5, BuildDoneInv
<1>6. CASE BuildFails  BY <1>6, BuildFailsInv
<1>7. CASE UNCHANGED buildVars  BY <1>7, BuildKept
<1>8. ReadStep => UNCHANGED buildVars  BY ReadsOnly
<1> QED BY <1>1, <1>2, <1>3, <1>4, <1>5, <1>6, <1>7, <1>8
        DEF Next, BuildStep, BuildNext, vars

LEMMA IndexInvariance == Spec => []IndexInv
BY IndexInvInit, IndexInvStep, PTL DEF Spec

\* For any number of keys and any size of leaf the recursive split makes no
\* empty leaf, asks the iterator for no key too many and leaves none over.
THEOREM SplitsAreExact == Spec => []SplitExact
<1>1. IndexInv => SplitExact
  <2> SUFFICES ASSUME IndexInv PROVE SplitExact  OBVIOUS
  <2> PICK lo \in Spans, hi \in Spans, st \in Spans : BuildInv(lo, hi, st)
    BY DEF IndexInv
  <2> QED BY Building DEF SplitExact, Progress
<1> QED BY <1>1, IndexInvariance, PTL
=============================================================================
