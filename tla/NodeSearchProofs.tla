-------------------------- MODULE NodeSearchProofs --------------------------
(***************************************************************************)
(* The searches of NodeSearch are right for every node and every key: the   *)
(* window stays on key boundaries, the walks meet their stop, and the       *)
(* answers are the reference definitions'.                                  *)
(***************************************************************************)
EXTENDS NodeSearch, FiniteSetTheorems, TLAPS


ChildDone ==
  pc = "done" /\ search = "child" =>
    answer \in 0 .. n /\ \A i \in 1 .. n : node.key[i] <= key <=> i <= answer

EntryDone ==
  pc = "done" /\ search # "child" =>
    /\ answer \in 0 .. n
    /\ \A i \in 1 .. n : node.key[i] < key <=> i <= answer
    /\ found <=> \E i \in 1 .. n : node.key[i] = key

\* Before the walk nothing is found or counted.
Fresh ==
  pc \in {"start", "probe", "back"} =>
    found = FALSE /\ next = 0 /\ entry = 0 /\ answer = 0

AtStart == pc = "start" => low = 0

Back ==
  pc = "back" => search = "child" /\ low <= closest /\ closest < low + size

Walk ==
  pc = "walk" =>
    /\ search = "child"
    /\ \E c, d \in 1 .. n + 1 :
         /\ d <= c /\ stop = node.start[c] /\ next = node.start[d] /\ entry = d - 1
         /\ \A i \in 1 .. n : i < c => node.key[i] < key
         /\ found => c <= n /\ node.key[c] = key
         /\ ~found => \A i \in 1 .. n : i >= c => node.key[i] > key

EntryWindow ==
  pc = "probe" /\ search # "child" =>
    /\ low + size <= n
    /\ \A i \in 1 .. n : (i <= low => node.key[i] < key)
                         /\ (i > low + size => node.key[i] > key)

Inv == /\ TypeOK /\ Fresh /\ AtStart /\ WindowOnKeys /\ Back /\ Walk /\ EntryWindow
       /\ ChildDone /\ EntryDone

-----------------------------------------------------------------------------
(* Positions and keys.                                                      *)

LEMMA NodeFacts == TypeOK => IsNode(node) /\ key \in Int
  BY SearchAssumption DEF TypeOK

\* The keys lie in the area in their order.
LEMMA StartOrder ==
  ASSUME IsNode(node), NEW i \in 1 .. n + 1, NEW j \in 1 .. n + 1
  PROVE  /\ node.start[i] \in Nat
         /\ i < j => node.start[i] < node.start[j]
         /\ i <= j => node.start[i] <= node.start[j]
         /\ node.start[i] < node.start[j] => i < j
         /\ node.start[i] <= node.start[j] => i <= j
         /\ node.start[i] = node.start[j] => i = j
<1>1. n \in Nat /\ node.start \in [1 .. n + 1 -> Nat]
  BY DEF IsNode, n
<1>2. node.start[i] \in Nat /\ node.start[j] \in Nat
  BY <1>1
<1>3. /\ i < j => node.start[i] < node.start[j]
      /\ j < i => node.start[j] < node.start[i]
  BY DEF IsNode, n
<1>4. i < j \/ j < i \/ i = j
  BY <1>1
<1> QED BY <1>1, <1>2, <1>3, <1>4

\* strlen at the beginning of a key leads to the beginning of the next.
LEMMA StrideOfKey ==
  ASSUME IsNode(node), NEW k \in 1 .. n
  PROVE  node.start[k] + Stride(node.start[k]) = node.start[k + 1]
<1> n \in Nat BY DEF IsNode, n
<1> DEFINE p == node.start[k]
           e == node.start[k + 1] - 1
           First(q) == NulAt(q) /\ \A r \in p .. q - 1 : ~NulAt(r)
<1>1. /\ p \in Nat /\ e \in Nat /\ p <= e /\ e <= Area - 1 /\ Area \in Nat
      /\ node.start[k + 1] \in Nat
  BY StartOrder, k \in 1 .. n + 1, k + 1 \in 1 .. n + 1, n + 1 \in 1 .. n + 1 DEF Area
<1>2. NulAt(e)
  BY DEF NulAt
<1>3. ASSUME NEW r \in p .. e - 1 PROVE ~NulAt(r)
  <2> SUFFICES ASSUME NEW i \in 1 .. n, r = node.start[i + 1] - 1 PROVE FALSE
    BY DEF NulAt
  <2>1. k \in 1 .. n + 1 /\ k + 1 \in 1 .. n + 1 /\ i + 1 \in 1 .. n + 1
    OBVIOUS
  <2>2. node.start[i + 1] \in Nat
    BY <2>1, StartOrder
  <2>3. node.start[k] < node.start[i + 1] /\ node.start[i + 1] < node.start[k + 1]
    BY <1>1, <2>2
  <2>4. k < i + 1 /\ i + 1 < k + 1
    BY <2>1, <2>3, StartOrder
  <2> QED BY <2>4
<1>4. e \in p .. Area - 1 /\ First(e)
  BY <1>1, <1>2, <1>3
<1>5. ASSUME NEW q \in p .. Area - 1, First(q) PROVE q = e
  BY <1>1, <1>4, <1>5
<1>6. NextNul(p) = CHOOSE q \in p .. Area - 1 : First(q)
  BY DEF NextNul
<1> HIDE DEF First
<1>7. NextNul(p) = e
  BY <1>4, <1>5, <1>6
<1> QED BY <1>1, <1>7 DEF Stride

\* strcmp at the beginning of a key compares with that key.
LEMMA CompareAtKey ==
  ASSUME IsNode(node), NEW k \in 1 .. n
  PROVE  Compare(node.start[k]) = {Sign(key, node.key[k])}
<1> n \in Nat BY DEF IsNode, n
<1>1. \A i \in 1 .. n : node.start[k] = node.start[i] => i = k
  BY StartOrder, \A i \in 1 .. n : i \in 1 .. n + 1
<1>2. {j \in 1 .. n : node.start[k] = node.start[j]} = {k}
  BY <1>1
<1> QED BY <1>2, Zenon DEF Compare

\* Where the walk back ends, a key begins.
LEMMA EndOfWalkBack ==
  ASSUME IsNode(node), closest \in Nat, ~GoesBack,
         NEW a \in 1 .. n + 1, NEW b \in 1 .. n + 1,
         node.start[a] <= closest, closest < node.start[b]
  PROVE  \E k \in 1 .. n : closest = node.start[k] /\ a <= k /\ k < b
<1> n \in Nat BY DEF IsNode, n
<1>1. CASE closest = 0
  <2>1. closest = node.start[1] /\ 1 \in 1 .. n + 1
    BY <1>1 DEF IsNode
  <2> QED BY <2>1, StartOrder
<1>2. CASE NulAt(closest - 1)
  <2>1. PICK i \in 1 .. n : closest - 1 = node.start[i + 1] - 1
    BY <1>2 DEF NulAt
  <2>2. i + 1 \in 1 .. n + 1 /\ node.start[i + 1] \in Nat
    BY StartOrder
  <2>3. closest = node.start[i + 1]
    BY <2>1, <2>2
  <2> QED BY <2>2, <2>3, StartOrder
<1> QED BY <1>1, <1>2 DEF GoesBack

-----------------------------------------------------------------------------

LEMMA InitInv == Init => Inv
<1> SUFFICES ASSUME Init PROVE Inv
  OBVIOUS
<1> QED BY DEF Init, Inv, TypeOK, Fresh, AtStart, WindowOnKeys, Back, Walk,
            EntryWindow, ChildDone, EntryDone

LEMMA ChildBeginInv == Inv /\ ChildBegin => Inv'
<1> SUFFICES ASSUME Inv, ChildBegin PROVE Inv'
  OBVIOUS
<1>1. IsNode(node) /\ n \in Nat /\ node' = node /\ n' = n /\ key' = key /\ search' = search
  BY NodeFacts DEF Inv, IsNode, n, ChildBegin, input
<1>2. Area \in Nat /\ node.start[1] = 0 /\ 1 \in 1 .. n + 1 /\ n + 1 \in 1 .. n + 1
  BY <1>1 DEF Area, IsNode, n
<1>3. TypeOK' /\ Fresh' /\ AtStart' /\ Back' /\ Walk' /\ EntryWindow' /\ EntryDone'
  BY <1>1, <1>2 DEF Inv, TypeOK, Fresh, AtStart, Back, Walk, EntryWindow, EntryDone, ChildBegin, input
<1>4. WindowOnKeys'
  <2> SUFFICES ASSUME pc' \in {"probe", "back"}
               PROVE  \E a, b \in 1 .. n + 1 :
                        /\ a <= b /\ low' = node.start[a] /\ low' + size' = node.start[b]
                        /\ \A i \in 1 .. n : (i < a => node.key[i] < key) /\ (i >= b => node.key[i] > key)
    BY <1>1 DEF WindowOnKeys
  <2>1. low' = 0 /\ size' = node.start[n + 1]
    BY DEF ChildBegin, Inv, AtStart, Area
  <2> USE <1>2
  <2> WITNESS 1 \in 1 .. n + 1, n + 1 \in 1 .. n + 1
  <2> QED BY <1>1, <2>1 DEF Area
<1>5. ChildDone'
  BY <1>1 DEF Inv, Fresh, ChildDone, ChildBegin, input
<1> QED BY <1>3, <1>4, <1>5 DEF Inv

LEMMA JumpInv == Inv /\ Jump => Inv'
<1> SUFFICES ASSUME Inv, Jump PROVE Inv'
  OBVIOUS
<1>1. node' = node /\ n' = n /\ key' = key /\ search' = search
  BY DEF n, Jump, input
<1>2. low \in Nat /\ size \in Nat /\ size > 0 /\ low <= low + (size \div 2) /\ low + (size \div 2) < low + size
  BY DEF Inv, TypeOK, Jump
<1>3. TypeOK' /\ Fresh' /\ AtStart' /\ Back' /\ Walk' /\ EntryWindow' /\ ChildDone' /\ EntryDone'
  BY <1>1, <1>2 DEF Inv, TypeOK, Fresh, AtStart, Back, Walk, EntryWindow, ChildDone, EntryDone, Jump, input
<1>4. WindowOnKeys'
  BY <1>1 DEF Inv, WindowOnKeys, Jump
<1> QED BY <1>3, <1>4 DEF Inv

LEMMA StepBackInv == Inv /\ StepBack => Inv'
<1> SUFFICES ASSUME Inv, StepBack PROVE Inv'
  OBVIOUS
<1>1. node' = node /\ n' = n /\ key' = key /\ search' = search /\ low' = low /\ size' = size
  BY DEF n, StepBack, input
<1>2. pc = "back" /\ pc' = "back" /\ search = "child" /\ closest' = closest - 1 /\ closest > 0
  BY DEF Inv, Back, StepBack, GoesBack
<1>3. low <= closest'
  <2>1. PICK a \in 1 .. n + 1 : low = node.start[a]
    BY <1>2 DEF Inv, WindowOnKeys
  <2>2. IsNode(node) /\ n \in Nat /\ node.start[1] = 0
    BY NodeFacts DEF Inv, IsNode, n
  <2>3. low <= closest /\ low \in Nat /\ closest \in Nat
    BY <1>2 DEF Inv, Back, TypeOK
  <2>4. SUFFICES ASSUME closest = low PROVE FALSE
    BY <1>2, <2>3
  <2>5. a > 1
    BY <1>2, <2>1, <2>2, <2>4
  <2>6. NulAt(closest - 1)
    BY <2>1, <2>2, <2>4, <2>5, a - 1 \in 1 .. n, (a - 1) + 1 = a DEF NulAt
  <2> QED BY <2>6 DEF StepBack, GoesBack
<1>4. TypeOK' /\ Fresh' /\ AtStart' /\ Back' /\ Walk' /\ EntryWindow' /\ ChildDone' /\ EntryDone'
  BY <1>1, <1>2, <1>3 DEF Inv, TypeOK, Fresh, AtStart, Back, Walk, EntryWindow, ChildDone, EntryDone, StepBack, input
<1>5. WindowOnKeys'
  BY <1>1, <1>2 DEF Inv, WindowOnKeys
<1> QED BY <1>4, <1>5 DEF Inv

\* The window, the key that is compared, and where that key is in the window.
LEMMA ComparedKey ==
  ASSUME Inv, pc = "back", ~GoesBack
  PROVE  \E a, b \in 1 .. n + 1, k \in 1 .. n :
           /\ a <= k /\ k < b
           /\ low = node.start[a] /\ low + size = node.start[b]
           /\ closest = node.start[k]
           /\ \A i \in 1 .. n : (i < a => node.key[i] < key) /\ (i >= b => node.key[i] > key)
           /\ Compare(closest) = {Sign(key, node.key[k])}
           /\ Skip(closest) = node.start[k + 1]
<1>1. PICK a, b \in 1 .. n + 1 :
        /\ a <= b /\ low = node.start[a] /\ low + size = node.start[b]
        /\ \A i \in 1 .. n : (i < a => node.key[i] < key) /\ (i >= b => node.key[i] > key)
  BY DEF Inv, Back, WindowOnKeys
<1>2. IsNode(node) /\ closest \in Nat /\ low <= closest /\ closest < low + size
  BY NodeFacts DEF Inv, TypeOK, Back
<1>3. PICK k \in 1 .. n : closest = node.start[k] /\ a <= k /\ k < b
  BY <1>1, <1>2, EndOfWalkBack
<1>4. Compare(closest) = {Sign(key, node.key[k])}
  BY <1>2, <1>3, CompareAtKey
<1>5. Skip(closest) = node.start[k + 1]
  BY <1>2, <1>3, StrideOfKey DEF Skip
<1> QED BY <1>1, <1>3, <1>4, <1>5

LEMMA CompareKeyInv == Inv /\ CompareKey => Inv'
<1> SUFFICES ASSUME Inv, CompareKey PROVE Inv'
  OBVIOUS
<1>1. node' = node /\ n' = n /\ key' = key /\ search' = search
  BY DEF n, CompareKey, input
<1>2. pc = "back" /\ ~GoesBack /\ search = "child" /\ n \in Nat /\ IsNode(node) /\ key \in Int
  BY NodeFacts DEF CompareKey, Inv, Back, IsNode, n
<1>3. PICK a, b \in 1 .. n + 1, k \in 1 .. n :
           /\ a <= k /\ k < b
           /\ low = node.start[a] /\ low + size = node.start[b]
           /\ closest = node.start[k]
           /\ \A i \in 1 .. n : (i < a => node.key[i] < key) /\ (i >= b => node.key[i] > key)
           /\ Compare(closest) = {Sign(key, node.key[k])}
           /\ Skip(closest) = node.start[k + 1]
  BY <1>2, ComparedKey
<1>4. /\ k + 1 \in 1 .. n + 1 /\ k \in 1 .. n + 1
      /\ node.start[a] \in Nat /\ node.start[k] \in Nat
      /\ node.start[k + 1] \in Nat /\ node.start[b] \in Nat
      /\ node.start[a] <= node.start[k] /\ node.start[a] <= node.start[k + 1]
      /\ node.start[k + 1] <= node.start[b]
  BY <1>2, <1>3, StartOrder
<1>5. /\ \A i \in 1 .. n : node.key[i] \in Int
      /\ \A i \in 1 .. n : (i < k => node.key[i] < node.key[k]) /\ (i > k => node.key[i] > node.key[k])
  BY <1>2, <1>3 DEF IsNode, n
<1>6. low \in Nat /\ size \in Nat /\ closest \in Nat /\ stop \in Nat
  BY DEF Inv, TypeOK
<1>7. CASE key = node.key[k]
  <2>1. found' = TRUE /\ stop' = closest /\ pc' = "walk" /\ low' = low /\ size' = size
    BY <1>2, <1>3, <1>5, <1>7 DEF CompareKey, Sign
  <2>2. Walk'
    <3> SUFFICES
          \E c, d \in 1 .. n + 1 :
             /\ d <= c /\ stop' = node.start[c] /\ next' = node.start[d] /\ entry' = d - 1
             /\ \A i \in 1 .. n : i < c => node.key[i] < key
             /\ c <= n /\ node.key[c] = key
      BY <1>1, <1>2, <2>1 DEF Walk
    <3>1. next' = 0 /\ entry' = 0 /\ node.start[1] = 0
      BY <1>2 DEF Inv, Fresh, CompareKey, IsNode
    <3> USE <1>2, <1>4
    <3> WITNESS k \in 1 .. n + 1, 1 \in 1 .. n + 1
    <3> QED BY <1>3, <1>5, <1>7, <2>1, <3>1
  <2> QED BY <1>1, <1>2, <2>1, <2>2
       DEF Inv, TypeOK, Fresh, AtStart, WindowOnKeys, Back, EntryWindow, ChildDone, EntryDone, CompareKey, input
<1>8. CASE key < node.key[k]
  <2>1. size' = closest - low /\ pc' = "probe" /\ low' = low /\ found' = found /\ stop' = stop
    BY <1>2, <1>3, <1>5, <1>8 DEF CompareKey, Sign
  <2>2. WindowOnKeys'
    <3> SUFFICES
          \E c, d \in 1 .. n + 1 :
            /\ c <= d /\ low' = node.start[c] /\ low' + size' = node.start[d]
            /\ \A i \in 1 .. n : (i < c => node.key[i] < key) /\ (i >= d => node.key[i] > key)
      BY <1>1 DEF WindowOnKeys
    <3> USE <1>4
    <3> WITNESS a \in 1 .. n + 1, k \in 1 .. n + 1
    <3>1. \A i \in 1 .. n : i >= k => node.key[i] > key
      BY <1>2, <1>5, <1>8
    <3>2. low' + size' = node.start[k]
      BY <1>3, <1>6, <2>1
    <3> QED BY <1>3, <2>1, <3>1, <3>2
  <2>3. size' \in Nat
    BY <1>3, <1>4, <2>1
  <2> QED BY <1>1, <1>2, <2>1, <2>2, <2>3
       DEF Inv, TypeOK, Fresh, AtStart, Walk, Back, EntryWindow, ChildDone, EntryDone, CompareKey, input
<1>9. CASE key > node.key[k]
  <2>1. size' = size - (node.start[k + 1] - low) /\ low' = node.start[k + 1]
        /\ pc' = "probe" /\ found' = found /\ stop' = stop
    BY <1>2, <1>3, <1>5, <1>9 DEF CompareKey, Sign
  <2>2. WindowOnKeys'
    <3> SUFFICES
          \E c, d \in 1 .. n + 1 :
            /\ c <= d /\ low' = node.start[c] /\ low' + size' = node.start[d]
            /\ \A i \in 1 .. n : (i < c => node.key[i] < key) /\ (i >= d => node.key[i] > key)
      BY <1>1 DEF WindowOnKeys
    <3> USE <1>4
    <3> WITNESS k + 1 \in 1 .. n + 1, b \in 1 .. n + 1
    <3>1. low' + size' = node.start[b]
      BY <1>3, <1>4, <1>6, <2>1
    <3>2. \A i \in 1 .. n : i < k + 1 => node.key[i] < key
      BY <1>2, <1>5, <1>9
    <3> QED BY <1>2, <1>3, <2>1, <3>1, <3>2
  <2>3. size' \in Nat /\ low' \in Nat
    BY <1>3, <1>4, <1>6, <2>1
  <2> QED BY <1>1, <1>2, <2>1, <2>2, <2>3
       DEF Inv, TypeOK, Fresh, AtStart, Walk, Back, EntryWindow, ChildDone, EntryDone, CompareKey, input
<1> QED BY <1>2, <1>5, <1>7, <1>8, <1>9

LEMMA WindowEmptyInv == Inv /\ WindowEmpty => Inv'
<1> SUFFICES ASSUME Inv, WindowEmpty PROVE Inv'
  OBVIOUS
<1>1. node' = node /\ n' = n /\ key' = key /\ search' = search
  BY DEF n, WindowEmpty, input
<1>2. /\ n \in Nat /\ IsNode(node) /\ node.start[1] = 0
      /\ pc = "probe" /\ search = "child" /\ size = 0 /\ low \in Nat
  BY NodeFacts DEF Inv, TypeOK, IsNode, n, WindowEmpty
<1>3. Walk'
  <2>1. PICK a, b \in 1 .. n + 1 :
          /\ a <= b /\ low = node.start[a] /\ low + size = node.start[b]
          /\ \A i \in 1 .. n : (i < a => node.key[i] < key) /\ (i >= b => node.key[i] > key)
    BY <1>2 DEF Inv, WindowOnKeys
  <2>2. a = b
    BY <1>2, <2>1, StartOrder
  <2>3. stop' = node.start[a] /\ next' = 0 /\ entry' = 0 /\ found' = FALSE
    BY <1>2, <2>1 DEF WindowEmpty, Inv, Fresh
  <2>4. 1 \in 1 .. n + 1 /\ 1 <= a /\ entry' = 1 - 1
    BY <1>2, <2>3
  <2>5. \E c, d \in 1 .. n + 1 :
             /\ d <= c /\ stop' = node.start[c] /\ next' = node.start[d] /\ entry' = d - 1
             /\ \A i \in 1 .. n : i < c => node.key[i] < key
             /\ found' => c <= n /\ node.key[c] = key
             /\ ~found' => \A i \in 1 .. n : i >= c => node.key[i] > key
    BY <1>2, <2>1, <2>2, <2>3, <2>4
  <2> QED BY <1>1, <1>2, <2>5 DEF Walk
<1> QED BY <1>1, <1>2, <1>3
     DEF Inv, TypeOK, Fresh, AtStart, WindowOnKeys, Back, EntryWindow, ChildDone, EntryDone, WindowEmpty, input

LEMMA CountInv == Inv /\ Count => Inv'
<1> SUFFICES ASSUME Inv, Count PROVE Inv'
  OBVIOUS
<1>1. /\ node' = node /\ n' = n /\ key' = key /\ search' = search
      /\ stop' = stop /\ found' = found /\ pc' = pc /\ pc = "walk"
  BY DEF n, Count, input
<1>2. n \in Nat /\ IsNode(node) /\ search = "child"
  BY <1>1, NodeFacts DEF Inv, Walk, IsNode, n
<1>3. PICK c, d \in 1 .. n + 1 :
         /\ d <= c /\ stop = node.start[c] /\ next = node.start[d] /\ entry = d - 1
         /\ \A i \in 1 .. n : i < c => node.key[i] < key
         /\ found => c <= n /\ node.key[c] = key
         /\ ~found => \A i \in 1 .. n : i >= c => node.key[i] > key
  BY <1>1 DEF Inv, Walk
<1>4. d < c /\ d \in 1 .. n /\ d + 1 \in 1 .. n + 1
  BY <1>2, <1>3 DEF Count
<1>5. next' = node.start[d + 1] /\ entry' = (d + 1) - 1 /\ node.start[d + 1] \in Nat
  BY <1>2, <1>3, <1>4, StrideOfKey, StartOrder DEF Count
<1>6. Walk'
  BY <1>1, <1>2, <1>3, <1>4, <1>5 DEF Walk
<1>7. TypeOK'
  BY <1>1, <1>5 DEF Inv, TypeOK, Count, input
<1> QED BY <1>1, <1>6, <1>7
     DEF Inv, Fresh, AtStart, WindowOnKeys, Back, EntryWindow, ChildDone, EntryDone

LEMMA CountEndInv == Inv /\ CountEnd => Inv'
<1> SUFFICES ASSUME Inv, CountEnd PROVE Inv'
  OBVIOUS
<1>1. node' = node /\ n' = n /\ key' = key /\ search' = search /\ pc = "walk" /\ pc' = "done"
  BY DEF n, CountEnd, input
<1>2. n \in Nat /\ IsNode(node) /\ key \in Int /\ search = "child"
  BY <1>1, NodeFacts DEF Inv, Walk, IsNode, n
<1>3. PICK c, d \in 1 .. n + 1 :
         /\ d <= c /\ stop = node.start[c] /\ next = node.start[d] /\ entry = d - 1
         /\ \A i \in 1 .. n : i < c => node.key[i] < key
         /\ found => c <= n /\ node.key[c] = key
         /\ ~found => \A i \in 1 .. n : i >= c => node.key[i] > key
  BY <1>1 DEF Inv, Walk
<1>4. d = c
  BY <1>2, <1>3, StartOrder DEF CountEnd
<1>5. answer' = IF found THEN c ELSE c - 1
  BY <1>2, <1>3, <1>4 DEF CountEnd, ChildOf
<1>6. \A i \in 1 .. n : node.key[i] \in Int /\ (\A j \in 1 .. n : i > j => node.key[i] > node.key[j])
  BY <1>2 DEF IsNode, n
<1>7. ChildDone'
  <2>1. CASE found
    BY <1>1, <1>2, <1>3, <1>5, <1>6, <2>1 DEF ChildDone
  <2>2. CASE ~found
    <3>1. answer' = c - 1 /\ answer' \in 0 .. n
      BY <1>2, <1>5, <2>2
    <3>2. \A i \in 1 .. n : i <= c - 1 => node.key[i] <= key
      BY <1>2, <1>3, <1>6
    <3>3. \A i \in 1 .. n : node.key[i] <= key => i <= c - 1
      BY <1>2, <1>3, <1>6, <2>2
    <3> QED BY <1>1, <3>1, <3>2, <3>3 DEF ChildDone
  <2> QED BY <2>1, <2>2
<1>8. TypeOK'
  BY <1>1, <1>2, <1>5 DEF Inv, TypeOK, CountEnd, input
<1> QED BY <1>1, <1>2, <1>7, <1>8
     DEF Inv, Fresh, AtStart, WindowOnKeys, Back, Walk, EntryWindow, EntryDone

LEMMA EntryBeginInv == Inv /\ EntryBegin => Inv'
<1> SUFFICES ASSUME Inv, EntryBegin PROVE Inv'
  OBVIOUS
<1>1. node' = node /\ n' = n /\ key' = key /\ search' = search /\ n \in Nat
  BY NodeFacts DEF Inv, IsNode, n, EntryBegin, input
<1>2. pc = "start" /\ search # "child" /\ low' = 0 /\ size' = n /\ pc' = "probe"
  BY DEF EntryBegin, Inv, AtStart
<1>3. EntryWindow'
  BY <1>1, <1>2 DEF EntryWindow
<1> QED BY <1>1, <1>2, <1>3
     DEF Inv, TypeOK, Fresh, AtStart, WindowOnKeys, Back, Walk, ChildDone, EntryDone, EntryBegin, input

\* Where the middle lies, by either formula.
LEMMA MiddleInWindow ==
  ASSUME low \in Nat, size \in Nat, size > 0
  PROVE  Middle \in Nat /\ low <= Middle /\ Middle < low + size
  BY DEF Middle

LEMMA ProbeEntryInv == Inv /\ ProbeEntry => Inv'
<1> SUFFICES ASSUME Inv, ProbeEntry PROVE Inv'
  OBVIOUS
<1>1. node' = node /\ n' = n /\ key' = key /\ search' = search
  BY DEF n, ProbeEntry, input
<1>2. /\ n \in Nat /\ IsNode(node) /\ key \in Int
      /\ pc = "probe" /\ search # "child"
      /\ low \in Nat /\ size \in Nat /\ size > 0
      /\ low + size <= n
      /\ \A i \in 1 .. n : (i <= low => node.key[i] < key)
                         /\ (i > low + size => node.key[i] > key)
  BY NodeFacts DEF Inv, TypeOK, IsNode, n, ProbeEntry, EntryWindow
<1> DEFINE m == Middle + 1
<1>3. /\ Middle \in Nat /\ low <= Middle /\ Middle < low + size
      /\ m \in 1 .. n /\ low < m /\ m <= low + size /\ m = Middle + 1
  BY <1>2, MiddleInWindow
<1>4. /\ \A i \in 1 .. n : node.key[i] \in Int
      /\ \A i \in 1 .. n : (i < m => node.key[i] < node.key[m]) /\ (i > m => node.key[i] > node.key[m])
  BY <1>2, <1>3 DEF IsNode, n
<1> HIDE DEF m
<1>5. CASE key = node.key[m]
  <2>1. found' = TRUE /\ answer' = m - 1 /\ pc' = "done" /\ low' = low /\ size' = size
    BY <1>2, <1>3, <1>4, <1>5 DEF ProbeEntry, Sign
  <2>2. EntryDone'
    <3>1. answer' \in 0 .. n
      BY <1>2, <1>3, <2>1
    <3>2. \A i \in 1 .. n : node.key[i] < key <=> i <= m - 1
      BY <1>2, <1>3, <1>4, <1>5
    <3> QED BY <1>1, <1>3, <1>5, <2>1, <3>1, <3>2 DEF EntryDone
  <2> QED BY <1>1, <1>2, <1>3, <2>1, <2>2
       DEF Inv, TypeOK, Fresh, AtStart, WindowOnKeys, Back, Walk, EntryWindow, ChildDone, ProbeEntry, input
<1>6. CASE key < node.key[m]
  <2>1. size' = (m - 1) - low /\ low' = low /\ pc' = pc /\ found' = found /\ answer' = answer
    BY <1>2, <1>3, <1>4, <1>6 DEF ProbeEntry, Sign, Left
  <2>2. low' + size' = m - 1 /\ size' \in Nat
    BY <1>2, <1>3, <2>1
  <2>3. \A i \in 1 .. n : i > m - 1 => node.key[i] > key
    BY <1>2, <1>3, <1>4, <1>6
  <2>4. EntryWindow'
    BY <1>1, <1>2, <1>3, <2>1, <2>2, <2>3 DEF EntryWindow
  <2> QED BY <1>1, <1>2, <2>1, <2>2, <2>4
       DEF Inv, TypeOK, Fresh, AtStart, WindowOnKeys, Back, Walk, ChildDone, EntryDone, ProbeEntry, input
<1>7. CASE key > node.key[m]
  <2>1. size' = size - (((m - 1) - low) + 1) /\ low' = m /\ pc' = pc /\ found' = found /\ answer' = answer
    BY <1>2, <1>3, <1>4, <1>7 DEF ProbeEntry, Sign, Rest
  <2>2. low' + size' = low + size /\ size' \in Nat /\ low' \in Nat
    BY <1>2, <1>3, <2>1
  <2>3. \A i \in 1 .. n : i <= m => node.key[i] < key
    BY <1>2, <1>3, <1>4, <1>7
  <2>4. EntryWindow'
    BY <1>1, <1>2, <1>3, <2>1, <2>2, <2>3 DEF EntryWindow
  <2> QED BY <1>1, <1>2, <2>1, <2>2, <2>4
       DEF Inv, TypeOK, Fresh, AtStart, WindowOnKeys, Back, Walk, ChildDone, EntryDone, ProbeEntry, input
<1> QED BY <1>2, <1>3, <1>4, <1>5, <1>6, <1>7

LEMMA EntryEndInv == Inv /\ EntryEnd => Inv'
<1> SUFFICES ASSUME Inv, EntryEnd PROVE Inv'
  OBVIOUS
<1>1. node' = node /\ n' = n /\ key' = key /\ search' = search
  BY DEF n, EntryEnd, input
<1>2. /\ n \in Nat /\ IsNode(node) /\ key \in Int
      /\ pc = "probe" /\ search # "child" /\ low \in Nat /\ size = 0
      /\ low + size <= n
      /\ \A i \in 1 .. n : (i <= low => node.key[i] < key)
                         /\ (i > low + size => node.key[i] > key)
  BY NodeFacts DEF Inv, TypeOK, IsNode, n, EntryEnd, EntryWindow
<1>3. answer' = low /\ pc' = "done" /\ found' = FALSE
  BY <1>2 DEF EntryEnd, Inv, Fresh
<1>4. \A i \in 1 .. n : node.key[i] \in Int
  BY <1>2 DEF IsNode, n
<1>5. EntryDone'
  <2>1. answer' \in 0 .. n
    BY <1>2, <1>3
  <2>2. \A i \in 1 .. n : node.key[i] < key <=> i <= low
    BY <1>2, <1>4
  <2>3. \A i \in 1 .. n : node.key[i] # key
    BY <1>2, <1>4
  <2> QED BY <1>1, <1>3, <2>1, <2>2, <2>3 DEF EntryDone
<1> QED BY <1>1, <1>2, <1>3, <1>5
     DEF Inv, TypeOK, Fresh, AtStart, WindowOnKeys, Back, Walk, EntryWindow, ChildDone, EntryEnd, input

LEMMA Invariance == Spec => []Inv
<1>1. Inv /\ [Next]_vars => Inv'
  <2> SUFFICES ASSUME Inv, [Next]_vars PROVE Inv'
    OBVIOUS
  <2>1. CASE UNCHANGED vars
    BY <2>1 DEF vars, Inv, TypeOK, Fresh, AtStart, WindowOnKeys, Back, Walk,
         EntryWindow, ChildDone, EntryDone, n
  <2> QED BY <2>1, ChildBeginInv, JumpInv, StepBackInv, CompareKeyInv, WindowEmptyInv,
         CountInv, CountEndInv, EntryBeginInv, ProbeEntryInv, EntryEndInv
       DEF Next, Step, Done
<1> QED BY InitInv, <1>1, PTL DEF Spec

-----------------------------------------------------------------------------
(* What the searches promise.                                               *)

\* The type invariant holds for every node and key; window_size, a size_t,
\* never goes below 0.
THEOREM TypesHold == Spec => []TypeOK
  BY Invariance, PTL DEF Inv

\* The window of find_child_offset begins and ends where a key does.
THEOREM WindowsOnKeys == Spec => []WindowOnKeys
  BY Invariance, PTL DEF Inv

\* The walk of find_child_offset that counts keys meets its end and does not
\* run off the area: next and stop are beginnings of keys, in this order.
THEOREM WalksMeetStop == Spec => []WalkMeetsStop
<1>1. Inv => WalkMeetsStop
  <2> SUFFICES ASSUME Inv, pc = "walk" PROVE next <= stop /\ entry <= n
    BY DEF WalkMeetsStop
  <2>1. IsNode(node) /\ n \in Nat
    BY NodeFacts DEF Inv, IsNode, n
  <2>2. PICK c, d \in 1 .. n + 1 :
          d <= c /\ stop = node.start[c] /\ next = node.start[d] /\ entry = d - 1
    BY DEF Inv, Walk
  <2> QED BY <2>1, <2>2, StartOrder
<1> QED BY <1>1, Invariance, PTL

\* The boundary that splits the keys is the number of the keys before it.
LEMMA CountOfSplit ==
  ASSUME NEW S, NEW N \in Nat, NEW c \in 0 .. N,
         \A i \in 1 .. N : i \in S <=> i <= c, S \subseteq 1 .. N
  PROVE  Cardinality(S) = c
<1>1. S = 1 .. c
  <2>1. ASSUME NEW i \in S PROVE i \in 1 .. c
    <3>1. i \in 1 .. N
      OBVIOUS
    <3> QED BY <3>1
  <2>2. ASSUME NEW i \in 1 .. c PROVE i \in S
    <3>1. i \in 1 .. N
      OBVIOUS
    <3> QED BY <3>1
  <2> QED BY <2>1, <2>2
<1>2. Cardinality(1 .. c) = IF 1 > c THEN 0 ELSE c - 1 + 1
  BY FS_Interval
<1> QED BY <1>1, <1>2

\* find_child_offset returns the child that the separators demand.
THEOREM ChildrenAreRight == Spec => []ChildIsRight
<1>1. Inv => ChildIsRight
  <2> SUFFICES ASSUME Inv, pc = "done", search = "child" PROVE answer = Cardinality(Passed)
    BY DEF ChildIsRight
  <2>1. n \in Nat /\ answer \in 0 .. n
    BY NodeFacts DEF Inv, ChildDone, IsNode, n
  <2>2. Passed \subseteq 1 .. n /\ \A i \in 1 .. n : i \in Passed <=> i <= answer
    BY DEF Inv, ChildDone, Passed
  <2> QED BY <2>1, <2>2, CountOfSplit
<1> QED BY <1>1, Invariance, PTL

\* search_leaf_node and btree_node_bsearch end at the lower bound, and tell
\* whether the key is there.
THEOREM EntriesAreLowerBounds == Spec => []EntryIsLowerBound
<1>1. Inv => EntryIsLowerBound
  <2> SUFFICES ASSUME Inv, pc = "done", search # "child"
               PROVE  answer = Cardinality(Below) /\ (found <=> \E i \in 1 .. n : node.key[i] = key)
    BY DEF EntryIsLowerBound
  <2>1. n \in Nat /\ answer \in 0 .. n
    BY NodeFacts DEF Inv, EntryDone, IsNode, n
  <2>2. Below \subseteq 1 .. n /\ \A i \in 1 .. n : i \in Below <=> i <= answer
    BY DEF Inv, EntryDone, Below
  <2>3. found <=> \E i \in 1 .. n : node.key[i] = key
    BY DEF Inv, EntryDone
  <2> QED BY <2>1, <2>2, <2>3, CountOfSplit
<1> QED BY <1>1, Invariance, PTL

\* Every comparison makes the window smaller: with the bound of 0 this is why
\* the loops end, which TLC checks as Termination.
THEOREM WindowsShrink == Spec => Shrinks
<1>1. Inv /\ [Next]_vars => [pc' = "probe" /\ pc # "start" => size' < size]_vars
  <2> SUFFICES ASSUME Inv, Next, pc' = "probe", pc # "start"
               PROVE  size' < size \/ UNCHANGED vars
    OBVIOUS
  <2>1. CASE CompareKey
    <3>1. pc = "back" /\ ~GoesBack /\ n \in Nat /\ IsNode(node) /\ key \in Int
      BY <2>1, NodeFacts DEF CompareKey, Inv, IsNode, n
    <3>2. PICK a, b \in 1 .. n + 1, k \in 1 .. n :
           /\ a <= k /\ k < b
           /\ low = node.start[a] /\ low + size = node.start[b]
           /\ closest = node.start[k]
           /\ Skip(closest) = node.start[k + 1]
      BY <3>1, ComparedKey
    <3>3. /\ k + 1 \in 1 .. n + 1 /\ k \in 1 .. n + 1
          /\ node.start[a] \in Nat /\ node.start[k] \in Nat
          /\ node.start[k + 1] \in Nat /\ node.start[b] \in Nat
          /\ node.start[a] < node.start[k + 1] /\ node.start[k] < node.start[b]
      BY <3>1, <3>2, StartOrder
    <3>4. low \in Nat /\ size \in Nat
      BY DEF Inv, TypeOK
    <3>5. size' = closest - low \/ size' = size - (Skip(closest) - low)
      BY <2>1 DEF CompareKey
    <3> QED BY <3>2, <3>3, <3>4, <3>5
  <2>2. CASE ProbeEntry
    <3>1. low \in Nat /\ size \in Nat /\ size > 0
      BY <2>2 DEF Inv, TypeOK, ProbeEntry
    <3>2. Middle \in Nat /\ low <= Middle /\ Middle < low + size
      BY <3>1, MiddleInWindow
    <3>3. size' = Left(Middle) \/ size' = Rest(Middle)
      BY <2>2 DEF ProbeEntry
    <3> QED BY <3>1, <3>2, <3>3 DEF Left, Rest
  <2>3. CASE Done
    BY <2>3 DEF Done
  <2>4. ~(ChildBegin \/ Jump \/ StepBack \/ WindowEmpty \/ Count \/ CountEnd \/ EntryBegin \/ EntryEnd)
    BY DEF ChildBegin, Jump, StepBack, WindowEmpty, Count, CountEnd, EntryBegin, EntryEnd
  <2> QED BY <2>1, <2>2, <2>3, <2>4 DEF Next, Step
<1> QED BY <1>1, Invariance, PTL DEF Spec, Shrinks
=============================================================================
