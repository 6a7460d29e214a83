------------------------------- MODULE KeyMap -------------------------------
(***************************************************************************)
(* What udx_keys.h promises: a container that folds keys, keeps the items   *)
(* of a folded key in the order they were added, changes nothing when an    *)
(* add is refused, and is delivered once, in the order of the keys.         *)
(***************************************************************************)
EXTENDS Integers, Sequences, SequencesExt

CONSTANTS Spellings, Fold

VARIABLES
  map,      \* the entries [key, items], one for each folded key
  open,     \* whether keys may be added
  listed,   \* what was delivered at the end
  ret       \* what the last add returned

Own(k)   == {e \in map : e.key = k}
Items(k) == IF Own(k) = {} THEN <<>> ELSE (CHOOSE e \in Own(k) : TRUE).items

Init == map = {} /\ open = TRUE /\ listed = <<>> /\ ret = TRUE

Appended(s) ==
  LET k == Fold[s]
  IN  (map \ Own(k)) \cup {[key |-> k, items |-> Append(Items(k), s)]}

Add ==
  /\ open
  /\ \/ ret' = TRUE /\ \E s \in Spellings : map' = Appended(s)
     \/ ret' = FALSE /\ UNCHANGED map
  /\ UNCHANGED <<open, listed>>

\* The keys are delivered in their order, with all items, or none of them is.
Finish ==
  /\ open /\ open' = FALSE
  /\ \/ listed' = <<>>
     \/ /\ ToSet(listed') = map
        /\ \A i, j \in DOMAIN listed' : i < j => listed'[i].key < listed'[j].key
  /\ map' = {}
  /\ UNCHANGED ret

Next == Add \/ Finish
Spec == Init /\ [][Next]_<<map, open, listed, ret>>
==============================================================================
