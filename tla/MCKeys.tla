------------------------------- MODULE MCKeys -------------------------------
(***************************************************************************)
(* Three beginnings.  From an empty container, six keys are added in      *)
(* every order, and a spelling 20 that folds to key 3.  From nine even      *)
(* keys, that were added upwards or downwards and are one insertion short   *)
(* of a third level, odd keys are added up to MaxTotal items.               *)
(***************************************************************************)
EXTENDS Keys

MCSpellings == 1 .. 20
MCFold      == [s \in MCSpellings |-> IF s = 20 THEN 3 ELSE s]

Plan(once, twice) ==
  [s \in MCSpellings |-> IF s \in twice THEN 2 ELSE IF s \in once THEN 1 ELSE 0]

Odd == {1, 3, 5, 7, 9, 11, 13, 15, 17, 19}

MCStarts ==
  {[given |-> <<>>, plan |-> Plan({1, 2, 4, 5, 6, 20}, {3})],
   [given |-> [i \in 1 .. 9 |-> 2 * i], plan |-> Plan(Odd, {})],
   [given |-> [i \in 1 .. 9 |-> 20 - 2 * i], plan |-> Plan({1, 3, 7, 17, 19}, {})]}
=============================================================================
