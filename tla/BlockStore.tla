----------------------------- MODULE BlockStore ------------------------------
(***************************************************************************)
(* What chunk storage promises (udx_chunk.h): an add that does not fail     *)
(* hands out an address that no other block has, and once the store is      *)
(* sealed a get of that address with the block's exact size returns the     *)
(* block's bytes or NULL, never anything else.                              *)
(***************************************************************************)
EXTENDS Naturals, Sequences

CONSTANTS Addresses, Invalid

VARIABLES
  stored,  \* the set of [addr, data] pairs
  sealed,  \* the chunk table was written
  ret      \* what the last call was asked for and returned

Init == stored = {} /\ sealed = FALSE /\ ret.op = "none"

Add ==
  /\ ~sealed /\ UNCHANGED sealed
  /\ ret'.op = "add"
  /\ \/ ret'.addr = Invalid /\ UNCHANGED stored
     \/ /\ ret'.addr \in Addresses \ {e.addr : e \in stored}
        /\ ret'.data # <<>>
        /\ stored' = stored \cup {[addr |-> ret'.addr, data |-> ret'.data]}

Seal ==
  /\ ~sealed
  /\ ret'.op = "finish"
  /\ sealed' = (ret'.addr # 0)
  /\ UNCHANGED stored

OpenStore == sealed /\ ret'.op = "open" /\ UNCHANGED <<stored, sealed>>

Get ==
  /\ sealed
  /\ ret'.op = "get"
  /\ ret'.data # <<>> =>
       /\ Len(ret'.data) = ret'.size
       /\ \A e \in stored : e.addr = ret'.addr /\ Len(e.data) = ret'.size
                            => ret'.data = e.data
  /\ UNCHANGED <<stored, sealed>>

Next == Add \/ Seal \/ OpenStore \/ Get

Spec == Init /\ [][Next]_<<stored, sealed, ret>>
==============================================================================
