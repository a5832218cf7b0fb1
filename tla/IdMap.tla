------------------------------ MODULE IdMap ------------------------------
(***************************************************************************)
(* What OrderBook's id index promises: a map from the ids of resting       *)
(* orders to their Order blocks.                                           *)
(***************************************************************************)
CONSTANTS Id, Ptr, Null

VARIABLES map,    \* [Id -> Ptr or Null]
          ret     \* [id, ptr]: the answer of a LookupAndEraseId just done

vars == <<map, ret>>
NoAnswer == [id |-> Null, ptr |-> Null]

Init ==
    /\ map = [x \in Id |-> Null]
    /\ ret = NoAnswer

InsertId(x, p) ==
    /\ map[x] = Null
    /\ map' = [map EXCEPT ![x] = p]
    /\ ret' = NoAnswer

LookupAndEraseId(x) ==
    /\ ret' = [id |-> x, ptr |-> map[x]]
    /\ map' = [map EXCEPT ![x] = Null]

Next ==
    \/ \E x \in Id, p \in Ptr : InsertId(x, p)
    \/ \E x \in Id : LookupAndEraseId(x)

Spec == Init /\ [][Next]_vars
===========================================================================
