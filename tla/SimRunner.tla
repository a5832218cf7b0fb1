---------------------------- MODULE SimRunner ----------------------------
(***************************************************************************)
(* cpp/main/sim_runner.cpp: the loop that drives the publisher with random *)
(* adds and cancels.  The random generator is a free choice.  `open_ids`   *)
(* is the vector `resting` of main(): AddLimit returns true for an order   *)
(* that filled at once too, so it also collects ids that no longer rest.   *)
(***************************************************************************)
EXTENDS Integers, Sequences, FiniteSets

CONSTANTS Capacity,              \* kBookCapacity
          Headroom,              \* the 4 of kBookCapacity - 4
          MinPrice, MaxPrice, Prices, Quantities,
          MaxOrders              \* bound: orders submitted in all (cfg.ops)

ASSUME RunnerAssumption ==
    /\ Capacity \in Nat /\ Headroom \in 1 .. Capacity
    /\ MinPrice \in Int /\ MaxPrice \in Int
    /\ Prices \subseteq MinPrice .. MaxPrice
    /\ Quantities \subseteq Nat \ {0}

VARIABLES resting, taker, event, next_id, qty, filled, shadow,   \* publisher
          open_ids

pubVars == <<resting, taker, event, next_id, qty, filled, shadow>>
vars == <<pubVars, open_ids>>

Pub == INSTANCE TelemetryPublisher
Sides == {"buy", "sell"}
Idle == taker = Pub!Book!NoTaker

Init == Pub!Init /\ open_ids = <<>>

Back(s) == s[Len(s)]
PopBack(s) == SubSeq(s, 1, Len(s) - 1)
(* std::swap(resting[idx], resting.back()); resting.pop_back(); *)
PopNoSwap(s, i) == PopBack(s)
SwapPop(s, i) == PopBack([s EXCEPT ![i] = Back(s)])

RandomCancel ==
    /\ Idle
    /\ \E i \in 1 .. Len(open_ids) :
          /\ Pub!Cancel(open_ids[i])
          /\ open_ids' = SwapPop(open_ids, i)

NearlyFullLate == Cardinality(resting) > Capacity
NearlyFull == Cardinality(resting) >= Capacity - Headroom

Evict ==
    /\ Idle /\ NearlyFull
    /\ open_ids # <<>>
    /\ Pub!Cancel(Back(open_ids))
    /\ open_ids' = PopBack(open_ids)

Add ==
    /\ Idle /\ ~NearlyFull
    /\ \E side \in Sides, px \in Prices, q \in Quantities : Pub!AddLimit(side, px, q)
    /\ UNCHANGED open_ids

(* The fills of an add, and its return: true pushes the id. *)
Filling ==
    /\ \E m \in resting : Pub!OnFill(m)
    /\ UNCHANGED open_ids

AddReturns ==
    /\ Pub!Ack \/ Pub!NoAck
    /\ open_ids' = IF event'.kind # "rejected" THEN Append(open_ids, taker.id)
                   ELSE open_ids

Loop == RandomCancel \/ Evict \/ Add \/ Filling \/ AddReturns
Next == Loop

Spec == Init /\ [][Next]_vars
(* main()'s loop keeps running. *)
FairSpec == Spec /\ WF_vars(Loop)

---------------------------------------------------------------------------
(* sim_runner.cpp's guard: "we never hit the AddLimit(->false)             *)
(* slab-exhaustion path in normal runs".                                   *)
NeverRejected == event.kind # "rejected"

(* Between operations every open order is in the vector once, so the loop  *)
(* can reach it for a cancel or an eviction.                               *)
OpenTracked ==
    /\ Idle => \A m \in resting : \E i \in 1 .. Len(open_ids) : open_ids[i] = m.id
    /\ \A i, j \in 1 .. Len(open_ids) : open_ids[i] = open_ids[j] => i = j

(* The event stream reproduces the book. *)
ShadowExact == Pub!ShadowExact

(* What makes the three above inductive: the types, ids issued in          *)
(* ascending order, room kept for the order in flight, and the vector      *)
(* complete while it is being matched too.                                 *)
Orders == [id : Nat \ {0}, side : Sides, price : Prices, qty : Nat \ {0}]
TypeOK ==
    /\ resting \subseteq Orders /\ IsFiniteSet(resting)
    /\ Idle \/ taker \in [id : Nat \ {0}, side : Sides, price : Prices, remaining : Nat]
    /\ next_id \in Nat \ {0}
    /\ qty \in Int /\ filled \in Int
    /\ open_ids \in Seq(Nat \ {0})

NextToRest == IF Idle THEN next_id ELSE taker.id
Ascending ==
    /\ \A m, n \in resting : m.id = n.id => m = n
    /\ \A m \in resting : m.id < NextToRest
    /\ \A i \in 1 .. Len(open_ids) : open_ids[i] < NextToRest
    /\ ~Idle => taker.id < next_id

RoomKept == ~Idle => Cardinality(resting) < Capacity

Tracked == \A m \in resting : \E i \in 1 .. Len(open_ids) : open_ids[i] = m.id

Inv ==
    /\ TypeOK /\ Ascending /\ RoomKept /\ Tracked
    /\ NeverRejected /\ OpenTracked /\ ShadowExact

(* Evictions make room, although the vector's last id may be long gone.    *)
EvictionMakesRoom == (Idle /\ NearlyFull) ~> ~NearlyFull
===========================================================================
