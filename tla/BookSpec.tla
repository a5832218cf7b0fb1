----------------------------- MODULE BookSpec -----------------------------
(***************************************************************************)
(* What core::OrderBook promises, without ladders, lists, blocks or hash   *)
(* tables: a set of resting orders matched by price, then by arrival.      *)
(* Callers issue ids in ascending order (sim_runner's next_id, SimEnv's    *)
(* next_order_id_), so the smaller id is the earlier arrival.              *)
(***************************************************************************)
EXTENDS Integers, FiniteSets

CONSTANTS Capacity,              \* orders that may rest at once
          MinPrice, MaxPrice,    \* the band
          Prices,                \* limit prices callers use, some out of band
          Quantities,            \* order sizes callers use, all positive
          MaxOrders              \* bound: orders submitted in all

VARIABLES resting,    \* set of [id, side, price, qty]
          taker,      \* the order being matched, or NoTaker
          event,      \* the last callback or return
          next_id

vars == <<resting, taker, event, next_id>>

Sides == {"buy", "sell"}
Opp(side) == IF side = "buy" THEN "sell" ELSE "buy"
Smaller(a, b) == IF a =< b THEN a ELSE b

InBand(px) == px >= MinPrice /\ px =< MaxPrice

NoTaker == [id |-> 0, side |-> "buy", price |-> 0, remaining |-> 0]
NoEvent == [kind |-> "none", id |-> 0, counter |-> 0, side |-> "buy",
            price |-> 0, qty |-> 0]

(* Fill{maker, taker, price, qty, taker_side} *)
FillEvent(maker, t, px, q) ==
    [kind |-> "fill", id |-> maker, counter |-> t.id, side |-> t.side,
     price |-> px, qty |-> q]
OrderEvent(kind, id, side, px, q) ==
    [kind |-> kind, id |-> id, counter |-> 0, side |-> side, price |-> px, qty |-> q]

(* Does a taker accept a maker's price, and which of two makers goes first? *)
Crosses(t, px) == IF t.side = "buy" THEN px =< t.price ELSE px >= t.price
Precedes(m, n) ==
    \/ IF m.side = "buy" THEN m.price > n.price ELSE m.price < n.price
    \/ m.price = n.price /\ m.id < n.id

Makers == { m \in resting : m.side = Opp(taker.side) /\ Crosses(taker, m.price) }
BestMaker(m) == \A n \in Makers : n = m \/ Precedes(m, n)

Init ==
    /\ resting = {}
    /\ taker = NoTaker
    /\ event = NoEvent
    /\ next_id = 1

AddLimit(side, px, qty) ==
    /\ taker = NoTaker
    /\ next_id =< MaxOrders
    /\ taker' = [id |-> next_id, side |-> side, price |-> px, remaining |-> qty]
    /\ next_id' = next_id + 1
    /\ event' = NoEvent
    /\ UNCHANGED resting

Fill(m) ==
    /\ taker # NoTaker /\ taker.remaining > 0
    /\ m \in Makers /\ BestMaker(m)
    /\ LET q == Smaller(taker.remaining, m.qty) IN
         /\ event' = FillEvent(m.id, taker, m.price, q)
         /\ taker' = [taker EXCEPT !.remaining = @ - q]
         /\ resting' = (resting \ {m}) \cup
                       (IF q = m.qty THEN {} ELSE {[m EXCEPT !.qty = @ - q]})
    /\ UNCHANGED next_id

Matched == taker # NoTaker /\ (taker.remaining = 0 \/ Makers = {})
Room == InBand(taker.price) /\ Cardinality(resting) < Capacity

Return(kind) ==
    /\ event' = OrderEvent(kind, taker.id, taker.side, taker.price, taker.remaining)
    /\ taker' = NoTaker
    /\ UNCHANGED next_id

Filled ==
    /\ Matched /\ taker.remaining = 0
    /\ Return("filled")
    /\ UNCHANGED resting

Rest ==
    /\ Matched /\ taker.remaining > 0 /\ Room
    /\ resting' = resting \cup {[id |-> taker.id, side |-> taker.side,
                                 price |-> taker.price, qty |-> taker.remaining]}
    /\ Return("rested")

Reject ==
    /\ Matched /\ taker.remaining > 0 /\ ~Room
    /\ Return("rejected")
    /\ UNCHANGED resting

Cancel(m) ==
    /\ taker = NoTaker
    /\ m \in resting
    /\ resting' = resting \ {m}
    /\ event' = OrderEvent("cancel", m.id, m.side, m.price, m.qty)
    /\ UNCHANGED <<taker, next_id>>

CancelUnknown(id) ==
    /\ taker = NoTaker
    /\ \A m \in resting : m.id # id
    /\ event' = OrderEvent("unknown", id, "buy", 0, 0)
    /\ UNCHANGED <<resting, taker, next_id>>

Next ==
    \/ \E side \in Sides, px \in Prices, qty \in Quantities : AddLimit(side, px, qty)
    \/ \E m \in resting : Fill(m) \/ Cancel(m)
    \/ Filled \/ Rest \/ Reject
    \/ \E id \in 1 .. MaxOrders : CancelUnknown(id)

Spec == Init /\ [][Next]_vars

(* No resting bid is at or above a resting ask. *)
NotCrossed ==
    \A b, a \in resting : b.side = "buy" /\ a.side = "sell" => b.price < a.price
===========================================================================
