-------------------------- MODULE SimRunnerProofs --------------------------
(***************************************************************************)
(* The sim_runner loop for every capacity, band, order size and length of  *)
(* run: its guard keeps the book from rejecting, its vector keeps track of *)
(* every open order, and the events it publishes reproduce the book.       *)
(***************************************************************************)
EXTENDS SimRunner, TLAPS, FiniteSetTheorems

USE RunnerAssumption

Takers == [id : Nat \ {0}, side : Sides, price : Prices, remaining : Nat]

---------------------------------------------------------------------------
(* Sets of orders with distinct ids. *)

Distinct(R) == \A m, n \in R : m.id = n.id => m = n

LEMMA OrderRecord ==
    ASSUME NEW m \in Orders
    PROVE  /\ m.id \in Nat \ {0} /\ m.side \in Sides /\ m.price \in Prices
           /\ m.qty \in Nat \ {0}
           /\ m = [id |-> m.id, side |-> m.side, price |-> m.price, qty |-> m.qty]
    BY DEF Orders

(* An order after a fill that leaves some of it. *)
Reduced(m, q) == [m EXCEPT !.qty = @ - q]

LEMMA ReducedOrder ==
    ASSUME NEW m \in Orders, NEW q \in Nat, q < m.qty
    PROVE  /\ Reduced(m, q) \in Orders /\ Reduced(m, q).id = m.id
           /\ Reduced(m, q).side = m.side /\ Reduced(m, q).price = m.price
           /\ Reduced(m, q).qty = m.qty - q
<1>1. /\ m.id \in Nat \ {0} /\ m.side \in Sides /\ m.price \in Prices
      /\ m.qty \in Nat \ {0}
      /\ m = [id |-> m.id, side |-> m.side, price |-> m.price, qty |-> m.qty]
    BY OrderRecord
<1>2. Reduced(m, q) = [id |-> m.id, side |-> m.side, price |-> m.price, qty |-> m.qty - q]
    BY <1>1 DEF Reduced
<1> QED
    BY <1>1, <1>2 DEF Orders

(* What a fill of q leaves of the orders R. *)
AfterFill(R, m, q) == (R \ {m}) \cup (IF q = m.qty THEN {} ELSE {Reduced(m, q)})

LEMMA FillOrders ==
    ASSUME NEW R, R \subseteq Orders, IsFiniteSet(R), Distinct(R),
           NEW m \in R, NEW q \in Nat, q =< m.qty
    PROVE  /\ AfterFill(R, m, q) \subseteq Orders
           /\ IsFiniteSet(AfterFill(R, m, q))
           /\ Cardinality(AfterFill(R, m, q)) =< Cardinality(R)
           /\ Distinct(AfterFill(R, m, q))
           /\ \A n \in AfterFill(R, m, q) : \E o \in R : o.id = n.id
<1>1. m.qty \in Nat /\ m \in Orders
    BY OrderRecord
<1>2. /\ IsFiniteSet(R \ {m}) /\ Cardinality(R \ {m}) = Cardinality(R) - 1
      /\ Cardinality(R) \in Nat
    BY FS_RemoveElement, FS_CardinalityType
<1>3. CASE q = m.qty
    <2>1. AfterFill(R, m, q) = R \ {m}
        BY <1>3 DEF AfterFill
    <2> QED
        BY <1>2, <2>1 DEF Distinct
<1>4. CASE q # m.qty
    <2>1. AfterFill(R, m, q) = (R \ {m}) \cup {Reduced(m, q)}
        BY <1>4 DEF AfterFill
    <2>2. Reduced(m, q) \in Orders /\ Reduced(m, q).id = m.id
        BY <1>1, <1>4, ReducedOrder
    <2>3. /\ IsFiniteSet((R \ {m}) \cup {Reduced(m, q)})
          /\ Cardinality((R \ {m}) \cup {Reduced(m, q)}) \in
                {Cardinality(R \ {m}), Cardinality(R \ {m}) + 1}
        BY <1>2, FS_AddElement
    <2>4. Distinct(AfterFill(R, m, q))
        BY <2>1, <2>2 DEF Distinct
    <2> QED
        BY <1>2, <2>1, <2>2, <2>3, <2>4
<1> QED
    BY <1>3, <1>4

(* Applying a Fill event by the maker's id gives the same.                 *)
LEMMA FillById ==
    ASSUME NEW R, R \subseteq Orders, Distinct(R), NEW m \in R, NEW q
    PROVE  { IF o.id = m.id THEN Reduced(o, q) ELSE o :
                o \in { s \in R : ~(s.id = m.id /\ s.qty = q) } } = AfterFill(R, m, q)
<1> DEFINE kept == { s \in R : ~(s.id = m.id /\ s.qty = q) }
<1>1. \A o \in R : o.id = m.id => o = m
    BY DEF Distinct
<1>2. CASE q = m.qty
    <2>1. kept = R \ {m}
        BY <1>1, <1>2
    <2>2. \A o \in kept : o.id # m.id
        BY <1>1, <2>1
    <2>3. { IF o.id = m.id THEN Reduced(o, q) ELSE o : o \in kept } = kept
        BY <2>2
    <2> QED
        BY <1>2, <2>1, <2>3 DEF AfterFill
<1>3. CASE q # m.qty
    <2>1. kept = R
        BY <1>1, <1>3
    <2>2. { IF o.id = m.id THEN Reduced(o, q) ELSE o : o \in R }
              = (R \ {m}) \cup {Reduced(m, q)}
        BY <1>1
    <2> QED
        BY <1>3, <2>1, <2>2 DEF AfterFill
<1> QED
    BY <1>2, <1>3

---------------------------------------------------------------------------
(* The publisher's steps. *)

LEMMA NoTakerIsNone == \A t \in Takers : t # Pub!Book!NoTaker
    BY DEF Takers, Pub!Book!NoTaker

LEMMA TakerRecord ==
    ASSUME TypeOK, ~Idle
    PROVE  /\ taker \in Takers
           /\ taker.id \in Nat \ {0} /\ taker.side \in Sides /\ taker.price \in Prices
           /\ taker.remaining \in Nat
           /\ taker = [id |-> taker.id, side |-> taker.side, price |-> taker.price,
                       remaining |-> taker.remaining]
    BY DEF TypeOK, Takers


(* What Inv says, in the terms of the lemmas. *)
LEMMA Unfold ==
    ASSUME Inv
    PROVE  /\ resting \subseteq Orders /\ IsFiniteSet(resting) /\ Distinct(resting)
           /\ Cardinality(resting) \in Nat
           /\ shadow = resting /\ (~Idle => qty - filled = taker.remaining)
           /\ qty \in Int /\ filled \in Int /\ next_id \in Nat \ {0}
           /\ open_ids \in Seq(Nat \ {0}) /\ Len(open_ids) \in Nat
    BY FS_CardinalityType
    DEF Inv, TypeOK, Ascending, Distinct, ShadowExact, Pub!ShadowExact, Pub!Residual, Idle

LEMMA OnFillStep ==
    ASSUME Inv, NEW m \in resting, Pub!OnFill(m)
    PROVE  /\ ~Idle /\ ~Idle' /\ taker' \in Takers /\ taker'.id = taker.id
           /\ resting' \subseteq Orders /\ IsFiniteSet(resting') /\ Distinct(resting')
           /\ Cardinality(resting') =< Cardinality(resting)
           /\ \A n \in resting' : \E o \in resting : o.id = n.id
           /\ shadow' = resting' /\ qty' - filled' = taker'.remaining
           /\ qty' \in Int /\ filled' \in Int /\ next_id' = next_id
           /\ event'.kind = "fill"
<1> DEFINE q == Pub!Book!Smaller(taker.remaining, m.qty)
<1>1. ~Idle
    BY DEF Pub!OnFill, Pub!Book!Fill, Idle
<1>2. taker \in Takers /\ taker.remaining \in Nat
    BY <1>1, TakerRecord DEF Inv
<1>3. m.qty \in Nat \ {0}
    BY Unfold, OrderRecord
<1>4. q \in Nat /\ q =< m.qty /\ q =< taker.remaining
    BY <1>2, <1>3 DEF Pub!Book!Smaller
<1>5. /\ event' = Pub!Book!FillEvent(m.id, taker, m.price, q)
      /\ taker' = [taker EXCEPT !.remaining = @ - q]
      /\ resting' = AfterFill(resting, m, q)
      /\ next_id' = next_id
    BY DEF Pub!OnFill, Pub!Book!Fill, AfterFill, Reduced
<1>6. event'.kind = "fill" /\ event'.id = m.id /\ event'.qty = q
    BY <1>5 DEF Pub!Book!FillEvent
<1>7. filled' = filled + q /\ qty' = qty /\ shadow' = Pub!ApplyFill(m.id, q)
    BY <1>6 DEF Pub!OnFill
<1> HIDE DEF q
<1>8. taker' \in Takers /\ taker'.id = taker.id /\ taker'.remaining = taker.remaining - q
    BY <1>2, <1>4, <1>5 DEF Takers
<1>9. /\ resting' \subseteq Orders /\ IsFiniteSet(resting') /\ Distinct(resting')
      /\ Cardinality(resting') =< Cardinality(resting)
      /\ \A n \in resting' : \E o \in resting : o.id = n.id
    BY <1>4, <1>5, Unfold, FillOrders
<1>10. shadow' = resting'
    <2>1. Pub!ApplyFill(m.id, q) =
              { IF o.id = m.id THEN Reduced(o, q) ELSE o :
                    o \in { r \in resting : ~(r.id = m.id /\ r.qty = q) } }
        BY Unfold DEF Pub!ApplyFill, Reduced
    <2> QED
        BY <1>5, <1>7, <2>1, Unfold, FillById
<1>11. qty' - filled' = taker'.remaining /\ qty' \in Int /\ filled' \in Int
    BY <1>1, <1>2, <1>4, <1>7, <1>8, Unfold
<1>12. ~Idle'
    BY <1>8, NoTakerIsNone DEF Idle
<1> QED
    BY <1>1, <1>5, <1>6, <1>8, <1>9, <1>10, <1>11, <1>12

(* An order that rests: the Ack carries what the book keeps of it.         *)
LEMMA AckStep ==
    ASSUME Inv, Pub!Ack
    PROVE  LET new == [id |-> taker.id, side |-> taker.side,
                       price |-> taker.price, qty |-> taker.remaining]
           IN /\ ~Idle /\ Idle' /\ new \in Orders
              /\ resting' = resting \cup {new} /\ shadow' = resting'
              /\ UNCHANGED <<qty, filled, next_id>>
              /\ event'.kind = "rested"
<1>1. ~Idle /\ taker.remaining > 0
    BY DEF Pub!Ack, Pub!Book!Rest, Pub!Book!Matched, Idle
<1>2. taker.id \in Nat \ {0} /\ taker.side \in Sides /\ taker.price \in Prices
      /\ taker.remaining \in Nat
    BY <1>1, TakerRecord DEF Inv
<1>3. [id |-> taker.id, side |-> taker.side, price |-> taker.price,
       qty |-> taker.remaining] \in Orders
    BY <1>1, <1>2 DEF Orders
<1>4. Idle' /\ event'.kind = "rested" /\ next_id' = next_id
    BY DEF Pub!Ack, Pub!Book!Rest, Pub!Book!Return, Pub!Book!OrderEvent, Idle
<1>5. Pub!Residual = taker.remaining /\ shadow = resting
    BY <1>1, Unfold DEF Pub!Residual
<1> QED
    BY <1>1, <1>3, <1>4, <1>5 DEF Pub!Ack, Pub!Book!Rest

(* The room kept for the order in flight is why NoAck is never a reject.   *)
LEMMA NoAckStep ==
    ASSUME Inv, Pub!NoAck
    PROVE  /\ ~Idle /\ Idle'
           /\ UNCHANGED <<resting, shadow, qty, filled, next_id>>
           /\ event'.kind = "filled"
<1>1. ~Idle
    BY DEF Pub!NoAck, Pub!Book!Filled, Pub!Book!Reject, Pub!Book!Matched, Idle
<1>2. taker.price \in Int /\ taker.price >= MinPrice /\ taker.price =< MaxPrice
    BY <1>1, TakerRecord DEF Inv
<1>3. Cardinality(resting) < Capacity
    BY <1>1 DEF Inv, RoomKept
<1>4. ~Pub!Book!Reject
    <2>0. Pub!Book!Cardinality(resting) = Cardinality(resting)
        BY DEF Pub!Book!Cardinality, Cardinality
    <2>1. Pub!Book!Room
        BY <1>2, <1>3, <2>0 DEF Pub!Book!Room, Pub!Book!InBand
    <2> QED
        BY <2>1 DEF Pub!Book!Reject
<1>5. Pub!Book!Filled
    BY <1>4 DEF Pub!NoAck
<1> QED
    BY <1>1, <1>5
    DEF Pub!NoAck, Pub!Book!Filled, Pub!Book!Return, Pub!Book!OrderEvent, Idle

LEMMA AddLimitStep ==
    ASSUME Inv, NEW side \in Sides, NEW px \in Prices, NEW q \in Quantities,
           Pub!AddLimit(side, px, q)
    PROVE  /\ Idle /\ ~Idle' /\ taker' \in Takers
           /\ taker'.id = next_id /\ next_id' = next_id + 1
           /\ UNCHANGED <<resting, shadow>>
           /\ qty' - filled' = taker'.remaining /\ qty' \in Int /\ filled' \in Int
           /\ event'.kind = "none"
<1>1. taker' = [id |-> next_id, side |-> side, price |-> px, remaining |-> q]
    BY DEF Pub!AddLimit, Pub!Book!AddLimit
<1>2. taker' \in Takers /\ taker'.id = next_id /\ taker'.remaining = q
    BY <1>1, Unfold DEF Takers
<1>3. ~Idle'
    BY <1>2, NoTakerIsNone DEF Idle
<1> QED
    BY <1>2, <1>3 DEF Pub!AddLimit, Pub!Book!AddLimit, Pub!Book!NoEvent, Idle

(* A cancel takes the order with that id, if there is one, off both books. *)
LEMMA CancelStep ==
    ASSUME Inv, NEW id, Pub!Cancel(id)
    PROVE  /\ Idle /\ Idle'
           /\ resting' \subseteq resting /\ shadow' = resting'
           /\ \A m \in resting' : m.id # id
           /\ \A m \in resting : m.id # id => m \in resting'
           /\ UNCHANGED <<qty, filled, next_id>>
           /\ event'.kind \in {"cancel", "unknown"}
<1>1. ASSUME NEW m \in resting, m.id = id, Pub!Book!Cancel(m),
             shadow' = shadow \ {[id |-> id, side |-> event'.side,
                                  price |-> event'.price, qty |-> event'.qty]}
      PROVE  /\ Idle /\ Idle'
             /\ resting' \subseteq resting /\ shadow' = resting'
             /\ \A n \in resting' : n.id # id
             /\ \A n \in resting : n.id # id => n \in resting'
             /\ next_id' = next_id
             /\ event'.kind \in {"cancel", "unknown"}
    <2>1. resting' = resting \ {m}
          /\ event' = Pub!Book!OrderEvent("cancel", m.id, m.side, m.price, m.qty)
          /\ UNCHANGED <<taker, next_id>> /\ Idle
        BY <1>1 DEF Pub!Book!Cancel, Idle
    <2>2. event'.kind = "cancel" /\ event'.side = m.side /\ event'.price = m.price
          /\ event'.qty = m.qty
        BY <2>1 DEF Pub!Book!OrderEvent
    <2>3. m = [id |-> id, side |-> event'.side, price |-> event'.price, qty |-> event'.qty]
        BY <1>1, <2>2, Unfold, OrderRecord
    <2>4. shadow' = resting'
        BY <1>1, <2>1, <2>3, Unfold
    <2>5. \A n \in resting : n.id = id => n = m
        BY <1>1, Unfold DEF Distinct
    <2> QED
        BY <1>1, <2>1, <2>2, <2>4, <2>5 DEF Idle
<1>2. ASSUME Pub!Book!CancelUnknown(id), UNCHANGED <<qty, filled, shadow>>
      PROVE  /\ Idle /\ Idle'
             /\ resting' = resting /\ shadow' = resting'
             /\ \A n \in resting' : n.id # id
             /\ next_id' = next_id
             /\ event'.kind = "unknown"
    BY <1>2, Unfold DEF Pub!Book!CancelUnknown, Pub!Book!OrderEvent, Idle
<1> QED
    BY <1>1, <1>2 DEF Pub!Cancel

---------------------------------------------------------------------------
(* The vector of ids. *)

IdSeq == Seq(Nat \ {0})
NoRepeats(v) == \A i, j \in 1 .. Len(v) : v[i] = v[j] => i = j
Has(v, x) == \E i \in 1 .. Len(v) : v[i] = x

(* Removing the entry at i, by a swap with the back or because it is the   *)
(* back, removes that id and no other.                                     *)
LEMMA SwapPopRemoves ==
    ASSUME NEW v \in IdSeq, NEW i \in 1 .. Len(v), NoRepeats(v)
    PROVE  /\ SwapPop(v, i) \in IdSeq /\ NoRepeats(SwapPop(v, i))
           /\ \A x : Has(SwapPop(v, i), x) => Has(v, x)
           /\ \A x : Has(v, x) /\ x # v[i] => Has(SwapPop(v, i), x)
<1> DEFINE n == Len(v)
           w == SwapPop(v, i)
<1>1. n \in Nat /\ n >= 1 /\ v[n] \in Nat \ {0}
    BY DEF IdSeq
<1>2. /\ [v EXCEPT ![i] = v[n]] \in IdSeq /\ Len([v EXCEPT ![i] = v[n]]) = n
      /\ \A j \in 1 .. n : [v EXCEPT ![i] = v[n]][j] = IF j = i THEN v[n] ELSE v[j]
    BY <1>1 DEF IdSeq
<1>3. /\ w \in IdSeq /\ Len(w) = n - 1
      /\ \A j \in 1 .. n - 1 : w[j] = IF j = i THEN v[n] ELSE v[j]
    BY <1>1, <1>2 DEF IdSeq, SwapPop, PopBack, Back
<1> HIDE DEF w
<1>4. NoRepeats(w)
    BY <1>1, <1>3 DEF NoRepeats
<1>5. \A x : Has(w, x) => Has(v, x)
    BY <1>1, <1>3 DEF Has
<1>6. ASSUME NEW x, Has(v, x), x # v[i] PROVE Has(w, x)
    <2>1. PICK j \in 1 .. n : v[j] = x
        BY <1>6 DEF Has
    <2>2. CASE j = n
        <3>1. i \in 1 .. n - 1
            BY <1>1, <1>6, <2>1, <2>2
        <3> QED
            BY <1>3, <2>1, <2>2, <3>1 DEF Has
    <2>3. CASE j # n
        <3>1. j \in 1 .. n - 1 /\ j # i
            BY <1>1, <1>6, <2>1, <2>3
        <3> QED
            BY <1>3, <2>1, <3>1 DEF Has
    <2> QED
        BY <2>2, <2>3
<1> QED
    BY <1>3, <1>4, <1>5, <1>6 DEF w

LEMMA PopBackIsSwapPop ==
    ASSUME NEW v \in IdSeq, v # <<>>
    PROVE  Len(v) \in 1 .. Len(v) /\ PopBack(v) = SwapPop(v, Len(v))
<1>1. Len(v) \in 1 .. Len(v)
    BY DEF IdSeq
<1>2. [v EXCEPT ![Len(v)] = v[Len(v)]] = v
    BY <1>1 DEF IdSeq
<1> QED
    BY <1>1, <1>2 DEF SwapPop, Back

LEMMA AppendId ==
    ASSUME NEW v \in IdSeq, NEW x \in Nat \ {0}, NoRepeats(v), ~Has(v, x)
    PROVE  /\ Append(v, x) \in IdSeq /\ NoRepeats(Append(v, x))
           /\ \A y : Has(Append(v, x), y) <=> Has(v, y) \/ y = x
<1> DEFINE w == Append(v, x)
           n == Len(v)
<1>1. /\ w \in IdSeq /\ Len(w) = n + 1 /\ w[n + 1] = x /\ n \in Nat
      /\ \A j \in 1 .. n : w[j] = v[j]
    BY DEF IdSeq
<1> HIDE DEF w
<1>2. NoRepeats(w)
    BY <1>1 DEF NoRepeats, Has
<1>3. ASSUME NEW y PROVE Has(w, y) <=> Has(v, y) \/ y = x
    <2>1. Has(w, y) => Has(v, y) \/ y = x
        BY <1>1 DEF Has
    <2>2. Has(v, y) => Has(w, y)
        BY <1>1 DEF Has
    <2>3. Has(w, x)
        BY <1>1 DEF Has
    <2> QED
        BY <2>1, <2>2, <2>3
<1> QED
    BY <1>1, <1>2, <1>3 DEF w

---------------------------------------------------------------------------
(* The invariant in the terms of the lemmas: what a step has to show.      *)
Good ==
    /\ resting \subseteq Orders /\ IsFiniteSet(resting) /\ Distinct(resting)
    /\ Idle \/ taker \in Takers
    /\ next_id \in Nat \ {0} /\ qty \in Int /\ filled \in Int
    /\ open_ids \in IdSeq /\ NoRepeats(open_ids)
    /\ \A m \in resting : Has(open_ids, m.id)
    /\ \A x : Has(open_ids, x) => x < NextToRest
    /\ ~Idle => taker.id < next_id /\ Cardinality(resting) < Capacity
    /\ event.kind # "rejected"
    /\ shadow = resting
    /\ ~Idle => qty - filled = taker.remaining

LEMMA GoodIsInv == Good => Inv
<1> SUFFICES ASSUME Good PROVE Inv
    OBVIOUS
<1> USE DEF Good
<1>1. TypeOK
    BY DEF TypeOK, Takers, IdSeq
<1>2. \A m \in resting : m.id < NextToRest
    OBVIOUS
<1>3. Ascending /\ RoomKept
    BY <1>2 DEF Ascending, Distinct, RoomKept, Has
<1>4. Tracked /\ OpenTracked /\ NeverRejected
    BY DEF Tracked, OpenTracked, NeverRejected, Has, NoRepeats
<1>5. ShadowExact
    BY DEF ShadowExact, Pub!ShadowExact, Pub!Residual, Idle
<1> QED
    BY <1>1, <1>3, <1>4, <1>5 DEF Inv

LEMMA VectorFacts ==
    ASSUME Inv
    PROVE  /\ open_ids \in IdSeq /\ NoRepeats(open_ids)
           /\ \A m \in resting : Has(open_ids, m.id)
           /\ \A x : Has(open_ids, x) => x < NextToRest /\ x \in Nat \ {0}
    BY DEF Inv, TypeOK, OpenTracked, Tracked, Ascending, Has, NoRepeats, IdSeq

LEMMA GoodIsInvNext == Good' => Inv'
    BY GoodIsInv, PTL

(* A cancel of the id at i, together with its removal from the vector.     *)
LEMMA CancelAt ==
    ASSUME Inv, NEW i \in 1 .. Len(open_ids), Pub!Cancel(open_ids[i]),
           open_ids' = SwapPop(open_ids, i)
    PROVE  Good'
<1>1. /\ Idle /\ Idle' /\ resting' \subseteq resting /\ shadow' = resting'
      /\ \A m \in resting' : m.id # open_ids[i]
      /\ UNCHANGED <<qty, filled, next_id>>
      /\ event'.kind \in {"cancel", "unknown"}
    BY CancelStep
<1>2. /\ open_ids' \in IdSeq /\ NoRepeats(open_ids')
      /\ \A x : Has(open_ids', x) => Has(open_ids, x)
      /\ \A x : Has(open_ids, x) /\ x # open_ids[i] => Has(open_ids', x)
    BY VectorFacts, SwapPopRemoves
<1>3. resting' \subseteq Orders /\ IsFiniteSet(resting') /\ Distinct(resting')
    BY <1>1, Unfold, FS_Subset DEF Distinct
<1>4. \A m \in resting' : Has(open_ids', m.id)
    BY <1>1, <1>2, VectorFacts
<1>5. NextToRest' = NextToRest
    BY <1>1 DEF NextToRest
<1>6. \A x : Has(open_ids', x) => x < NextToRest'
    BY <1>2, <1>5, VectorFacts
<1> QED
    BY <1>1, <1>2, <1>3, <1>4, <1>6, Unfold DEF Good

LEMMA NextGood ==
    ASSUME Inv, Next
    PROVE  Good'
<1>1. CASE RandomCancel
    BY <1>1, CancelAt DEF RandomCancel
<1>2. CASE Evict
    <2>1. Len(open_ids) \in 1 .. Len(open_ids)
          /\ open_ids' = SwapPop(open_ids, Len(open_ids))
        BY <1>2, VectorFacts, PopBackIsSwapPop DEF Evict
    <2> QED
        BY <1>2, <2>1, CancelAt DEF Evict, Back
<1>3. CASE Add
    <2>1. PICK side \in Sides, px \in Prices, q \in Quantities : Pub!AddLimit(side, px, q)
        BY <1>3 DEF Add
    <2>2. /\ Idle /\ ~Idle' /\ taker' \in Takers
          /\ taker'.id = next_id /\ next_id' = next_id + 1
          /\ UNCHANGED <<resting, shadow>>
          /\ qty' - filled' = taker'.remaining /\ qty' \in Int /\ filled' \in Int
          /\ event'.kind = "none"
        BY <2>1, AddLimitStep
    <2>3. NextToRest' = NextToRest
        BY <2>2 DEF NextToRest
    <2>4. open_ids' = open_ids
        BY <1>3 DEF Add
    <2>5. Cardinality(resting') < Capacity
        <3>1. ~(Cardinality(resting) >= Capacity - Headroom)
            BY <1>3 DEF Add, NearlyFull
        <3>2. Cardinality(resting) \in Nat
            BY Unfold, FS_CardinalityType
        <3>3. Capacity \in Nat /\ Headroom \in 1 .. Capacity
            BY RunnerAssumption
        <3>4. Cardinality(resting) < Capacity
            BY <3>1, <3>2, <3>3
        <3> QED
            BY <2>2, <3>4
    <2>6. taker'.id < next_id' /\ next_id' \in Nat \ {0}
        BY <2>2, Unfold
    <2> QED
        BY <2>2, <2>3, <2>4, <2>5, <2>6, Unfold, VectorFacts DEF Good
<1>4. CASE Filling
    <2>1. PICK m \in resting : Pub!OnFill(m)
        BY <1>4 DEF Filling
    <2>2. /\ ~Idle /\ ~Idle' /\ taker' \in Takers /\ taker'.id = taker.id
          /\ resting' \subseteq Orders /\ IsFiniteSet(resting') /\ Distinct(resting')
          /\ Cardinality(resting') =< Cardinality(resting)
          /\ \A n \in resting' : \E o \in resting : o.id = n.id
          /\ shadow' = resting' /\ qty' - filled' = taker'.remaining
          /\ qty' \in Int /\ filled' \in Int /\ next_id' = next_id
          /\ event'.kind = "fill"
        BY <2>1, OnFillStep
    <2>3. NextToRest' = NextToRest
        BY <2>2 DEF NextToRest
    <2>4. open_ids' = open_ids
        BY <1>4 DEF Filling
    <2>5. \A n \in resting' : Has(open_ids', n.id)
        BY <2>2, <2>4, VectorFacts
    <2>6. Cardinality(resting') < Capacity /\ taker'.id < next_id'
        <3>1. Cardinality(resting') \in Nat
            BY <2>2, FS_CardinalityType
        <3>2. Cardinality(resting) < Capacity /\ taker.id < next_id
            BY <2>2 DEF Inv, RoomKept, Ascending
        <3> QED
            BY <2>2, <3>1, <3>2, Unfold
    <2> QED
        BY <2>2, <2>3, <2>4, <2>5, <2>6, Unfold, VectorFacts DEF Good
<1>5. CASE AddReturns
    <2>1. ~Idle /\ Idle' /\ UNCHANGED <<qty, filled, next_id>> /\ shadow' = resting'
          /\ event'.kind \in {"rested", "filled"}
          /\ \/ resting' = resting
             \/ LET new == [id |-> taker.id, side |-> taker.side,
                            price |-> taker.price, qty |-> taker.remaining]
                IN new \in Orders /\ resting' = resting \cup {new}
        BY <1>5, AckStep, NoAckStep, Unfold DEF AddReturns
    <2>2. open_ids' = Append(open_ids, taker.id)
        BY <1>5, <2>1 DEF AddReturns
    <2>3. taker.id \in Nat \ {0} /\ taker.id < next_id /\ NextToRest = taker.id
        BY <2>1, TakerRecord DEF Inv, Ascending, NextToRest
    <2>4. ~Has(open_ids, taker.id)
        BY <2>3, VectorFacts
    <2>5. /\ open_ids' \in IdSeq /\ NoRepeats(open_ids')
          /\ \A x : Has(open_ids', x) <=> Has(open_ids, x) \/ x = taker.id
        BY <2>2, <2>3, <2>4, VectorFacts, AppendId
    <2>6. \A m \in resting : m.id # taker.id
        BY <2>4, VectorFacts
    <2>7. resting' \subseteq Orders /\ IsFiniteSet(resting') /\ Distinct(resting')
        BY <2>1, <2>6, Unfold, FS_AddElement DEF Distinct
    <2>8. \A m \in resting' : Has(open_ids', m.id)
        BY <2>1, <2>5, VectorFacts
    <2>9. NextToRest' = next_id
        BY <2>1 DEF NextToRest
    <2>10. ASSUME NEW x, Has(open_ids', x) PROVE x < NextToRest'
        <3>1. CASE x = taker.id
            BY <2>3, <2>9, <3>1
        <3>2. CASE Has(open_ids, x)
            <4>1. x \in Nat /\ x < taker.id
                BY <2>3, <3>2, VectorFacts
            <4> QED
                BY <2>3, <2>9, <4>1, Unfold
        <3> QED
            BY <2>5, <2>10, <3>1, <3>2
    <2> QED
        BY <2>1, <2>5, <2>7, <2>8, <2>10, Unfold DEF Good
<1> QED
    BY <1>1, <1>2, <1>3, <1>4, <1>5 DEF Next, Loop

LEMMA InitGood == Init => Good
<1> SUFFICES ASSUME Init PROVE Good
    OBVIOUS
<1>1. /\ resting = {} /\ Idle /\ event.kind = "none" /\ next_id = 1
      /\ qty = 0 /\ filled = 0 /\ shadow = {} /\ open_ids = <<>>
    BY DEF Init, Pub!Init, Pub!Book!Init, Pub!Book!NoEvent, Idle
<1>2. IsFiniteSet(resting) /\ Distinct(resting)
    BY <1>1, FS_EmptySet DEF Distinct
<1>3. open_ids \in IdSeq /\ Len(open_ids) = 0
    BY <1>1 DEF IdSeq
<1>4. NoRepeats(open_ids) /\ \A x : ~Has(open_ids, x)
    BY <1>3 DEF NoRepeats, Has
<1> QED
    BY <1>1, <1>2, <1>3, <1>4 DEF Good

LEMMA NextInv == Inv /\ [Next]_vars => Inv'
<1> SUFFICES ASSUME Inv, [Next]_vars PROVE Inv'
    OBVIOUS
<1>1. CASE Next
    BY <1>1, NextGood, GoodIsInvNext
<1>2. CASE UNCHANGED vars
    <2>1. Good'
        <3>1. /\ resting' = resting /\ taker' = taker /\ event' = event /\ next_id' = next_id
              /\ qty' = qty /\ filled' = filled /\ shadow' = shadow /\ open_ids' = open_ids
            BY <1>2 DEF vars, pubVars
        <3>2. Idle' = Idle /\ NextToRest' = NextToRest
            BY <3>1 DEF Idle, NextToRest
        <3>3. /\ Idle \/ taker \in Takers
              /\ ~Idle => taker.id < next_id /\ Cardinality(resting) < Capacity
              /\ event.kind # "rejected"
            BY TakerRecord DEF Inv, RoomKept, Ascending, NeverRejected
        <3> QED
            BY <3>1, <3>2, <3>3, Unfold, VectorFacts DEF Good
    <2> QED
        BY <2>1, GoodIsInvNext
<1> QED
    BY <1>1, <1>2

(* The inductive invariant holds throughout. *)
THEOREM Invariance == Spec => []Inv
    BY InitGood, GoodIsInv, NextInv, PTL DEF Spec

(* The eviction guard is enough: whatever the random walk, the book never  *)
(* refuses an order.                                                       *)
THEOREM NeverRejectedHolds == Spec => []NeverRejected
<1>1. Inv => NeverRejected
    BY DEF Inv
<1> QED
    BY <1>1, Invariance, PTL

(* The swap-and-pop vector loses no open order and repeats none. *)
THEOREM OpenTrackedHolds == Spec => []OpenTracked
<1>1. Inv => OpenTracked
    BY DEF Inv
<1> QED
    BY <1>1, Invariance, PTL

(* A reader that applies the published events has the book, at every step. *)
THEOREM ShadowExactHolds == Spec => []ShadowExact
<1>1. Inv => ShadowExact
    BY DEF Inv
<1> QED
    BY <1>1, Invariance, PTL
============================================================================
