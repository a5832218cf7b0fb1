--------------------------- MODULE SimEnvProofs ---------------------------
(***************************************************************************)
(* The learning environment for every parent, horizon, lifetime, burst,    *)
(* capacity, float precision and word: an episode starts with an empty     *)
(* book, its accounts add up for every action, NaN included,               *)
(* every trade has the child order on one side, and the background depth   *)
(* is bounded.                                                             *)
(***************************************************************************)
EXTENDS SimEnv, TLAPS, FiniteSetTheorems, SequenceTheorems, WellFoundedInduction

USE EnvAssumption

LEMMA MaxOrdersNat == MaxOrders \in Nat
    BY DEF MaxOrders

(* Up to the precision of a float, a number for an action never asks for   *)
(* more than what is left: only a NaN does.                                *)
LEMMA FloatSizesFit ==
    ASSUME remaining \in Nat, remaining =< FloatExact, NEW q \in FloatSizes(remaining)
    PROVE  q \in 0 .. remaining
    BY DEF FloatSizes, FloatExcess

(* A child has a natural size. *)
LEMMA ChildSizeIsNat ==
    ASSUME remaining \in Nat, NEW q \in ChildSizes
    PROVE  q \in Nat
<1>1. Word \div 2 \in Nat /\ Word - 1 \in Nat
    OBVIOUS
<1>2. CASE Terminal
    BY <1>2 DEF ChildSizes
<1>3. CASE ~Terminal
    <2>1. CASE q \in FloatSizes(remaining)
        BY <2>1 DEF FloatSizes
    <2>2. CASE q \in NaNSizes
        BY <1>1, <2>2 DEF NaNSizes
    <2> QED
        BY <1>3, <2>1, <2>2 DEF ChildSizes
<1> QED
    BY <1>2, <1>3

---------------------------------------------------------------------------
(* A nonempty set of naturals has a least element, and so a nonempty set   *)
(* of integers within bounds has a greatest and a least.                   *)

Below == { p \in Nat \X Nat : p[1] < p[2] }

LEMMA BelowWellFounded == IsWellFoundedOn(Below, Nat)
    BY NatLessThanWellFounded DEF OpToRel, Below

LEMMA LeastNat ==
    ASSUME NEW S, S \subseteq Nat, S # {}
    PROVE  \E x \in S : \A y \in S : x =< y
<1>1. PICK x \in S : \A y \in S : ~(<<y, x>> \in Below)
    BY BelowWellFounded, WFMin
<1>2. ASSUME NEW y \in S PROVE x =< y
    <2>1. x \in Nat /\ y \in Nat
        OBVIOUS
    <2>2. <<y, x>> \in Nat \X Nat /\ <<y, x>>[1] = y /\ <<y, x>>[2] = x
        BY <2>1
    <2>3. ~(y < x)
        BY <1>1, <2>2 DEF Below
    <2> QED
        BY <2>1, <2>3
<1> QED
    BY <1>2

LEMMA MaxOfSome ==
    ASSUME NEW a \in Int, NEW b \in Int, NEW S, S \subseteq a .. b, S # {}
    PROVE  Max(S) \in S
<1> DEFINE D == { n \in Nat : b - n \in S }
<1>1. ASSUME NEW y \in S PROVE b - y \in D
    OBVIOUS
<1>2. D # {} /\ D \subseteq Nat
    BY <1>1
<1>3. PICK n \in D : \A i \in D : n =< i
    BY <1>2, LeastNat
<1>4. b - n \in S /\ \A y \in S : b - n >= y
    BY <1>1, <1>3
<1> QED
    BY <1>4 DEF Max

LEMMA MinOfSome ==
    ASSUME NEW a \in Int, NEW b \in Int, NEW S, S \subseteq a .. b, S # {}
    PROVE  Min(S) \in S
<1> DEFINE D == { n \in Nat : a + n \in S }
<1>1. ASSUME NEW y \in S PROVE y - a \in D
    OBVIOUS
<1>2. D # {} /\ D \subseteq Nat
    BY <1>1
<1>3. PICK n \in D : \A i \in D : n =< i
    BY <1>2, LeastNat
<1>4. a + n \in S /\ \A y \in S : a + n =< y
    BY <1>1, <1>3
<1> QED
    BY <1>4 DEF Min

(* The touch is a price of the band. *)
LEMMA TouchInBand ==
    ASSUME resting \subseteq Orders
    PROVE  BestBid \in Prices /\ BestAsk \in Prices
<1>1. \A side : SidePrices(side) \subseteq MinPrice .. MaxPrice
    BY DEF SidePrices, Orders, Prices
<1>2. SidePrices("buy") # {} => Max(SidePrices("buy")) \in Prices
    BY <1>1, MaxOfSome DEF Prices
<1>3. SidePrices("sell") # {} => Min(SidePrices("sell")) \in Prices
    BY <1>1, MinOfSome DEF Prices
<1> QED
    BY <1>2, <1>3 DEF BestBid, BestAsk, Prices

---------------------------------------------------------------------------
(* Sets of orders with distinct ids. *)

Distinct(R) == \A m, n \in R : m.id = n.id => m = n

LEMMA OrderRecord ==
    ASSUME NEW m \in Orders
    PROVE  /\ m.id \in 1 .. MaxOrders /\ m.side \in {"buy", "sell"} /\ m.price \in Prices
           /\ m.qty \in Nat \ {0} /\ m.id \in Nat /\ m.price \in Int
           /\ m = [id |-> m.id, side |-> m.side, price |-> m.price, qty |-> m.qty]
    BY MaxOrdersNat DEF Orders, Prices

LEMMA TakerRecord ==
    ASSUME NEW t \in Takers
    PROVE  /\ t.id \in 1 .. MaxOrders /\ t.side \in {"buy", "sell"} /\ t.price \in Prices
           /\ t.remaining \in Nat /\ t.id \in Nat /\ t.price \in Int
           /\ t # Pub!Book!NoTaker
           /\ t = [id |-> t.id, side |-> t.side, price |-> t.price,
                   remaining |-> t.remaining]
    BY MaxOrdersNat DEF Takers, Prices, Pub!Book!NoTaker

(* n is what is left of o: same id, same side, same price. *)
SameOrder(n, o) == n.id = o.id /\ n.side = o.side /\ n.price = o.price

Reduced(m, q) == [m EXCEPT !.qty = @ - q]

LEMMA ReducedOrder ==
    ASSUME NEW m \in Orders, NEW q \in Nat, q < m.qty
    PROVE  Reduced(m, q) \in Orders /\ SameOrder(Reduced(m, q), m)
<1>1. /\ m.id \in 1 .. MaxOrders /\ m.side \in {"buy", "sell"} /\ m.price \in Prices
      /\ m.qty \in Nat \ {0}
      /\ m = [id |-> m.id, side |-> m.side, price |-> m.price, qty |-> m.qty]
    BY OrderRecord
<1>2. Reduced(m, q) = [id |-> m.id, side |-> m.side, price |-> m.price, qty |-> m.qty - q]
    BY <1>1 DEF Reduced
<1> QED
    BY <1>1, <1>2 DEF Orders, SameOrder

(* What a fill of q leaves of the orders R. *)
AfterFill(R, m, q) == (R \ {m}) \cup (IF q = m.qty THEN {} ELSE {Reduced(m, q)})

LEMMA FillOrders ==
    ASSUME NEW R, R \subseteq Orders, IsFiniteSet(R), Distinct(R),
           NEW m \in R, NEW q \in Nat, q =< m.qty
    PROVE  /\ AfterFill(R, m, q) \subseteq Orders
           /\ IsFiniteSet(AfterFill(R, m, q))
           /\ Distinct(AfterFill(R, m, q))
           /\ \A n \in AfterFill(R, m, q) : \E o \in R : SameOrder(n, o)
<1>1. m.qty \in Nat /\ m \in Orders
    BY OrderRecord
<1>2. IsFiniteSet(R \ {m})
    BY FS_RemoveElement
<1>3. CASE q = m.qty
    <2>1. AfterFill(R, m, q) = R \ {m}
        BY <1>3 DEF AfterFill
    <2> QED
        BY <1>2, <2>1 DEF Distinct, SameOrder
<1>4. CASE q # m.qty
    <2>1. AfterFill(R, m, q) = (R \ {m}) \cup {Reduced(m, q)}
        BY <1>4 DEF AfterFill
    <2>2. Reduced(m, q) \in Orders /\ SameOrder(Reduced(m, q), m)
        BY <1>1, <1>4, ReducedOrder
    <2>3. IsFiniteSet((R \ {m}) \cup {Reduced(m, q)})
        BY <1>2, FS_AddElement
    <2>4. Distinct(AfterFill(R, m, q))
        BY <2>1, <2>2 DEF Distinct, SameOrder
    <2> QED
        BY <1>2, <2>1, <2>2, <2>3, <2>4 DEF SameOrder
<1> QED
    BY <1>3, <1>4

---------------------------------------------------------------------------
(* The publisher's steps. *)

BookOK == resting \subseteq Orders /\ IsFiniteSet(resting) /\ Distinct(resting)

LEMMA OnFillStep ==
    ASSUME BookOK, taker \in Takers, NEW m \in resting, Pub!OnFill(m)
    PROVE  /\ BookOK' /\ taker' \in Takers
           /\ taker'.id = taker.id /\ taker'.side = taker.side
           /\ taker'.price = taker.price
           /\ \A n \in resting' : \E o \in resting : SameOrder(n, o)
           /\ \E q \in Nat : /\ q =< taker.remaining /\ filled' = filled + q
                             /\ taker'.remaining = taker.remaining - q
           /\ qty' = qty /\ next_id' = next_id
           /\ event'.kind = "fill" /\ event'.id = m.id /\ event'.counter = taker.id
           /\ m.side = Pub!Book!Opp(taker.side) /\ Pub!Book!Crosses(taker, m.price)
<1> DEFINE q == Pub!Book!Smaller(taker.remaining, m.qty)
<1>1. m \in Orders /\ m.qty \in Nat /\ taker.remaining \in Nat
    BY OrderRecord, TakerRecord DEF BookOK
<1>2. q \in Nat /\ q =< m.qty /\ q =< taker.remaining
    BY <1>1 DEF Pub!Book!Smaller
<1>3. /\ event' = Pub!Book!FillEvent(m.id, taker, m.price, q)
      /\ taker' = [taker EXCEPT !.remaining = @ - q]
      /\ resting' = AfterFill(resting, m, q)
      /\ next_id' = next_id /\ m \in Pub!Book!Makers
    BY DEF Pub!OnFill, Pub!Book!Fill, AfterFill, Reduced
<1>4. /\ event'.kind = "fill" /\ event'.id = m.id /\ event'.qty = q
      /\ event'.counter = taker.id
    BY <1>3 DEF Pub!Book!FillEvent
<1>5. filled' = filled + q /\ qty' = qty
    BY <1>4 DEF Pub!OnFill
<1>6. m.side = Pub!Book!Opp(taker.side) /\ Pub!Book!Crosses(taker, m.price)
    BY <1>3 DEF Pub!Book!Makers
<1> HIDE DEF q
<1>7. /\ taker' \in Takers /\ taker'.remaining = taker.remaining - q
      /\ taker'.id = taker.id /\ taker'.side = taker.side /\ taker'.price = taker.price
    <2>1. taker' = [id |-> taker.id, side |-> taker.side, price |-> taker.price,
                    remaining |-> taker.remaining - q]
        BY <1>3, TakerRecord
    <2>2. taker.remaining - q \in Nat
        BY <1>1, <1>2
    <2> QED
        BY <2>1, <2>2, TakerRecord DEF Takers
<1>8. BookOK' /\ \A n \in resting' : \E o \in resting : SameOrder(n, o)
    BY <1>2, <1>3, FillOrders DEF BookOK
<1> QED
    BY <1>2, <1>3, <1>4, <1>5, <1>6, <1>7, <1>8

(* AddLimit returns: the remainder rests, or there is none, or it is dropped. *)
Remainder == [id |-> taker.id, side |-> taker.side, price |-> taker.price,
              qty |-> taker.remaining]

LEMMA ReturnStep ==
    ASSUME taker \in Takers, Pub!Ack \/ Pub!NoAck
    PROVE  /\ taker' = Pub!Book!NoTaker
           /\ UNCHANGED <<qty, filled, next_id>>
           /\ \/ resting' = resting /\ event'.kind \in {"filled", "rejected"}
              \/ /\ resting' = resting \cup {Remainder} /\ Remainder \in Orders
                 /\ event'.kind = "rested" /\ taker.remaining > 0
<1>1. CASE Pub!Ack
    <2>1. taker.remaining > 0 /\ resting' = resting \cup {Remainder}
          /\ taker' = Pub!Book!NoTaker /\ event'.kind = "rested"
          /\ UNCHANGED <<qty, filled, next_id>>
        BY <1>1 DEF Pub!Ack, Pub!Book!Rest, Pub!Book!Return, Pub!Book!OrderEvent, Remainder
    <2>2. Remainder \in Orders
        BY <2>1, TakerRecord DEF Remainder, Orders
    <2> QED
        BY <2>1, <2>2
<1>2. CASE Pub!NoAck
    BY <1>2 DEF Pub!NoAck, Pub!Book!Filled, Pub!Book!Reject, Pub!Book!Return,
                Pub!Book!OrderEvent
<1> QED
    BY <1>1, <1>2

LEMMA AddLimitStep ==
    ASSUME NEW side \in {"buy", "sell"}, NEW px \in Prices, NEW q \in Nat \ {0},
           next_id \in 1 .. MaxOrders + 1, Pub!AddLimit(side, px, q)
    PROVE  /\ taker' \in Takers /\ taker'.id = next_id /\ taker'.side = side
           /\ taker'.price = px /\ taker'.remaining = q
           /\ next_id' = next_id + 1 /\ next_id \in 1 .. MaxOrders
           /\ resting' = resting /\ qty' = q /\ filled' = 0
           /\ event'.kind = "none"
<1>1. taker' = [id |-> next_id, side |-> side, price |-> px, remaining |-> q]
    BY DEF Pub!AddLimit, Pub!Book!AddLimit
<1>2. next_id \in 1 .. MaxOrders
    BY MaxOrdersNat DEF Pub!AddLimit, Pub!Book!AddLimit
<1> QED
    BY <1>1, <1>2 DEF Takers, Pub!AddLimit, Pub!Book!AddLimit, Pub!Book!NoEvent

(* A cancel leaves no order with that id and every other. *)
LEMMA CancelStep ==
    ASSUME BookOK, NEW id, Pub!Cancel(id)
    PROVE  /\ BookOK' /\ resting' \subseteq resting
           /\ \A m \in resting' : m.id # id
           /\ UNCHANGED <<taker, qty, filled, next_id>>
           /\ event'.kind \in {"cancel", "unknown"}
<1>1. ASSUME NEW m \in resting, m.id = id, Pub!Book!Cancel(m)
      PROVE  /\ resting' \subseteq resting /\ \A n \in resting' : n.id # id
             /\ UNCHANGED <<taker, next_id>> /\ event'.kind = "cancel"
    BY <1>1 DEF Pub!Book!Cancel, Pub!Book!OrderEvent, BookOK, Distinct
<1>2. ASSUME Pub!Book!CancelUnknown(id)
      PROVE  /\ resting' = resting /\ \A n \in resting' : n.id # id
             /\ UNCHANGED <<taker, next_id>> /\ event'.kind = "unknown"
    BY <1>2 DEF Pub!Book!CancelUnknown, Pub!Book!OrderEvent
<1>3. /\ resting' \subseteq resting /\ \A n \in resting' : n.id # id
      /\ UNCHANGED <<taker, qty, filled, next_id>>
      /\ event'.kind \in {"cancel", "unknown"}
    BY <1>1, <1>2 DEF Pub!Cancel
<1>4. BookOK'
    BY <1>3, FS_Subset DEF BookOK, Distinct
<1> QED
    BY <1>3, <1>4

---------------------------------------------------------------------------
(* Outside of matching: cancels, and steps that leave the book alone.      *)

LEMMA Unfold ==
    ASSUME Inv
    PROVE  /\ BookOK /\ next_id \in 1 .. MaxOrders + 1 /\ next_id \in Nat
           /\ Matching => taker \in Takers /\ taker.id < next_id
           /\ ~Matching => taker = Pub!Book!NoTaker /\ event.kind # "fill"
           /\ resting_ids \in Seq(1 .. MaxOrders) /\ Len(resting_ids) \in Nat
           /\ bg \in Seq([id : 1 .. MaxOrders, birth : 0 .. Horizon])
           /\ Len(bg) \in Nat /\ bg_head \in 1 .. Len(bg) + 1
           /\ step_idx \in Nat /\ k \in Nat
    BY MaxOrdersNat
    DEF Inv, TypeOK, OneCall, Ascending, Tracked, BookOK, Distinct

LEMMA BirthNat ==
    ASSUME Inv
    PROVE  /\ \A i \in 1 .. Len(bg) : bg[i].birth \in Nat /\ bg[i].id \in 1 .. MaxOrders
           /\ bg_head =< Len(bg) => bg_head \in 1 .. Len(bg) /\ bg[bg_head].birth \in Nat
<1> DEFINE Entry == [id : 1 .. MaxOrders, birth : 0 .. Horizon]
<1>1. bg \in Seq(Entry)
    BY Unfold
<1>2. \A e \in Entry : e.birth \in Nat /\ e.id \in 1 .. MaxOrders
    OBVIOUS
<1> HIDE DEF Entry
<1>3. \A i \in 1 .. Len(bg) : bg[i] \in Entry
    BY <1>1
<1>4. bg_head =< Len(bg) => bg_head \in 1 .. Len(bg)
    BY Unfold
<1> QED
    BY <1>2, <1>3, <1>4

LEMMA ShrinkKeeps ==
    ASSUME Inv, ~Matching, ~Matching', resting' \subseteq resting,
           UNCHANGED <<taker, next_id, children>>, event'.kind # "fill"
    PROVE  /\ Ascending' /\ Sided' /\ TradesAreOurs' /\ resting' \subseteq Orders
           /\ taker' = Pub!Book!NoTaker /\ next_id' \in 1 .. MaxOrders + 1
           /\ BgResting' \subseteq BgResting
<1>1. /\ BookOK /\ IsFiniteSet(resting') /\ pc' \notin {"bgmatch", "child"}
      /\ taker = Pub!Book!NoTaker /\ next_id \in 1 .. MaxOrders + 1
    BY Unfold, FS_Subset DEF BookOK, Matching
<1>2. NextToRest' = NextToRest
    BY DEF NextToRest
<1>3. Ascending'
    BY <1>1, <1>2 DEF Inv, Ascending
<1>4. Sided'
    BY <1>1 DEF Inv, Sided
<1> QED
    BY <1>1, <1>3, <1>4 DEF TradesAreOurs, BookOK, BgResting

LEMMA ResetInv ==
    ASSUME Inv, Reset
    PROVE  Inv'
<1>1. /\ pc = "idle" /\ pc' = "reset"
      /\ UNCHANGED <<pubVars, resting_ids, bgVars, acctVars, k, histVars>>
    BY DEF Reset
<1> USE DEF pubVars, bgVars, acctVars, histVars
<1>2. ~Matching /\ ~Matching'
    BY <1>1 DEF Matching
<1>3. /\ Ascending' /\ Sided' /\ TradesAreOurs' /\ resting' \subseteq Orders
      /\ taker' = Pub!Book!NoTaker /\ next_id' \in 1 .. MaxOrders + 1
      /\ BgResting' \subseteq BgResting
    BY <1>1, <1>2, Unfold, ShrinkKeeps
<1>4. TypeOK'
    BY <1>1, <1>3 DEF Inv, TypeOK
<1>5. OneCall'
    BY <1>1, <1>2, <1>3, Unfold DEF Inv, OneCall
<1>6. Tracked'
    BY <1>1, <1>3 DEF Inv, Tracked
<1>7. Accounted'
    BY <1>1, <1>2 DEF Inv, Accounted, Unfilled
<1>8. Aged'
    BY <1>1 DEF Inv, Aged, SentThisStep
<1>9. EpisodeStartsEmpty'
    BY <1>1 DEF EpisodeStartsEmpty
<1> QED
    BY <1>3, <1>4, <1>5, <1>6, <1>7, <1>8, <1>9 DEF Inv

LEMMA StepInv ==
    ASSUME Inv, Step
    PROVE  Inv'
<1>1. /\ pc = "idle" /\ pc' = "expire" /\ ~done /\ k' = 0
      /\ UNCHANGED <<pubVars, resting_ids, bgVars, acctVars, histVars>>
    BY DEF Step
<1> USE DEF pubVars, bgVars, acctVars, histVars
<1>2. ~Matching /\ ~Matching'
    BY <1>1 DEF Matching
<1>3. /\ Ascending' /\ Sided' /\ TradesAreOurs' /\ resting' \subseteq Orders
      /\ taker' = Pub!Book!NoTaker /\ next_id' \in 1 .. MaxOrders + 1
      /\ BgResting' \subseteq BgResting
    BY <1>1, <1>2, Unfold, ShrinkKeeps
<1>4. TypeOK'
    BY <1>1, <1>3 DEF Inv, TypeOK
<1>5. OneCall'
    BY <1>1, <1>2, <1>3, Unfold DEF Inv, OneCall
<1>6. Tracked'
    BY <1>1, <1>3 DEF Inv, Tracked
<1>7. Accounted'
    BY <1>1, <1>2 DEF Inv, Accounted, Unfilled
<1>8. Aged'
    BY <1>1 DEF Inv, Aged, SentThisStep
<1>9. EpisodeStartsEmpty'
    BY <1>1 DEF EpisodeStartsEmpty
<1> QED
    BY <1>3, <1>4, <1>5, <1>6, <1>7, <1>8, <1>9 DEF Inv

(* The scan stopped at an entry that is not expired, or at the end.        *)
LEMMA ExpireDoneInv ==
    ASSUME Inv, ExpireDone
    PROVE  Inv'
<1>1. /\ pc = "expire" /\ pc' = "flow" /\ ~Expired
      /\ UNCHANGED <<pubVars, resting_ids, bgVars, acctVars, k, histVars>>
    BY DEF ExpireDone
<1> USE DEF pubVars, bgVars, acctVars, histVars
<1>2. ~Matching /\ ~Matching'
    BY <1>1 DEF Matching
<1>3. /\ Ascending' /\ Sided' /\ TradesAreOurs' /\ resting' \subseteq Orders
      /\ taker' = Pub!Book!NoTaker /\ next_id' \in 1 .. MaxOrders + 1
      /\ BgResting' \subseteq BgResting
    BY <1>1, <1>2, Unfold, ShrinkKeeps
<1>4. TypeOK'
    BY <1>1, <1>3 DEF Inv, TypeOK
<1>5. OneCall'
    BY <1>1, <1>2, <1>3, Unfold DEF Inv, OneCall
<1>6. Tracked'
    BY <1>1, <1>3 DEF Inv, Tracked
<1>7. Accounted'
    BY <1>1, <1>2 DEF Inv, Accounted, Unfilled
<1>8. Aged'
    <2>1. k = 0
        BY <1>1 DEF Inv, OneCall
    <2>2. SentThisStep = 0 /\ SentThisStep' = 0
        BY <1>1, <2>1 DEF SentThisStep
    <2>3. step_idx \in Nat
        BY Unfold
    <2>4. ASSUME bg_head =< Len(bg)
          PROVE  step_idx - bg[bg_head].birth =< Lifetime - 1
        <3>1. bg[bg_head].birth \in Nat
            BY <2>4, BirthNat
        <3>2. ~(bg[bg_head].birth + Lifetime =< step_idx)
            BY <1>1, <2>4 DEF Expired
        <3> QED
            BY <2>3, <3>1, <3>2
    <2> QED
        BY <1>1, <2>2, <2>4 DEF Inv, Aged
<1>9. EpisodeStartsEmpty'
    BY <1>1 DEF EpisodeStartsEmpty
<1> QED
    BY <1>3, <1>4, <1>5, <1>6, <1>7, <1>8, <1>9 DEF Inv

LEMMA FlowNoEvictInv ==
    ASSUME Inv, FlowNoEvict
    PROVE  Inv'
<1>1. /\ pc = "flow" /\ pc' = "add" /\ k < Burst
      /\ UNCHANGED <<pubVars, resting_ids, bgVars, acctVars, k, histVars>>
    BY DEF FlowNoEvict
<1> USE DEF pubVars, bgVars, acctVars, histVars
<1>2. ~Matching /\ ~Matching'
    BY <1>1 DEF Matching
<1>3. /\ Ascending' /\ Sided' /\ TradesAreOurs' /\ resting' \subseteq Orders
      /\ taker' = Pub!Book!NoTaker /\ next_id' \in 1 .. MaxOrders + 1
      /\ BgResting' \subseteq BgResting
    BY <1>1, <1>2, Unfold, ShrinkKeeps
<1>4. TypeOK'
    BY <1>1, <1>3 DEF Inv, TypeOK
<1>5. OneCall'
    BY <1>1, <1>2, <1>3, Unfold DEF Inv, OneCall
<1>6. Tracked'
    BY <1>1, <1>3 DEF Inv, Tracked
<1>7. Accounted'
    BY <1>1, <1>2 DEF Inv, Accounted, Unfilled
<1>8. Aged'
    BY <1>1 DEF Inv, Aged, SentThisStep
<1>9. EpisodeStartsEmpty'
    BY <1>1 DEF EpisodeStartsEmpty
<1> QED
    BY <1>3, <1>4, <1>5, <1>6, <1>7, <1>8, <1>9 DEF Inv

---------------------------------------------------------------------------
(* The vectors: taking an id off either end leaves the others.             *)

Has(v, x) == \E i \in 1 .. Len(v) : v[i] = x

LEMMA TypeFromSeq ==
    ASSUME NEW T, NEW v \in Seq(T)
    PROVE  \A i \in 1 .. Len(v) : v[i] \in T
    OBVIOUS

LEMMA TailKeeps ==
    ASSUME NEW T, NEW v \in Seq(T), v # <<>>
    PROVE  /\ Tail(v) \in Seq(T)
           /\ \A x : Has(v, x) /\ x # Head(v) => Has(Tail(v), x)
<1>1. /\ Tail(v) \in Seq(T) /\ Len(v) \in Nat /\ Len(Tail(v)) = Len(v) - 1
      /\ \A i \in 1 .. Len(v) - 1 : Tail(v)[i] = v[i + 1]
      /\ Head(v) = v[1]
    OBVIOUS
<1>2. ASSUME NEW x, Has(v, x), x # Head(v) PROVE Has(Tail(v), x)
    <2>1. PICK i \in 1 .. Len(v) : v[i] = x
        BY <1>2 DEF Has
    <2>2. i - 1 \in 1 .. Len(v) - 1 /\ (i - 1) + 1 = i
        BY <1>1, <1>2, <2>1
    <2> QED
        BY <1>1, <2>1, <2>2 DEF Has
<1> QED
    BY <1>1, <1>2

LEMMA PopBackKeeps ==
    ASSUME NEW T, NEW v \in Seq(T), v # <<>>
    PROVE  /\ PopBack(v) \in Seq(T)
           /\ \A x : Has(v, x) /\ x # Back(v) => Has(PopBack(v), x)
<1>0. Len(v) \in Nat /\ Len(v) >= 1
    OBVIOUS
<1>1. /\ PopBack(v) \in Seq(T) /\ Len(v) \in Nat /\ Len(PopBack(v)) = Len(v) - 1
      /\ \A i \in 1 .. Len(v) - 1 : PopBack(v)[i] = v[i]
    <2> DEFINE n == Len(v) - 1
    <2>1. n \in Int /\ n >= 0 /\ \A i \in 1 .. n : v[i] \in T
        BY <1>0, TypeFromSeq
    <2>2. /\ PopBack(v) \in Seq(T)
          /\ Len(PopBack(v)) = IF 1 =< n THEN n - 1 + 1 ELSE 0
          /\ \A i \in 1 .. n - 1 + 1 : PopBack(v)[i] = v[1 + i - 1]
        BY <2>1, SubSeqProperties DEF PopBack
    <2>3. n - 1 + 1 = n /\ \A i \in 1 .. n : 1 + i - 1 = i
        BY <2>1
    <2> HIDE DEF n
    <2>4. Len(PopBack(v)) = n /\ \A i \in 1 .. n : PopBack(v)[i] = v[i]
        BY <2>1, <2>2, <2>3
    <2> QED
        BY <1>0, <2>2, <2>4 DEF n
<1>2. ASSUME NEW x, Has(v, x), x # Back(v) PROVE Has(PopBack(v), x)
    <2>1. PICK i \in 1 .. Len(v) : v[i] = x
        BY <1>2 DEF Has
    <2>2. i \in 1 .. Len(v) - 1
        BY <1>1, <1>2, <2>1 DEF Back
    <2> QED
        BY <1>1, <2>1, <2>2 DEF Has
<1> QED
    BY <1>1, <1>2

LEMMA AppendKeeps ==
    ASSUME NEW T, NEW v \in Seq(T), NEW y \in T
    PROVE  /\ Append(v, y) \in Seq(T) /\ Has(Append(v, y), y)
           /\ \A x : Has(v, x) => Has(Append(v, y), x)
<1>1. /\ Append(v, y) \in Seq(T) /\ Len(v) \in Nat /\ Len(Append(v, y)) = Len(v) + 1
      /\ \A i \in 1 .. Len(v) : Append(v, y)[i] = v[i]
      /\ Append(v, y)[Len(v) + 1] = y
    OBVIOUS
<1>2. Len(v) + 1 \in 1 .. Len(v) + 1 /\ 1 .. Len(v) \subseteq 1 .. Len(v) + 1
    BY <1>1
<1> QED
    BY <1>1, <1>2 DEF Has

Entries == [id : 1 .. MaxOrders, birth : 0 .. Horizon]

(* Tracked, in the terms of these lemmas. *)
LEMMA TrackedFacts ==
    ASSUME Inv
    PROVE  /\ \A m \in resting : Has(resting_ids, m.id)
           /\ bg \in Seq(Entries)
           /\ \A m \in BgResting : \E i \in bg_head .. Len(bg) : bg[i].id = m.id
    BY DEF Inv, Tracked, Has, Entries

LEMMA TrackedFrom ==
    ASSUME resting_ids' \in Seq(1 .. MaxOrders), bg' \in Seq(Entries),
           \A m \in resting' : Has(resting_ids', m.id),
           \A m \in BgResting' : \E i \in bg_head' .. Len(bg') : bg'[i].id = m.id
    PROVE  Tracked'
    BY DEF Tracked, Has, Entries

---------------------------------------------------------------------------
(* The three cancels. *)

LEMMA ResetCancelInv ==
    ASSUME Inv, ResetCancel
    PROVE  Inv'
<1>1. /\ pc = "reset" /\ pc' = "reset" /\ resting_ids # <<>>
      /\ Pub!Cancel(Head(resting_ids)) /\ resting_ids' = Tail(resting_ids)
      /\ UNCHANGED <<bgVars, acctVars, k, histVars>>
    BY DEF ResetCancel
<1> USE DEF bgVars, acctVars, histVars
<1>2. ~Matching /\ ~Matching'
    BY <1>1 DEF Matching
<1>c. /\ resting' \subseteq resting /\ \A m \in resting' : m.id # Head(resting_ids)
      /\ UNCHANGED <<taker, qty, filled, next_id>>
      /\ event'.kind \in {"cancel", "unknown"}
    BY <1>1, Unfold, CancelStep
<1>3. /\ Ascending' /\ Sided' /\ TradesAreOurs' /\ resting' \subseteq Orders
      /\ taker' = Pub!Book!NoTaker /\ next_id' \in 1 .. MaxOrders + 1
      /\ BgResting' \subseteq BgResting
    BY <1>1, <1>2, <1>c, ShrinkKeeps
<1>v. /\ resting_ids' \in Seq(1 .. MaxOrders)
      /\ \A x : Has(resting_ids, x) /\ x # Head(resting_ids) => Has(resting_ids', x)
    BY <1>1, Unfold, TailKeeps
<1>4. TypeOK'
    BY <1>1, <1>3, <1>v, TypeFromSeq DEF Inv, TypeOK
<1>5. OneCall'
    BY <1>1, <1>2, <1>3, <1>c DEF Inv, OneCall
<1>6. Tracked'
    <2>1. \A m \in resting' : Has(resting_ids', m.id)
        BY <1>c, <1>v, TrackedFacts
    <2>2. \A m \in BgResting' : \E i \in bg_head' .. Len(bg') : bg'[i].id = m.id
        BY <1>1, <1>3, TrackedFacts
    <2>3. bg' \in Seq(Entries)
        BY <1>1, TrackedFacts
    <2> QED
        BY <1>v, <2>1, <2>2, <2>3, TrackedFrom
<1>7. Accounted'
    BY <1>1, <1>2 DEF Inv, Accounted, Unfilled
<1>8. Aged'
    BY <1>1 DEF Inv, Aged, SentThisStep
<1>9. EpisodeStartsEmpty'
    BY <1>1 DEF EpisodeStartsEmpty
<1> QED
    BY <1>3, <1>4, <1>5, <1>6, <1>7, <1>8, <1>9 DEF Inv

(* Entry bg_head leaves the window of live entries together with its order.*)
LEMMA ExpireInv ==
    ASSUME Inv, Expire
    PROVE  Inv'
<1>1. /\ pc = "expire" /\ pc' = "expire" /\ Expired
      /\ Pub!Cancel(bg[bg_head].id) /\ bg_head' = bg_head + 1
      /\ UNCHANGED <<resting_ids, bg, acctVars, k, histVars>>
    BY DEF Expire
<1> USE DEF acctVars, histVars
<1>2. ~Matching /\ ~Matching'
    BY <1>1 DEF Matching
<1>c. /\ resting' \subseteq resting /\ \A m \in resting' : m.id # bg[bg_head].id
      /\ UNCHANGED <<taker, qty, filled, next_id>>
      /\ event'.kind \in {"cancel", "unknown"}
    BY <1>1, Unfold, CancelStep
<1>3. /\ Ascending' /\ Sided' /\ TradesAreOurs' /\ resting' \subseteq Orders
      /\ taker' = Pub!Book!NoTaker /\ next_id' \in 1 .. MaxOrders + 1
      /\ BgResting' \subseteq BgResting
    BY <1>1, <1>2, <1>c, ShrinkKeeps
<1>h. /\ bg_head \in 1 .. Len(bg) /\ Len(bg) \in Nat
      /\ bg_head' \in 1 .. Len(bg) + 1 /\ bg_head' \in Nat
    <2>1. bg_head =< Len(bg) /\ bg_head \in 1 .. Len(bg) + 1 /\ Len(bg) \in Nat
        BY <1>1, Unfold DEF Expired
    <2> QED
        BY <1>1, <2>1
<1>4. TypeOK'
    BY <1>1, <1>3, <1>h DEF Inv, TypeOK
<1>5. OneCall'
    BY <1>1, <1>2, <1>3, <1>c DEF Inv, OneCall
<1>6. Tracked'
    <2>1. \A m \in resting' : Has(resting_ids', m.id)
        BY <1>1, <1>c, TrackedFacts
    <2>2. ASSUME NEW m \in BgResting'
          PROVE  \E i \in bg_head' .. Len(bg') : bg'[i].id = m.id
        <3>1. m \in BgResting /\ m.id # bg[bg_head].id
            BY <1>3, <1>c DEF BgResting
        <3>2. PICK i \in bg_head .. Len(bg) : bg[i].id = m.id
            BY <3>1, TrackedFacts
        <3>3. i \in bg_head + 1 .. Len(bg)
            BY <1>h, <3>1, <3>2
        <3> QED
            BY <1>1, <3>2, <3>3
    <2>3. bg' \in Seq(Entries) /\ resting_ids' \in Seq(1 .. MaxOrders)
        BY <1>1, TrackedFacts, Unfold
    <2> QED
        BY <2>1, <2>2, <2>3, TrackedFrom
<1>7. Accounted'
    BY <1>1, <1>2 DEF Inv, Accounted, Unfilled
<1>8. Aged'
    <2> DEFINE i == bg_head + 1
    <2>1. SentThisStep' = 0 /\ SentThisStep = 0 /\ step_idx \in Nat
        BY <1>1, Unfold DEF SentThisStep
    <2>2. \A j \in 1 .. Len(bg) : /\ bg[j].birth =< step_idx
                                  /\ Len(bg) - j + 1 =< Burst * (step_idx - bg[j].birth) + 0
        BY <2>1 DEF Inv, Aged
    <2>3. \A j \in 2 .. Len(bg) : bg[j - 1].birth =< bg[j].birth
        BY DEF Inv, Aged
    <2>4. step_idx - bg[bg_head].birth =< Lifetime
        BY <1>1, <1>h DEF Inv, Aged
    <2>5. ASSUME i =< Len(bg) PROVE step_idx - bg[i].birth =< Lifetime
        <3>1. i \in 2 .. Len(bg) /\ i - 1 = bg_head /\ i \in 1 .. Len(bg)
            BY <1>h, <2>5
        <3>2. bg[i].birth \in Nat /\ bg[bg_head].birth \in Nat
            BY <1>h, <3>1, BirthNat
        <3>3. bg[bg_head].birth =< bg[i].birth
            BY <2>3, <3>1
        <3> QED
            BY <2>1, <2>4, <3>2, <3>3
    <2> QED
        BY <1>1, <2>1, <2>2, <2>3, <2>5 DEF Aged
<1>9. EpisodeStartsEmpty'
    BY <1>1 DEF EpisodeStartsEmpty
<1> QED
    BY <1>3, <1>4, <1>5, <1>6, <1>7, <1>8, <1>9 DEF Inv

LEMMA FlowEvictInv ==
    ASSUME Inv, FlowEvict
    PROVE  Inv'
<1>1. /\ pc = "flow" /\ pc' = "add" /\ k < Burst /\ resting_ids # <<>>
      /\ Pub!Cancel(Back(resting_ids)) /\ resting_ids' = PopBack(resting_ids)
      /\ UNCHANGED <<bgVars, acctVars, k, histVars>>
    BY DEF FlowEvict
<1> USE DEF bgVars, acctVars, histVars
<1>2. ~Matching /\ ~Matching'
    BY <1>1 DEF Matching
<1>c. /\ resting' \subseteq resting /\ \A m \in resting' : m.id # Back(resting_ids)
      /\ UNCHANGED <<taker, qty, filled, next_id>>
      /\ event'.kind \in {"cancel", "unknown"}
    BY <1>1, Unfold, CancelStep
<1>3. /\ Ascending' /\ Sided' /\ TradesAreOurs' /\ resting' \subseteq Orders
      /\ taker' = Pub!Book!NoTaker /\ next_id' \in 1 .. MaxOrders + 1
      /\ BgResting' \subseteq BgResting
    BY <1>1, <1>2, <1>c, ShrinkKeeps
<1>v. /\ resting_ids' \in Seq(1 .. MaxOrders)
      /\ \A x : Has(resting_ids, x) /\ x # Back(resting_ids) => Has(resting_ids', x)
    BY <1>1, Unfold, PopBackKeeps
<1>4. TypeOK'
    BY <1>1, <1>3, <1>v, TypeFromSeq DEF Inv, TypeOK
<1>5. OneCall'
    BY <1>1, <1>2, <1>3, <1>c DEF Inv, OneCall
<1>6. Tracked'
    <2>1. \A m \in resting' : Has(resting_ids', m.id)
        BY <1>c, <1>v, TrackedFacts
    <2>2. \A m \in BgResting' : \E i \in bg_head' .. Len(bg') : bg'[i].id = m.id
        BY <1>1, <1>3, TrackedFacts
    <2>3. bg' \in Seq(Entries)
        BY <1>1, TrackedFacts
    <2> QED
        BY <1>v, <2>1, <2>2, <2>3, TrackedFrom
<1>7. Accounted'
    BY <1>1, <1>2 DEF Inv, Accounted, Unfilled
<1>8. Aged'
    BY <1>1 DEF Inv, Aged, SentThisStep
<1>9. EpisodeStartsEmpty'
    BY <1>1 DEF EpisodeStartsEmpty
<1> QED
    BY <1>3, <1>4, <1>5, <1>6, <1>7, <1>8, <1>9 DEF Inv

(* With no id left to cancel nothing rests: ids may start again at 1.      *)
LEMMA ResetDoneInv ==
    ASSUME Inv, ResetDone
    PROVE  Inv'
<1>1. /\ pc = "reset" /\ pc' = "idle" /\ resting_ids = <<>>
      /\ bg' = <<>> /\ bg_head' = 1
      /\ remaining' = ParentQty /\ qty_filled' = 0
      /\ step_idx' = 0 /\ done' = FALSE /\ next_id' = 1
      /\ children' = {} /\ sold' = 0 /\ oversized' = FALSE
      /\ UNCHANGED <<resting, taker, event, qty, filled, shadow, resting_ids, k>>
    BY DEF ResetDone
<1>2. ~Matching /\ ~Matching'
    BY <1>1 DEF Matching
<1>3. resting = {}
    <2>1. Len(resting_ids) = 0
        BY <1>1
    <2>2. \A x : ~Has(resting_ids, x)
        BY <2>1 DEF Has
    <2> QED
        BY <2>2, TrackedFacts
<1>4. resting' = {} /\ Len(bg') = 0 /\ Len(resting_ids') = 0 /\ event'.kind # "fill"
    BY <1>1, <1>2, <1>3, Unfold
<1>5. TypeOK'
    <2>1. resting' \subseteq Orders /\ next_id' \in 1 .. MaxOrders + 1
          /\ bg_head' \in 1 .. Len(bg') + 1
        BY <1>1, <1>4, MaxOrdersNat
    <2>2. \A i \in 1 .. Len(resting_ids') : resting_ids'[i] \in 1 .. MaxOrders
        BY <1>4
    <2>3. remaining' \in 0 .. ParentQty /\ qty_filled' \in Nat
          /\ step_idx' \in 0 .. Horizon
        BY <1>1
    <2>4. k' \in 0 .. Burst
        BY <1>1 DEF Inv, TypeOK
    <2> QED
        BY <1>1, <2>1, <2>2, <2>3, <2>4 DEF TypeOK
<1>6. OneCall'
    BY <1>1, <1>2, <1>4, Unfold DEF Inv, OneCall
<1>7. Ascending'
    BY <1>1, <1>4, FS_EmptySet DEF Ascending
<1>8. Sided'
    BY <1>1, <1>4 DEF Sided
<1>9. Accounted'
    BY <1>1, <1>2 DEF Accounted, Unfilled, Matching
<1>10. Aged'
    BY <1>1, <1>4 DEF Aged
<1>11. Tracked'
    <2>1. bg' \in Seq(Entries) /\ resting_ids' \in Seq(1 .. MaxOrders)
        BY <1>1
    <2> QED
        BY <1>4, <2>1, TrackedFrom DEF BgResting
<1>12. EpisodeStartsEmpty' /\ TradesAreOurs'
    BY <1>4 DEF EpisodeStartsEmpty, TradesAreOurs
<1> QED
    BY <1>5, <1>6, <1>7, <1>8, <1>9, <1>10, <1>11, <1>12 DEF Inv

(* A finished step adds Burst to what may have been sent since any birth.  *)
LEMMA OneMoreStep ==
    ASSUME NEW a \in Int
    PROVE  Burst * a \in Int /\ Burst * (a + 1) = Burst * a + Burst
    OBVIOUS

LEMMA TimesMonotone ==
    ASSUME NEW a \in Nat, NEW c \in Int, a =< c
    PROVE  /\ Burst * a \in Nat /\ Burst * a =< Burst * c /\ Burst * c = c * Burst
           /\ Burst * c \in Int
    OBVIOUS

LEMMA StillOpen ==
    ASSUME step_idx \in Nat, step_idx' = step_idx + 1,
           done' = (done \/ remaining' = 0 \/ step_idx' >= Horizon)
    PROVE  ~done' => step_idx' < Horizon
<1>1. ~done' => ~(step_idx' >= Horizon)
    BY Zenon
<1>2. step_idx' \in Nat
    OBVIOUS
<1> QED
    BY <1>1, <1>2

LEMMA AdvanceAges ==
    ASSUME Inv, pc \in {"flow", "child"}, k = Burst, pc' = "idle",
           step_idx' = step_idx + 1, UNCHANGED <<bg, bg_head>>
    PROVE  Aged'
<1>1. SentThisStep = Burst /\ SentThisStep' = 0 /\ step_idx \in Nat /\ Len(bg) \in Nat
    BY Unfold DEF SentThisStep
<1>2. ASSUME NEW i \in 1 .. Len(bg)
      PROVE  /\ bg[i].birth =< step_idx + 1
             /\ Len(bg) - i + 1 =< Burst * ((step_idx + 1) - bg[i].birth) + 0
    <2>1. /\ bg[i].birth =< step_idx
          /\ Len(bg) - i + 1 =< Burst * (step_idx - bg[i].birth) + Burst
        BY <1>1 DEF Inv, Aged
    <2>2. bg[i].birth \in Nat
        BY BirthNat
    <2>3. /\ Burst * (step_idx - bg[i].birth) \in Int
          /\ Burst * ((step_idx - bg[i].birth) + 1) = Burst * (step_idx - bg[i].birth) + Burst
        BY <1>1, <2>2, OneMoreStep
    <2>4. (step_idx - bg[i].birth) + 1 = (step_idx + 1) - bg[i].birth
        BY <1>1, <2>2
    <2> QED
        BY <1>1, <2>1, <2>2, <2>3, <2>4
<1>3. \A i \in 2 .. Len(bg) : bg[i - 1].birth =< bg[i].birth
    BY DEF Inv, Aged
<1>4. ASSUME bg_head =< Len(bg)
      PROVE  (step_idx + 1) - bg[bg_head].birth =< Lifetime
    <2>1. step_idx - bg[bg_head].birth =< Lifetime - 1
        BY <1>4 DEF Inv, Aged
    <2>2. bg[bg_head].birth \in Nat
        BY <1>4, BirthNat
    <2> QED
        BY <1>1, <2>1, <2>2
<1> QED
    BY <1>1, <1>2, <1>3, <1>4 DEF Aged

LEMMA ChildNoneInv ==
    ASSUME Inv, ChildNone
    PROVE  Inv'
<1>1. /\ pc = "flow" /\ pc' = "idle" /\ k = Burst /\ remaining' = remaining
      /\ step_idx' = step_idx + 1
      /\ done' = (done \/ remaining' = 0 \/ step_idx' >= Horizon)
      /\ UNCHANGED <<pubVars, resting_ids, bgVars, qty_filled, k, histVars>>
    BY DEF ChildNone, Advance
<1> USE DEF pubVars, bgVars, histVars
<1>2. ~Matching /\ ~Matching'
    BY <1>1 DEF Matching
<1>3. /\ Ascending' /\ Sided' /\ TradesAreOurs' /\ resting' \subseteq Orders
      /\ taker' = Pub!Book!NoTaker /\ next_id' \in 1 .. MaxOrders + 1
      /\ BgResting' \subseteq BgResting
    BY <1>1, <1>2, Unfold, ShrinkKeeps
<1>s. step_idx \in Nat /\ step_idx < Horizon /\ done = FALSE
    BY <1>1, Unfold DEF Inv, OneCall, TypeOK
<1>4. TypeOK'
    BY <1>1, <1>3, <1>s DEF Inv, TypeOK
<1>5. OneCall'
    <2>1. ~done' => step_idx' < Horizon
        BY <1>1, <1>s, StillOpen
    <2>2. event'.kind # "fill"
        BY <1>1, <1>2, Unfold
    <2> QED
        BY <1>1, <1>2, <1>3, <2>1, <2>2 DEF OneCall
<1>6. Tracked'
    BY <1>1, <1>3 DEF Inv, Tracked
<1>7. Accounted'
    BY <1>1, <1>2 DEF Inv, Accounted, Unfilled
<1>8. Aged'
    BY <1>1, AdvanceAges
<1>9. EpisodeStartsEmpty'
    BY <1>1, <1>s DEF EpisodeStartsEmpty
<1> QED
    BY <1>3, <1>4, <1>5, <1>6, <1>7, <1>8, <1>9 DEF Inv

---------------------------------------------------------------------------
(* AddLimit begins. *)

LEMMA BgPriceBehindMid ==
    ASSUME NEW side \in {"buy", "sell"}, NEW depth \in Depths
    PROVE  BgPrice(side, depth) \in Prices /\ BehindMid(side, BgPrice(side, depth))
<1>1. depth \in Nat /\ Mid - 1 - depth >= MinPrice /\ Mid + 1 + depth =< MaxPrice
    OBVIOUS
<1> QED
    BY <1>1 DEF BgPrice, Prices, BehindMid

LEMMA FlowAddInv ==
    ASSUME Inv, FlowAdd
    PROVE  Inv'
<1>1. /\ pc = "add" /\ pc' = "bgmatch"
      /\ UNCHANGED <<resting_ids, bgVars, acctVars, k, histVars>>
    BY DEF FlowAdd
<1> USE DEF bgVars, acctVars, histVars
<1>2. ~Matching /\ Matching'
    BY <1>1 DEF Matching
<1>3. PICK side \in {"buy", "sell"}, depth \in Depths, q \in Quantities :
          Pub!AddLimit(side, BgPrice(side, depth), q)
    BY DEF FlowAdd
<1>4. BgPrice(side, depth) \in Prices /\ BehindMid(side, BgPrice(side, depth))
    BY BgPriceBehindMid
<1>5. /\ taker' \in Takers /\ taker'.id = next_id /\ taker'.side = side
      /\ taker'.price = BgPrice(side, depth) /\ taker'.remaining = q
      /\ next_id' = next_id + 1 /\ next_id \in 1 .. MaxOrders
      /\ resting' = resting /\ qty' = q /\ filled' = 0 /\ event'.kind = "none"
    <2>1. q \in Nat \ {0}
        OBVIOUS
    <2> QED
        BY <1>3, <1>4, <2>1, Unfold, AddLimitStep
<1>6. NextToRest' = next_id /\ NextToRest = next_id
    BY <1>2, <1>5 DEF NextToRest
<1>7. TypeOK'
    <2>1. next_id' \in 1 .. MaxOrders + 1
        BY <1>5, MaxOrdersNat
    <2> QED
        BY <1>1, <1>5, <2>1 DEF Inv, TypeOK
<1>8. OneCall'
    <2>1. taker'.id < next_id'
        BY <1>5, Unfold
    <2> QED
        BY <1>1, <1>2, <1>5, <2>1 DEF Inv, OneCall
<1>9. Ascending'
    <2>1. children \subseteq 1 .. next_id' - 1 /\ next_id \notin children
        BY <1>5, Unfold DEF Inv, Ascending
    <2> QED
        BY <1>1, <1>5, <1>6, <2>1 DEF Inv, Ascending
<1>10. Tracked'
    BY <1>1, <1>5 DEF Inv, Tracked, BgResting
<1>11. Sided'
    BY <1>1, <1>4, <1>5 DEF Inv, Sided
<1>12. Accounted'
    <2>1. q \in Nat /\ 0 \in 0 .. q /\ q - 0 = q
        OBVIOUS
    <2> QED
        BY <1>1, <1>5, <2>1 DEF Inv, Accounted, Unfilled
<1>13. Aged'
    BY <1>1 DEF Inv, Aged, SentThisStep
<1>14. EpisodeStartsEmpty' /\ TradesAreOurs'
    BY <1>1, <1>5 DEF EpisodeStartsEmpty, TradesAreOurs
<1> QED
    BY <1>7, <1>8, <1>9, <1>10, <1>11, <1>12, <1>13, <1>14 DEF Inv

LEMMA ChildAddInv ==
    ASSUME Inv, ChildAdd
    PROVE  Inv'
<1>1. /\ pc = "flow" /\ pc' = "child" /\ k = Burst /\ children' = children \cup {next_id}
      /\ oversized' = (oversized \/ qty' > remaining)
      /\ UNCHANGED <<resting_ids, bgVars, acctVars, k>>
    BY DEF ChildAdd
<1> USE DEF bgVars, acctVars
<1>2. ~Matching /\ Matching'
    BY <1>1 DEF Matching
<1>3. PICK q \in ChildSizes \ {0}, aggressive \in BOOLEAN :
          Pub!AddLimit("sell", IF Terminal \/ aggressive THEN BestBid ELSE BestAsk, q)
    BY DEF ChildAdd
<1> DEFINE px == IF Terminal \/ aggressive THEN BestBid ELSE BestAsk
<1>4. px \in Prices
    BY Unfold, TouchInBand DEF BookOK
<1>q. q \in Nat \ {0} /\ remaining \in Nat
    <2>1. remaining \in Nat
        BY DEF Inv, TypeOK
    <2> QED
        BY <2>1, ChildSizeIsNat
<1> HIDE DEF px
<1>5. /\ taker' \in Takers /\ taker'.id = next_id /\ taker'.side = "sell"
      /\ taker'.remaining = q
      /\ next_id' = next_id + 1 /\ next_id \in 1 .. MaxOrders
      /\ resting' = resting /\ qty' = q /\ filled' = 0 /\ event'.kind = "none"
    <2>1. Pub!AddLimit("sell", px, q)
        BY <1>3 DEF px
    <2>2. next_id \in 1 .. MaxOrders + 1
        BY Unfold
    <2> QED
        BY <1>4, <1>q, <2>1, <2>2, AddLimitStep
<1>6. NextToRest' = next_id /\ NextToRest = next_id
    BY <1>2, <1>5 DEF NextToRest
<1>r. \A m \in resting : m.id < next_id /\ m.id # next_id
    <2>1. ASSUME NEW m \in resting PROVE m.id < next_id /\ m.id \in Nat
        BY <1>6, Unfold, OrderRecord DEF Inv, Ascending, BookOK
    <2> QED
        BY <2>1, Unfold
<1>7. TypeOK'
    <2>1. next_id' \in 1 .. MaxOrders + 1
        BY <1>5, MaxOrdersNat
    <2>2. oversized' \in BOOLEAN
        BY <1>1, Zenon DEF Inv, TypeOK
    <2> QED
        BY <1>1, <1>5, <2>1, <2>2 DEF Inv, TypeOK
<1>8. OneCall'
    <2>1. taker'.id < next_id'
        BY <1>5, Unfold
    <2> QED
        BY <1>1, <1>2, <1>5, <2>1 DEF Inv, OneCall
<1>9. Ascending'
    <2>1. children' \subseteq 1 .. next_id' - 1
        BY <1>1, <1>5, Unfold DEF Inv, Ascending
    <2>2. taker'.id \in children'
        BY <1>1, <1>5
    <2> QED
        BY <1>1, <1>5, <1>6, <2>1, <2>2 DEF Inv, Ascending
<1>10. Tracked'
    <2>1. BgResting' = BgResting
        BY <1>1, <1>5, <1>r DEF BgResting
    <2> QED
        BY <1>1, <1>5, <2>1 DEF Inv, Tracked
<1>11. Sided'
    BY <1>1, <1>5, <1>r DEF Inv, Sided
<1>12. Accounted'
    <2>1. 0 \in 0 .. q /\ q - 0 = q
        BY <1>q
    <2>2. ~oversized' => ~oversized /\ q =< remaining
        <3>1. ~oversized' => ~oversized /\ ~(qty' > remaining)
            BY <1>1, Zenon
        <3>2. ~(qty' > remaining) => q =< remaining
            BY <1>5, <1>q
        <3> QED
            BY <3>1, <3>2
    <2>3. remaining' = Unfilled' /\ (~oversized => remaining' + qty_filled' = ParentQty)
        BY <1>1 DEF Inv, Accounted, Unfilled
    <2> QED
        BY <1>1, <1>5, <1>q, <2>1, <2>2, <2>3 DEF Accounted
<1>13. Aged'
    BY <1>1 DEF Inv, Aged, SentThisStep
<1>14. EpisodeStartsEmpty' /\ TradesAreOurs'
    BY <1>1, <1>5 DEF EpisodeStartsEmpty, TradesAreOurs
<1> QED
    BY <1>7, <1>8, <1>9, <1>10, <1>11, <1>12, <1>13, <1>14 DEF Inv

---------------------------------------------------------------------------
(* A fill keeps every id, side and price where it was.                     *)

LEMMA FillKeeps ==
    ASSUME Inv, Matching, NEW m \in resting, Pub!OnFill(m),
           UNCHANGED <<resting_ids, bgVars, acctVars, pc, k, children, oversized>>,
           TradesAreOurs'
    PROVE  Inv'
<1> USE DEF bgVars, acctVars
<1>1. Matching' /\ taker \in Takers /\ pc \in {"bgmatch", "child"}
    BY Unfold DEF Matching
<1>2. /\ BookOK' /\ taker' \in Takers
      /\ taker'.id = taker.id /\ taker'.side = taker.side
      /\ taker'.price = taker.price
      /\ \A n \in resting' : \E o \in resting : SameOrder(n, o)
      /\ \E q \in Nat : /\ q =< taker.remaining /\ filled' = filled + q
                        /\ taker'.remaining = taker.remaining - q
      /\ qty' = qty /\ next_id' = next_id /\ event'.kind = "fill"
    BY <1>1, Unfold, OnFillStep
<1>3. NextToRest' = NextToRest
    BY <1>1, <1>2 DEF NextToRest
<1>4. TypeOK'
    BY <1>2 DEF Inv, TypeOK, BookOK
<1>5. OneCall'
    BY <1>1, <1>2 DEF Inv, OneCall
<1>6. Ascending'
    <2>1. \A n \in resting' : n.id < NextToRest'
        BY <1>2, <1>3 DEF Inv, Ascending, SameOrder
    <2> QED
        BY <1>2, <2>1 DEF Inv, Ascending, BookOK, Distinct
<1>7. Tracked'
    <2>1. \A n \in resting' : Has(resting_ids', n.id)
        BY <1>2, TrackedFacts DEF SameOrder
    <2>2. \A n \in BgResting' : \E o \in BgResting : n.id = o.id
        BY <1>2 DEF BgResting, SameOrder
    <2>3. \A n \in BgResting' : \E i \in bg_head' .. Len(bg') : bg'[i].id = n.id
        BY <2>2, TrackedFacts
    <2>4. bg' \in Seq(Entries) /\ resting_ids' \in Seq(1 .. MaxOrders)
        BY TrackedFacts, Unfold
    <2> QED
        BY <2>1, <2>3, <2>4, TrackedFrom
<1>8. Sided'
    BY <1>2 DEF Inv, Sided, SameOrder
<1>9. Accounted'
    <2>1. PICK q \in Nat : /\ q =< taker.remaining /\ filled' = filled + q
                           /\ taker'.remaining = taker.remaining - q
        BY <1>2
    <2>2. qty \in Nat /\ filled \in 0 .. qty /\ qty - filled = taker.remaining
        BY DEF Inv, Accounted
    <2>3. filled' \in 0 .. qty /\ qty - filled' = taker'.remaining
        BY <2>1, <2>2
    <2> QED
        BY <1>2, <2>2, <2>3 DEF Inv, Accounted, Unfilled
<1>10. Aged'
    BY DEF Inv, Aged, SentThisStep
<1>11. EpisodeStartsEmpty'
    BY <1>1 DEF EpisodeStartsEmpty
<1> QED
    BY <1>4, <1>5, <1>6, <1>7, <1>8, <1>9, <1>10, <1>11 DEF Inv

(* Nothing of the background crosses the mid: a background taker can only  *)
(* have met a child.                                                       *)
LEMMA BgFillInv ==
    ASSUME Inv, BgFill
    PROVE  Inv'
<1>1. /\ pc = "bgmatch" /\ pc' = pc
      /\ UNCHANGED <<resting_ids, bgVars, acctVars, pc, k, children, oversized>>
    BY DEF BgFill
<1>2. PICK m \in resting : Pub!OnFill(m)
    BY DEF BgFill
<1>3. Matching /\ taker \in Takers
    BY <1>1, Unfold DEF Matching
<1>4. /\ event'.id = m.id /\ event'.counter = taker.id
      /\ m.side = Pub!Book!Opp(taker.side) /\ Pub!Book!Crosses(taker, m.price)
    BY <1>2, <1>3, Unfold, OnFillStep
<1>5. m.id \in children
    <2>1. BehindMid(taker.side, taker.price)
        BY <1>1 DEF Inv, Sided
    <2>2. m.price \in Int /\ taker.price \in Int /\ taker.side \in {"buy", "sell"}
        BY <1>3, Unfold, OrderRecord, TakerRecord DEF BookOK
    <2>3. ~BehindMid(m.side, m.price)
        BY <1>4, <2>1, <2>2 DEF BehindMid, Pub!Book!Opp, Pub!Book!Crosses
    <2> QED
        BY <2>3 DEF Inv, Sided
<1>6. taker.id \notin children
    BY <1>1 DEF Inv, Ascending
<1>7. TradesAreOurs'
    BY <1>1, <1>4, <1>5, <1>6 DEF TradesAreOurs
<1> QED
    BY <1>1, <1>2, <1>3, <1>7, FillKeeps

(* A child sells, and only background orders buy. *)
LEMMA ChildFillInv ==
    ASSUME Inv, ChildFill
    PROVE  Inv'
<1>1. /\ pc = "child" /\ pc' = pc
      /\ UNCHANGED <<resting_ids, bgVars, acctVars, pc, k, children, oversized>>
    BY DEF ChildFill
<1>2. PICK m \in resting : Pub!OnFill(m)
    BY DEF ChildFill
<1>3. Matching /\ taker \in Takers
    BY <1>1, Unfold DEF Matching
<1>4. event'.id = m.id /\ event'.counter = taker.id /\ m.side = Pub!Book!Opp(taker.side)
    BY <1>2, <1>3, Unfold, OnFillStep
<1>5. m.id \notin children
    BY <1>1, <1>4 DEF Inv, Sided, Pub!Book!Opp
<1>6. taker.id \in children
    BY <1>1 DEF Inv, Ascending
<1>7. TradesAreOurs'
    BY <1>1, <1>4, <1>5, <1>6 DEF TradesAreOurs
<1> QED
    BY <1>1, <1>2, <1>3, <1>7, FillKeeps

---------------------------------------------------------------------------
(* AddLimit returns. *)

(* Its id is the largest so far, so the book keeps distinct ids below the  *)
(* next one to be issued.                                                  *)
LEMMA ReturnKeeps ==
    ASSUME Inv, Matching, ~Matching', pc' \in {"flow", "idle"}, Pub!Ack \/ Pub!NoAck,
           UNCHANGED children
    PROVE  /\ Ascending' /\ Sided' /\ TradesAreOurs' /\ resting' \subseteq Orders
           /\ taker' = Pub!Book!NoTaker /\ event'.kind # "fill"
           /\ next_id' \in 1 .. MaxOrders + 1
<1>1. taker \in Takers /\ taker.id < next_id /\ pc \in {"bgmatch", "child"} /\ BookOK
      /\ next_id \in Nat /\ next_id \in 1 .. MaxOrders + 1
    BY Unfold DEF Matching
<1>2. /\ taker' = Pub!Book!NoTaker /\ next_id' = next_id
      /\ \/ resting' = resting /\ event'.kind \in {"filled", "rejected"}
         \/ /\ resting' = resting \cup {Remainder} /\ Remainder \in Orders
            /\ event'.kind = "rested"
    BY <1>1, ReturnStep
<1>3. taker.id \in Nat /\ Remainder.id = taker.id /\ Remainder.side = taker.side
      /\ Remainder.price = taker.price
    BY <1>1, TakerRecord DEF Remainder
<1>4. \A m \in resting : m.id < taker.id /\ m.id \in Nat
    BY <1>1, OrderRecord DEF Inv, Ascending, NextToRest, BookOK
<1>5. NextToRest' = next_id
    BY <1>2 DEF NextToRest
<1>6. \A m \in resting' : m.id < next_id
    BY <1>1, <1>2, <1>3, <1>4
<1>7. \A m, n \in resting' : m.id = n.id => m = n
    <2>1. \A m \in resting : m.id # Remainder.id
        BY <1>3, <1>4
    <2> QED
        BY <1>1, <1>2, <2>1 DEF BookOK, Distinct
<1>8. IsFiniteSet(resting') /\ resting' \subseteq Orders
    BY <1>1, <1>2, FS_AddElement DEF BookOK
<1>9. Ascending'
    BY <1>2, <1>5, <1>6, <1>7, <1>8 DEF Inv, Ascending
<1>10. Sided'
    <2>1. Remainder.id \notin children => BehindMid(Remainder.side, Remainder.price)
        BY <1>1, <1>3 DEF Inv, Sided, Ascending
    <2>2. Remainder.id \in children => Remainder.side = "sell"
        BY <1>1, <1>3 DEF Inv, Sided, Ascending
    <2> QED
        BY <1>2, <2>1, <2>2 DEF Inv, Sided
<1>11. event'.kind # "fill" /\ TradesAreOurs'
    BY <1>2 DEF TradesAreOurs
<1> QED
    BY <1>1, <1>2, <1>8, <1>9, <1>10, <1>11

LEMMA BgReturnsInv ==
    ASSUME Inv, BgReturns
    PROVE  Inv'
<1> DEFINE entry == [id |-> taker.id, birth |-> step_idx]
<1>1. /\ pc = "bgmatch" /\ pc' = "flow" /\ k' = k + 1 /\ (Pub!Ack \/ Pub!NoAck)
      /\ \/ /\ event'.kind # "rejected"
            /\ resting_ids' = Append(resting_ids, taker.id) /\ bg' = Append(bg, entry)
         \/ /\ event'.kind = "rejected" /\ UNCHANGED <<resting_ids, bg>>
      /\ UNCHANGED <<bg_head, acctVars, histVars>>
    BY DEF BgReturns
<1> USE DEF acctVars, histVars
<1>2. Matching /\ ~Matching' /\ taker \in Takers
    BY <1>1, Unfold DEF Matching
<1>3. /\ Ascending' /\ Sided' /\ TradesAreOurs' /\ resting' \subseteq Orders
      /\ taker' = Pub!Book!NoTaker /\ event'.kind # "fill"
      /\ next_id' \in 1 .. MaxOrders + 1
    BY <1>1, <1>2, ReturnKeeps
<1>r. /\ \/ resting' = resting
         \/ resting' = resting \cup {Remainder} /\ event'.kind # "rejected"
      /\ Remainder.id = taker.id /\ taker.id \in 1 .. MaxOrders
    BY <1>1, <1>2, ReturnStep, TakerRecord DEF Remainder
<1>e. entry \in Entries /\ entry.id = taker.id /\ entry.birth = step_idx
      /\ step_idx \in Nat /\ k \in Nat /\ k < Burst
    BY <1>1, <1>r, Unfold DEF Entries, Inv, TypeOK, OneCall
<1>b. Len(bg) \in Nat /\ bg_head \in 1 .. Len(bg) + 1
    BY Unfold
<1> HIDE DEF entry
<1>v. /\ resting_ids' \in Seq(1 .. MaxOrders) /\ bg' \in Seq(Entries)
      /\ \A x : Has(resting_ids, x) => Has(resting_ids', x)
      /\ event'.kind # "rejected" => Has(resting_ids', taker.id)
    <2>1. resting_ids \in Seq(1 .. MaxOrders) /\ bg \in Seq(Entries)
        BY Unfold, TrackedFacts
    <2>2. /\ Append(resting_ids, taker.id) \in Seq(1 .. MaxOrders)
          /\ Has(Append(resting_ids, taker.id), taker.id)
          /\ \A x : Has(resting_ids, x) => Has(Append(resting_ids, taker.id), x)
        BY <1>r, <2>1, AppendKeeps
    <2>3. Append(bg, entry) \in Seq(Entries)
        BY <1>e, <2>1, AppendKeeps
    <2> QED
        BY <1>1, <2>1, <2>2, <2>3
<1>g. /\ Len(bg') \in {Len(bg), Len(bg) + 1}
      /\ \A i \in 1 .. Len(bg) : bg'[i] = bg[i]
      /\ Len(bg') = Len(bg) + 1 => bg'[Len(bg) + 1] = entry
      /\ event'.kind # "rejected" => Len(bg') = Len(bg) + 1
    <2>1. bg \in Seq(Entries)
        BY TrackedFacts
    <2>2. /\ Len(Append(bg, entry)) = Len(bg) + 1
          /\ \A i \in 1 .. Len(bg) : Append(bg, entry)[i] = bg[i]
          /\ Append(bg, entry)[Len(bg) + 1] = entry
        BY <1>e, <2>1
    <2>3. CASE event'.kind # "rejected"
        <3>1. bg' = Append(bg, entry)
            BY <1>1, <2>3
        <3> QED
            BY <2>2, <3>1
    <2>4. CASE event'.kind = "rejected"
        <3>1. bg' = bg /\ Len(bg) # Len(bg) + 1
            BY <1>1, <1>b, <2>4
        <3> QED
            BY <2>4, <3>1
    <2> QED
        BY <2>3, <2>4
<1>4. TypeOK'
    <2>1. bg_head' \in 1 .. Len(bg') + 1 /\ k' \in 0 .. Burst
        BY <1>1, <1>b, <1>e, <1>g
    <2>2. \A i \in 1 .. Len(resting_ids') : resting_ids'[i] \in 1 .. MaxOrders
        BY <1>v, TypeFromSeq
    <2> QED
        BY <1>1, <1>3, <2>1, <2>2 DEF Inv, TypeOK
<1>5. OneCall'
    BY <1>1, <1>2, <1>3 DEF Inv, OneCall
<1>6. Tracked'
    <2>1. \A m \in resting' : Has(resting_ids', m.id)
        BY <1>r, <1>v, TrackedFacts
    <2>2. ASSUME NEW m \in BgResting'
          PROVE  \E i \in bg_head' .. Len(bg') : bg'[i].id = m.id
        <3>1. CASE m \in resting
            <4>1. m \in BgResting
                BY <1>1, <3>1 DEF BgResting
            <4>2. PICK i \in bg_head .. Len(bg) : bg[i].id = m.id
                BY <4>1, TrackedFacts
            <4>3. i \in bg_head' .. Len(bg') /\ i \in 1 .. Len(bg)
                BY <1>1, <1>b, <1>g
            <4> QED
                BY <1>g, <4>2, <4>3
        <3>2. CASE m \notin resting
            <4>1. m = Remainder /\ event'.kind # "rejected"
                BY <1>r, <3>2 DEF BgResting
            <4>2. bg'[Len(bg) + 1] = entry /\ Len(bg) + 1 \in bg_head' .. Len(bg')
                BY <1>1, <1>b, <1>g, <4>1
            <4> QED
                BY <1>e, <1>r, <4>1, <4>2
        <3> QED
            BY <3>1, <3>2
    <2> QED
        BY <1>v, <2>1, <2>2, TrackedFrom
<1>7. Accounted'
    BY <1>1, <1>2 DEF Inv, Accounted, Unfilled
<1>8. Aged'
    <2>1. SentThisStep = k /\ SentThisStep' = k + 1
        BY <1>1 DEF SentThisStep
    <2>2. ASSUME NEW i \in 1 .. Len(bg')
          PROVE  /\ bg'[i].birth =< step_idx
                 /\ Len(bg') - i + 1 =< Burst * (step_idx - bg'[i].birth) + (k + 1)
        <3>1. CASE i \in 1 .. Len(bg)
            <4>1. bg'[i] = bg[i] /\ bg[i].birth \in Nat
                BY <1>g, <3>1, BirthNat
            <4>2. /\ bg[i].birth =< step_idx
                  /\ Len(bg) - i + 1 =< Burst * (step_idx - bg[i].birth) + k
                BY <2>1, <3>1 DEF Inv, Aged
            <4>3. Burst * (step_idx - bg[i].birth) \in Int
                BY <1>e, <4>1, OneMoreStep
            <4>4. Len(bg') - i + 1 =< Burst * (step_idx - bg[i].birth) + (k + 1)
                BY <1>b, <1>e, <1>g, <3>1, <4>2, <4>3
            <4> QED
                BY <4>1, <4>2, <4>4
        <3>2. CASE i \notin 1 .. Len(bg)
            <4>1. i = Len(bg) + 1 /\ Len(bg') = Len(bg) + 1
                BY <1>b, <1>g, <3>2
            <4>2. bg'[i].birth = step_idx
                BY <1>e, <1>g, <4>1
            <4>3. step_idx - step_idx = 0 /\ Burst * 0 = 0
                BY <1>e
            <4> QED
                BY <1>b, <1>e, <4>1, <4>2, <4>3
        <3> QED
            BY <3>1, <3>2
    <2>3. ASSUME NEW i \in 2 .. Len(bg') PROVE bg'[i - 1].birth =< bg'[i].birth
        <3>1. CASE i \in 2 .. Len(bg)
            <4>1. bg[i - 1].birth =< bg[i].birth
                BY <3>1 DEF Inv, Aged
            <4>2. i - 1 \in 1 .. Len(bg) /\ i \in 1 .. Len(bg)
                BY <1>b, <3>1
            <4> QED
                BY <1>g, <4>1, <4>2
        <3>2. CASE i \notin 2 .. Len(bg)
            <4>1. i = Len(bg) + 1 /\ Len(bg') = Len(bg) + 1 /\ i - 1 \in 1 .. Len(bg)
                BY <1>b, <1>g, <3>2
            <4>2. bg'[i].birth = step_idx
                BY <1>e, <1>g, <4>1
            <4>3. bg'[i - 1] = bg[i - 1]
                BY <1>g, <4>1
            <4>4. bg[i - 1].birth =< step_idx
                BY <4>1 DEF Inv, Aged
            <4> QED
                BY <4>2, <4>3, <4>4
        <3> QED
            BY <3>1, <3>2
    <2>4. ASSUME bg_head =< Len(bg')
          PROVE  step_idx - bg'[bg_head].birth =< Lifetime - 1
        <3>1. CASE bg_head =< Len(bg)
            <4>1. step_idx - bg[bg_head].birth =< Lifetime - 1
                BY <1>1, <3>1 DEF Inv, Aged
            <4>2. bg_head \in 1 .. Len(bg)
                BY <1>b, <3>1
            <4> QED
                BY <1>g, <4>1, <4>2
        <3>2. CASE bg_head > Len(bg)
            <4>1. bg_head = Len(bg) + 1 /\ Len(bg') = Len(bg) + 1
                BY <1>b, <1>g, <2>4, <3>2
            <4>2. bg'[bg_head].birth = step_idx
                BY <1>e, <1>g, <4>1
            <4> QED
                BY <1>e, <4>2
        <3> QED
            BY <1>b, <3>1, <3>2
    <2> QED
        BY <1>1, <2>1, <2>2, <2>3, <2>4 DEF Aged
<1>9. EpisodeStartsEmpty'
    BY <1>1 DEF EpisodeStartsEmpty
<1> QED
    BY <1>3, <1>4, <1>5, <1>6, <1>7, <1>8, <1>9 DEF Inv

(* A child that fits is filled for no more than what remained, so the two  *)
(* accounts move by the same amount; one that does not may take the fills  *)
(* past the parent, and then nothing is left.                              *)
LEMMA ChildReturnsInv ==
    ASSUME Inv, ChildReturns
    PROVE  Inv'
<1>1. /\ pc = "child" /\ pc' = "idle" /\ (Pub!Ack \/ Pub!NoAck)
      /\ step_idx' = step_idx + 1
      /\ done' = (done \/ remaining' = 0 \/ step_idx' >= Horizon)
      /\ qty_filled' = qty_filled + filled
      /\ remaining' = IF filled >= remaining THEN 0 ELSE remaining - filled
      /\ UNCHANGED <<bgVars, k, histVars>>
    BY DEF ChildReturns, Advance, Bookkeep
<1>t. resting_ids' = IF event'.kind # "rejected" /\ filled < qty
                     THEN Append(resting_ids, taker.id) ELSE resting_ids
    BY DEF ChildReturns, Track
<1> USE DEF bgVars, histVars
<1>2. Matching /\ ~Matching' /\ taker \in Takers
    BY <1>1, Unfold DEF Matching
<1>3. /\ Ascending' /\ Sided' /\ TradesAreOurs' /\ resting' \subseteq Orders
      /\ taker' = Pub!Book!NoTaker /\ event'.kind # "fill"
      /\ next_id' \in 1 .. MaxOrders + 1
    BY <1>1, <1>2, ReturnKeeps
<1>a. /\ qty \in Nat /\ filled \in 0 .. qty /\ qty - filled = taker.remaining
      /\ remaining \in Nat /\ qty_filled \in Nat /\ remaining =< ParentQty
      /\ remaining = Unfilled /\ oversized' = oversized
    BY <1>1, <1>2 DEF Inv, Accounted, TypeOK
<1>o. ~oversized => qty =< remaining /\ remaining + qty_filled = ParentQty
    BY <1>1 DEF Inv, Accounted
<1>m. /\ remaining' = Unfilled' /\ remaining' \in 0 .. ParentQty /\ qty_filled' \in Nat
      /\ ~oversized' => remaining' + qty_filled' = ParentQty
    <2>1. remaining' \in 0 .. ParentQty /\ qty_filled' \in Nat
        BY <1>1, <1>a
    <2>2. remaining' = Unfilled'
        BY <1>1, <1>a DEF Unfilled
    <2>3. ASSUME ~oversized' PROVE remaining' + qty_filled' = ParentQty
        BY <1>1, <1>a, <1>o, <2>3
    <2> QED
        BY <2>1, <2>2, <2>3
<1>s. step_idx \in Nat /\ step_idx < Horizon
    BY <1>1, Unfold DEF Inv, OneCall
<1>r. /\ \/ resting' = resting
         \/ /\ resting' = resting \cup {Remainder} /\ event'.kind = "rested"
            /\ taker.remaining > 0
      /\ Remainder.id = taker.id /\ taker.id \in 1 .. MaxOrders
    BY <1>1, <1>2, ReturnStep, TakerRecord DEF Remainder
<1>v. /\ resting_ids' \in Seq(1 .. MaxOrders)
      /\ \A x : Has(resting_ids, x) => Has(resting_ids', x)
      /\ event'.kind = "rested" /\ taker.remaining > 0 => Has(resting_ids', taker.id)
    <2>1. resting_ids \in Seq(1 .. MaxOrders)
        BY Unfold
    <2>2. /\ Append(resting_ids, taker.id) \in Seq(1 .. MaxOrders)
          /\ Has(Append(resting_ids, taker.id), taker.id)
          /\ \A x : Has(resting_ids, x) => Has(Append(resting_ids, taker.id), x)
        BY <1>r, <2>1, AppendKeeps
    <2>3. taker.remaining > 0 => filled < qty
        BY <1>a
    <2> QED
        BY <1>t, <2>1, <2>2, <2>3
<1>4. TypeOK'
    <2>1. /\ remaining' \in 0 .. ParentQty /\ qty_filled' \in Nat
          /\ step_idx' \in 0 .. Horizon
        BY <1>1, <1>m, <1>s
    <2>2. \A i \in 1 .. Len(resting_ids') : resting_ids'[i] \in 1 .. MaxOrders
        BY <1>v, TypeFromSeq
    <2>3. bg_head' \in 1 .. Len(bg') + 1 /\ k' \in 0 .. Burst /\ done' \in BOOLEAN
          /\ oversized' \in BOOLEAN
        BY <1>1 DEF Inv, TypeOK
    <2> QED
        BY <1>1, <1>3, <2>1, <2>2, <2>3 DEF TypeOK
<1>5. OneCall'
    <2>1. ~done' => step_idx' < Horizon
        BY <1>1, <1>s, StillOpen
    <2> QED
        BY <1>1, <1>2, <1>3, <2>1 DEF OneCall
<1>6. Tracked'
    <2>1. \A m \in resting' : Has(resting_ids', m.id)
        BY <1>r, <1>v, TrackedFacts
    <2>2. BgResting' \subseteq BgResting
        <3>1. taker.id \in children
            BY <1>1 DEF Inv, Ascending
        <3> QED
            BY <1>1, <1>r, <3>1 DEF BgResting
    <2>3. \A m \in BgResting' : \E i \in bg_head' .. Len(bg') : bg'[i].id = m.id
        BY <1>1, <2>2, TrackedFacts
    <2>4. bg' \in Seq(Entries)
        BY <1>1, TrackedFacts
    <2> QED
        BY <1>v, <2>1, <2>3, <2>4, TrackedFrom
<1>7. Accounted'
    BY <1>1, <1>2, <1>m DEF Accounted
<1>8. Aged'
    <2>1. k = Burst
        BY <1>1 DEF Inv, OneCall
    <2> QED
        BY <1>1, <2>1, AdvanceAges
<1>9. EpisodeStartsEmpty'
    BY <1>1, <1>s DEF EpisodeStartsEmpty
<1> QED
    BY <1>3, <1>4, <1>5, <1>6, <1>7, <1>8, <1>9 DEF Inv

---------------------------------------------------------------------------
LEMMA InitInv == Init => Inv
<1> SUFFICES ASSUME Init PROVE Inv
    OBVIOUS
<1>1. /\ resting = {} /\ taker = Pub!Book!NoTaker /\ event.kind = "none" /\ next_id = 1
      /\ resting_ids = <<>> /\ bg = <<>> /\ bg_head = 1
      /\ remaining = ParentQty /\ qty_filled = 0
      /\ step_idx = 0 /\ done = FALSE /\ pc = "idle" /\ k = 0 /\ children = {}
      /\ oversized = FALSE
    BY DEF Init, FreshEpisode, Pub!Init, Pub!Book!Init, Pub!Book!NoEvent
<1>2. ~Matching /\ Len(bg) = 0 /\ Len(resting_ids) = 0
    BY <1>1 DEF Matching
<1>3. TypeOK
    <2>1. next_id \in 1 .. MaxOrders + 1 /\ bg_head \in 1 .. Len(bg) + 1
        BY <1>1, <1>2, MaxOrdersNat
    <2>2. \A i \in 1 .. Len(resting_ids) : resting_ids[i] \in 1 .. MaxOrders
        BY <1>2
    <2>3. /\ remaining \in 0 .. ParentQty /\ qty_filled \in Nat
          /\ step_idx \in 0 .. Horizon /\ k \in 0 .. Burst
        BY <1>1
    <2> QED
        BY <1>1, <2>1, <2>2, <2>3 DEF TypeOK
<1>4. OneCall
    BY <1>1, <1>2 DEF OneCall
<1>5. Ascending
    BY <1>1, FS_EmptySet DEF Ascending
<1>6. Tracked
    <2>1. bg \in Seq([id : 1 .. MaxOrders, birth : 0 .. Horizon])
          /\ resting_ids \in Seq(1 .. MaxOrders)
        BY <1>1
    <2> QED
        BY <1>1, <2>1 DEF Tracked, BgResting
<1>7. Sided /\ Accounted /\ EpisodeStartsEmpty /\ TradesAreOurs
    BY <1>1, <1>2 DEF Sided, Accounted, Unfilled, EpisodeStartsEmpty, TradesAreOurs
<1>8. Aged
    BY <1>1, <1>2 DEF Aged
<1> QED
    BY <1>3, <1>4, <1>5, <1>6, <1>7, <1>8 DEF Inv

LEMMA StutterInv ==
    ASSUME Inv, UNCHANGED vars
    PROVE  Inv'
<1> USE DEF vars, pubVars, bgVars, acctVars, histVars
<1>1. TypeOK' /\ OneCall' /\ Ascending'
    BY DEF Inv, TypeOK, OneCall, Ascending, NextToRest, Matching
<1>2. Tracked' /\ Sided' /\ Accounted'
    BY DEF Inv, Tracked, Sided, Accounted, Unfilled, BgResting, Matching
<1>3. Aged' /\ EpisodeStartsEmpty' /\ TradesAreOurs'
    BY DEF Inv, Aged, SentThisStep, EpisodeStartsEmpty, TradesAreOurs
<1> QED
    BY <1>1, <1>2, <1>3 DEF Inv

LEMMA NextInv == Inv /\ [Next]_vars => Inv'
<1> SUFFICES ASSUME Inv, [Next]_vars PROVE Inv'
    OBVIOUS
<1>1. CASE Next
    BY <1>1, ResetInv, ResetCancelInv, ResetDoneInv, StepInv, ExpireInv, ExpireDoneInv,
       FlowEvictInv, FlowNoEvictInv, FlowAddInv, BgFillInv, BgReturnsInv,
       ChildNoneInv, ChildAddInv, ChildFillInv, ChildReturnsInv DEF Next
<1>2. CASE UNCHANGED vars
    BY <1>2, StutterInv
<1> QED
    BY <1>1, <1>2

(* Every state of the environment satisfies the inductive invariant. *)
THEOREM Invariance == Spec => []Inv
    BY InitInv, NextInv, PTL DEF Spec

(* An episode stays within its horizon and its ids, and what is left within *)
(* the parent, for every action.                                            *)
THEOREM TypeCorrect == Spec => []TypeOK
<1>1. Inv => TypeOK
    BY DEF Inv
<1> QED
    BY <1>1, Invariance, PTL

(* Reset's cancels leave nothing in the book when ids restart at 1. *)
THEOREM EpisodeStartsEmptyHolds == Spec => []EpisodeStartsEmpty
<1>1. Inv => EpisodeStartsEmpty
    BY DEF Inv
<1> QED
    BY <1>1, Invariance, PTL

(* Between steps remaining_ is the parent less qty_filled_, zero and never  *)
(* wrapped when an oversized child overfilled the parent, and the two make  *)
(* up the parent while no child was oversized.                              *)
THEOREM ConservedHolds == Spec => []Conserved
<1>1. Inv => Conserved
    BY DEF Inv, Accounted, Conserved
<1> QED
    BY <1>1, Invariance, PTL

(* Synthetic liquidity never trades with itself, nor a child with a child. *)
THEOREM TradesAreOursHolds == Spec => []TradesAreOurs
<1>1. Inv => TradesAreOurs
    BY DEF Inv
<1> QED
    BY <1>1, Invariance, PTL

(* Live entries of bg number at most Lifetime bursts, and every resting    *)
(* background order has one of its own.                                    *)
LEMMA BoundedDepth ==
    ASSUME Inv
    PROVE  DepthBounded
<1> DEFINE at == [m \in BgResting |-> CHOOSE i \in bg_head .. Len(bg) : bg[i].id = m.id]
<1>1. Len(bg) \in Nat /\ bg_head \in 1 .. Len(bg) + 1 /\ step_idx \in Nat /\ k \in Nat
    BY Unfold
<1>2. \A m \in BgResting : at[m] \in bg_head .. Len(bg) /\ bg[at[m]].id = m.id
    BY TrackedFacts
<1>3. at \in Injection(BgResting, bg_head .. Len(bg))
    <2>1. at \in [BgResting -> bg_head .. Len(bg)]
        BY <1>2
    <2>2. ASSUME NEW m \in BgResting, NEW n \in BgResting, at[m] = at[n] PROVE m = n
        <3>1. m.id = n.id
            BY <1>2, <2>2
        <3> QED
            BY <3>1, Unfold DEF BookOK, Distinct, BgResting
    <2> QED
        BY <2>1, <2>2 DEF Injection, IsInjective
<1>4. /\ IsFiniteSet(BgResting)
      /\ Cardinality(BgResting) =< Cardinality(bg_head .. Len(bg))
    BY <1>1, <1>3, FS_Injection, FS_Interval
<1>5. Cardinality(bg_head .. Len(bg)) =< Lifetime * Burst
    <2>1. CASE bg_head > Len(bg)
        <3>1. Cardinality(bg_head .. Len(bg)) = 0
            BY <1>1, <2>1, FS_Interval
        <3> QED
            BY <3>1
    <2>2. CASE bg_head =< Len(bg)
        <3> DEFINE b == bg[bg_head].birth
        <3>1. Cardinality(bg_head .. Len(bg)) = Len(bg) - bg_head + 1
            BY <1>1, <2>2, FS_Interval
        <3>2. bg_head \in 1 .. Len(bg) /\ b \in Nat
            BY <2>2, BirthNat
        <3>3. b =< step_idx
              /\ Len(bg) - bg_head + 1 =< Burst * (step_idx - b) + SentThisStep
            BY <3>2 DEF Inv, Aged
        <3>4. step_idx - b =< IF pc \in {"idle", "reset", "expire"} THEN Lifetime
                              ELSE Lifetime - 1
            BY <2>2 DEF Inv, Aged
        <3> HIDE DEF b
        <3>5. CASE pc \in {"idle", "reset", "expire"}
            <4>1. SentThisStep = 0 /\ step_idx - b =< Lifetime /\ step_idx - b \in Nat
                BY <1>1, <3>2, <3>3, <3>4, <3>5 DEF SentThisStep
            <4>2. Burst * (step_idx - b) =< Burst * Lifetime
                  /\ Burst * (step_idx - b) \in Nat
                BY <4>1, TimesMonotone
            <4> QED
                BY <1>1, <3>1, <3>2, <3>3, <4>1, <4>2, TimesMonotone
        <3>6. CASE pc \notin {"idle", "reset", "expire"}
            <4>1. SentThisStep = k /\ step_idx - b =< Lifetime - 1 /\ step_idx - b \in Nat
                  /\ k =< Burst
                BY <1>1, <3>2, <3>3, <3>4, <3>6 DEF SentThisStep, Inv, TypeOK
            <4>2. Burst * (step_idx - b) =< Burst * (Lifetime - 1)
                  /\ Burst * (step_idx - b) \in Nat
                BY <4>1, TimesMonotone
            <4>3. Burst * (Lifetime - 1) + Burst = Lifetime * Burst
                BY OneMoreStep
            <4> QED
                BY <1>1, <3>1, <3>2, <3>3, <4>1, <4>2, <4>3
        <3> QED
            BY <3>5, <3>6
    <2> QED
        BY <1>1, <2>1, <2>2
<1>6. Cardinality(BgResting) \in Nat /\ Cardinality(bg_head .. Len(bg)) \in Nat
    BY <1>1, <1>4, FS_CardinalityType, FS_Interval
<1> QED
    BY <1>4, <1>5, <1>6 DEF DepthBounded

(* Expiry by age bounds the standing background depth, in every episode.   *)
THEOREM DepthBoundedHolds == Spec => []DepthBounded
<1>1. Inv => DepthBounded
    BY BoundedDepth
<1> QED
    BY <1>1, Invariance, PTL
===========================================================================
