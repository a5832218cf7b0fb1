---------------------------- MODULE OrderBook ----------------------------
(***************************************************************************)
(* core::OrderBook (cpp/core/order_book.hpp): price ladders of intrusive   *)
(* FIFO lists, an incrementally maintained touch, and orders in slab       *)
(* blocks.  One step per iteration of the matching loop and per slab call. *)
(*                                                                         *)
(* The slab is SlabAllocator: word[b] is the first word of block b, that   *)
(* is Order::id while b is allocated and the free-list link once it is     *)
(* freed.  The rest of an Order is order[b]; its content after             *)
(* Deallocate is Stale.  The id index is the map IdIndex implements.       *)
(* Callers issue fresh ids in ascending order.                             *)
(***************************************************************************)
EXTENDS Integers, Sequences, FiniteSets, FiniteSetsExt

CONSTANTS Capacity, MinPrice, MaxPrice, Prices, Quantities, MaxOrders

ASSUME BookAssumption ==
    /\ Capacity \in Nat /\ MaxOrders \in Nat
    /\ MinPrice \in Int /\ MaxPrice \in Int /\ MinPrice =< MaxPrice
    /\ Prices \subseteq Int
    /\ Quantities \subseteq Nat \ {0}

VARIABLES free_head, word, in_use, ret, stack,        \* slab_
          order,                                      \* Order fields but id
          levels,                                     \* bid_levels_, ask_levels_
          best_px, live_levels,                       \* best_*_px_, live_*_levels_
          id_index,                                   \* id -> block
          pc, taker, victim,                          \* the call in progress
          next_id, event                              \* callers' ids; callbacks

slabVars == <<free_head, word, in_use, ret, stack>>
ladderVars == <<levels, best_px, live_levels>>
vars == <<slabVars, order, ladderVars, id_index, pc, taker, victim, next_id, event>>

Null == 0
Blocks == 1 .. Capacity
Ids == 1 .. MaxOrders
Band == MinPrice .. MaxPrice

Slab == INSTANCE SlabAllocator WITH Words <- 0 .. (Capacity + MaxOrders)

Linked == { b \in Blocks : \E i \in Ids : id_index[i] = b }
Resting == { [id |-> word[b], side |-> order[b].side, price |-> order[b].price,
              qty |-> order[b].qty] : b \in Linked }
Book == INSTANCE BookSpec WITH resting <- Resting

Sides == Book!Sides
Opp(side) == Book!Opp(side)
Stale == [price |-> 0, qty |-> 0, side |-> "stale", prev |-> Null, next |-> Null]
EmptyLevel == [head |-> Null, tail |-> Null, total_qty |-> 0, order_count |-> 0]

Init ==
    /\ Slab!Init
    /\ order = [b \in Blocks |-> Stale]
    /\ levels = [s \in Sides |-> [p \in Band |-> EmptyLevel]]
    /\ best_px = [s \in Sides |-> 0]
    /\ live_levels = [s \in Sides |-> 0]
    /\ id_index = [i \in Ids |-> Null]
    /\ pc = "idle" /\ taker = Book!NoTaker /\ victim = Null
    /\ next_id = 1 /\ event = Book!NoEvent

---------------------------------------------------------------------------
(* The touch. *)

MarkLevelLiveFirstOnly(side, px) ==
    /\ best_px' = [best_px EXCEPT ![side] = IF live_levels[side] = 0 THEN px ELSE @]
    /\ live_levels' = [live_levels EXCEPT ![side] = @ + 1]
MarkLevelLive(side, px) ==
    /\ best_px' = [best_px EXCEPT ![side] =
          IF \/ live_levels[side] = 0
             \/ IF side = "buy" THEN px > @ ELSE px < @
          THEN px ELSE @]
    /\ live_levels' = [live_levels EXCEPT ![side] = @ + 1]

(* The scan toward worse prices for the next populated level of `ladder`.  *)
Worse(side, p, q) == IF side = "buy" THEN p < q ELSE p > q
NextPopulated(side, px, ladder) ==
    CHOOSE p \in Band :
        /\ Worse(side, p, px) /\ ladder[p].head # Null
        /\ \A q \in Band : Worse(side, q, px) /\ Worse(side, p, q) => ladder[q].head = Null

MarkLevelEmptied(side, px, ladder) ==
    /\ live_levels' = [live_levels EXCEPT ![side] = @ - 1]
    /\ best_px' = [best_px EXCEPT ![side] =
          IF live_levels[side] > 1 /\ px = @ THEN NextPopulated(side, px, ladder) ELSE @]

---------------------------------------------------------------------------
(* AddLimit: matching, one fill per step (MatchBuy, MatchSell and          *)
(* ConsumeLevel).                                                          *)

AddLimit(side, px, qty) ==
    /\ pc = "idle"
    /\ next_id =< MaxOrders
    /\ taker' = [id |-> next_id, side |-> side, price |-> px, remaining |-> qty]
    /\ next_id' = next_id + 1
    /\ event' = Book!NoEvent
    /\ pc' = "match"
    /\ UNCHANGED <<slabVars, order, ladderVars, id_index, victim>>

CrossingStrictly ==
    /\ taker.remaining > 0
    /\ live_levels[Opp(taker.side)] > 0
    /\ Book!Crosses(taker, best_px[Opp(taker.side)])
    /\ taker.price # best_px[Opp(taker.side)]
Crossing ==
    /\ taker.remaining > 0
    /\ live_levels[Opp(taker.side)] > 0
    /\ Book!Crosses(taker, best_px[Opp(taker.side)])

(* A fill that leaves the maker resting. *)
FillPart ==
    /\ pc = "match" /\ Crossing
    /\ LET side == Opp(taker.side)
           px == best_px[side]
           maker == levels[side][px].head
       IN /\ order[maker].qty > taker.remaining
          /\ event' = Book!FillEvent(word[maker], taker, px, taker.remaining)
          /\ order' = [order EXCEPT ![maker].qty = @ - taker.remaining]
          /\ levels' = [levels EXCEPT ![side][px].total_qty = @ - taker.remaining]
          /\ taker' = [taker EXCEPT !.remaining = 0]
    /\ UNCHANGED <<slabVars, best_px, live_levels, id_index, pc, victim, next_id>>

(* A fill that consumes the maker: pop the head, forget its id.            *)
PopHeadUnlinking(lvl, q) ==
    [lvl EXCEPT !.head = order[lvl.head].next,
                !.tail = IF order[lvl.head].next = Null THEN Null ELSE @,
                !.total_qty = (@ - q) - q,
                !.order_count = @ - 1]
PopHeadKeepingTail(lvl, q) ==
    [lvl EXCEPT !.head = order[lvl.head].next,
                !.total_qty = @ - q,
                !.order_count = @ - 1]
PopHead(lvl, q) ==
    [lvl EXCEPT !.head = order[lvl.head].next,
                !.tail = IF order[lvl.head].next = Null THEN Null ELSE @,
                !.total_qty = @ - q,
                !.order_count = @ - 1]
FillWhole ==
    /\ pc = "match" /\ Crossing
    /\ LET side == Opp(taker.side)
           px == best_px[side]
           maker == levels[side][px].head
           q == order[maker].qty
           succ == order[maker].next
       IN /\ q =< taker.remaining
          /\ event' = Book!FillEvent(word[maker], taker, px, q)
          /\ order' = [b \in Blocks |->
                IF b = maker THEN [order[b] EXCEPT !.qty = 0]
                ELSE IF b = succ THEN [order[b] EXCEPT !.prev = Null]
                ELSE order[b]]
          /\ levels' = [levels EXCEPT ![side][px] = PopHead(@, q)]
          /\ id_index' = [id_index EXCEPT ![word[maker]] = Null]
          /\ taker' = [taker EXCEPT !.remaining = @ - q]
          /\ victim' = maker
    /\ pc' = "reclaim"
    /\ UNCHANGED <<slabVars, best_px, live_levels, next_id>>

(* slab_.Deallocate(maker), and MarkLevelEmptied once the level is drained.*)
Reclaim ==
    /\ pc = "reclaim"
    /\ Slab!Deallocate(victim)
    /\ order' = [order EXCEPT ![victim] = Stale]
    /\ LET side == Opp(taker.side)
           px == best_px[side]
       IN IF levels[side][px].head = Null
          THEN MarkLevelEmptied(side, px, levels[side])
          ELSE UNCHANGED <<best_px, live_levels>>
    /\ pc' = "match" /\ victim' = Null
    /\ UNCHANGED <<levels, id_index, taker, next_id, event>>

---------------------------------------------------------------------------
(* AddLimit: what becomes of the remainder (Rest).                         *)

Return(kind) ==
    /\ event' = Book!OrderEvent(kind, taker.id, taker.side, taker.price,
                                taker.remaining)
    /\ taker' = Book!NoTaker
    /\ pc' = "idle"

Filled ==
    /\ pc = "match" /\ taker.remaining = 0
    /\ Return("filled")
    /\ UNCHANGED <<slabVars, order, ladderVars, id_index, victim, next_id>>

RestOutOfBand ==
    /\ pc = "match" /\ taker.remaining > 0 /\ ~Crossing
    /\ ~Book!InBand(taker.price)
    /\ Return("rejected")
    /\ UNCHANGED <<slabVars, order, ladderVars, id_index, victim, next_id>>

RestSlabFull ==
    /\ pc = "match" /\ taker.remaining > 0 /\ ~Crossing
    /\ Book!InBand(taker.price)
    /\ Slab!AllocateFails
    /\ Return("rejected")
    /\ UNCHANGED <<order, ladderVars, id_index, victim, next_id>>

RestAllocate ==
    /\ pc = "match" /\ taker.remaining > 0 /\ ~Crossing
    /\ Book!InBand(taker.price)
    /\ Slab!Allocate
    /\ pc' = "link"
    /\ UNCHANGED <<order, ladderVars, id_index, taker, victim, next_id, event>>

PushBackToLevel(o, lvl) ==
    [lvl EXCEPT !.head = IF lvl.tail = Null THEN o ELSE @,
                !.tail = o,
                !.total_qty = @ + taker.remaining,
                !.order_count = @ + 1]

RestLink ==
    /\ pc = "link"
    /\ LET o == ret
           side == taker.side
           px == taker.price
           lvl == levels[side][px]
       IN /\ Slab!ClientWrite(o, taker.id)
          /\ order' = [b \in Blocks |->
                IF b = o THEN [price |-> px, qty |-> taker.remaining, side |-> side,
                               prev |-> lvl.tail, next |-> Null]
                ELSE IF b = lvl.tail THEN [order[b] EXCEPT !.next = o]
                ELSE order[b]]
          /\ levels' = [levels EXCEPT ![side][px] = PushBackToLevel(o, @)]
          /\ IF lvl.head = Null THEN MarkLevelLive(side, px)
             ELSE UNCHANGED <<best_px, live_levels>>
          /\ id_index' = [id_index EXCEPT ![taker.id] = o]
    /\ Return("rested")
    /\ UNCHANGED <<victim, next_id>>

---------------------------------------------------------------------------
(* Cancel *)

Unlink(o, lvl) ==
    [lvl EXCEPT !.head = IF order[o].prev = Null THEN order[o].next ELSE @,
                !.tail = IF order[o].next = Null THEN order[o].prev ELSE @,
                !.total_qty = @ - order[o].qty,
                !.order_count = @ - 1]

CancelUnknown(id) ==
    /\ pc = "idle"
    /\ id_index[id] = Null
    /\ event' = Book!OrderEvent("unknown", id, "buy", 0, 0)
    /\ UNCHANGED <<slabVars, order, ladderVars, id_index, pc, taker, victim, next_id>>

RelinkForwardOnly(o) ==
    [b \in Blocks |->
        [order[b] EXCEPT !.next = IF b = order[o].prev THEN order[o].next ELSE @]]
Relink(o) ==
    [b \in Blocks |->
        [order[b] EXCEPT !.next = IF b = order[o].prev THEN order[o].next ELSE @,
                         !.prev = IF b = order[o].next THEN order[o].prev ELSE @]]

Cancel(id) ==
    /\ pc = "idle"
    /\ id_index[id] # Null
    /\ LET o == id_index[id]
           side == order[o].side
           px == order[o].price
           ladder == [levels[side] EXCEPT ![px] = Unlink(o, @)]
       IN /\ event' = Book!OrderEvent("cancel", word[o], side, px, order[o].qty)
          /\ order' = Relink(o)
          /\ levels' = [levels EXCEPT ![side] = ladder]
          /\ IF ladder[px].head = Null THEN MarkLevelEmptied(side, px, ladder)
             ELSE UNCHANGED <<best_px, live_levels>>
          /\ victim' = o
    /\ id_index' = [id_index EXCEPT ![id] = Null]
    /\ pc' = "release"
    /\ UNCHANGED <<slabVars, taker, next_id>>

ReleaseLeaks ==
    /\ pc = "release"
    /\ order' = [order EXCEPT ![victim] = Stale]
    /\ pc' = "idle" /\ victim' = Null
    /\ UNCHANGED <<slabVars, ladderVars, id_index, taker, next_id, event>>
Release ==
    /\ pc = "release"
    /\ Slab!Deallocate(victim)
    /\ order' = [order EXCEPT ![victim] = Stale]
    /\ pc' = "idle" /\ victim' = Null
    /\ UNCHANGED <<ladderVars, id_index, taker, next_id, event>>

---------------------------------------------------------------------------
Next ==
    \/ \E side \in Sides, px \in Prices, qty \in Quantities : AddLimit(side, px, qty)
    \/ FillPart \/ FillWhole \/ Reclaim
    \/ Filled \/ RestOutOfBand \/ RestSlabFull \/ RestAllocate \/ RestLink
    \/ \E id \in Ids : Cancel(id) \/ CancelUnknown(id)
    \/ Release

Spec == Init /\ [][Next]_vars

---------------------------------------------------------------------------
(* Links, heads and tails of the level lists are slab blocks or null, and  *)
(* quantities, totals and level counts never go below zero.                *)
TypeOK ==
    /\ Slab!TypeOK
    /\ order \in [Blocks -> [price : Int, qty : Nat, side : Sides \cup {"stale"},
                             prev : 0 .. Capacity, next : 0 .. Capacity]]
    /\ levels \in [Sides -> [Band -> [head : 0 .. Capacity, tail : 0 .. Capacity,
                                      total_qty : Nat, order_count : Nat]]]
    /\ best_px \in [Sides -> Int]
    /\ live_levels \in [Sides -> Nat]
    /\ id_index \in [Ids -> 0 .. Capacity]
    /\ pc \in {"idle", "match", "reclaim", "link", "release"}
    /\ taker.remaining \in Nat
    /\ victim \in 0 .. Capacity
    /\ next_id \in 1 .. MaxOrders + 1

(* The blocks reached from a head by `next`; one too many if it cycles. *)
Chain(head) ==
    LET walk[n \in 0 .. Capacity] ==
          IF n = 0 THEN IF head = Null THEN <<>> ELSE <<head>>
          ELSE LET w == walk[n - 1] IN
               IF w = <<>> \/ order[w[Len(w)]].next = Null THEN w
               ELSE Append(w, order[w[Len(w)]].next)
    IN walk[Capacity]

SumQty(c) ==
    LET sum[k \in 0 .. Len(c)] == IF k = 0 THEN 0 ELSE sum[k - 1] + order[c[k]].qty
    IN sum[Len(c)]

(* Every level is a doubly linked FIFO of live orders of its own side and  *)
(* price, earliest first, and its O(1) aggregates are exact.               *)
LevelsExact ==
    \A s \in Sides, p \in Band :
        LET l == levels[s][p]
            c == Chain(l.head)
        IN /\ l.order_count = Len(c)
           /\ l.total_qty = SumQty(c)
           /\ l.tail = IF c = <<>> THEN Null ELSE c[Len(c)]
           /\ \A k \in 1 .. Len(c) :
                 /\ order[c[k]].side = s /\ order[c[k]].price = p
                 /\ order[c[k]].qty > 0
                 /\ order[c[k]].prev = IF k = 1 THEN Null ELSE c[k - 1]
                 /\ id_index[word[c[k]]] = c[k]
                 /\ k > 1 => word[c[k - 1]] < word[c[k]]

(* The touch is the best populated level and the counters count them; while*)
(* a drained maker is being reclaimed its level still counts.              *)
Populated(s) == { p \in Band : levels[s][p].head # Null }
TouchExact ==
    pc # "reclaim" =>
        \A s \in Sides :
            /\ live_levels[s] = Cardinality(Populated(s))
            /\ live_levels[s] > 0 =>
                  best_px[s] = IF s = "buy" THEN Max(Populated(s)) ELSE Min(Populated(s))

(* Every block is free, in a level list under its own id, or in the hands  *)
(* of the call in progress: nothing leaks, nothing is freed twice.         *)
Held == IF pc = "link" THEN {ret} ELSE IF victim # Null THEN {victim} ELSE {}
BlocksPartitioned ==
    /\ Slab!ChainIsStack
    /\ Linked \cap Slab!FreeBlocks = {} /\ Held \cap (Linked \cup Slab!FreeBlocks) = {}
    /\ Linked \cup Slab!FreeBlocks \cup Held = Blocks
    /\ in_use = Cardinality(Linked \cup Held)

(* Between calls the book is never crossed: every crossing pair was traded.*)
NotCrossed == pc = "idle" => Book!NotCrossed

---------------------------------------------------------------------------
(* What makes these inductive, in terms of neighbours in a list only.      *)

Kinds ==
    /\ stack \in Seq(Blocks)
    /\ free_head \in 0 .. Capacity /\ word \in [Blocks -> Int] /\ in_use \in Int
    /\ order \in [Blocks -> [price : Int, qty : Int, side : Sides \cup {"stale"},
                             prev : 0 .. Capacity, next : 0 .. Capacity]]
    /\ levels \in [Sides -> [Band -> [head : 0 .. Capacity, tail : 0 .. Capacity,
                                      total_qty : Int, order_count : Int]]]
    /\ best_px \in [Sides -> Int] /\ live_levels \in [Sides -> Int]
    /\ id_index \in [Ids -> 0 .. Capacity]
    /\ next_id \in 1 .. MaxOrders + 1

(* A call matches or rests its taker, or holds the block it will free.     *)
OneCall ==
    /\ pc \in {"idle", "match", "reclaim", "link", "release"}
    /\ IF pc \in {"match", "reclaim", "link"}
       THEN /\ taker \in [id : Ids, side : Sides, price : Int, remaining : Nat]
            /\ taker.id < next_id
       ELSE taker = Book!NoTaker
    /\ IF pc \in {"reclaim", "release"} THEN victim \in Blocks ELSE victim = Null
    /\ pc = "link" => /\ ret \in Blocks /\ taker.remaining > 0
                      /\ ~Crossing /\ Book!InBand(taker.price)

(* The index maps an id to the block that carries it. *)
NextToRest == IF taker = Book!NoTaker THEN next_id ELSE taker.id
Indexed == \A i \in Ids : id_index[i] # Null => word[id_index[i]] = i /\ i < NextToRest

(* Neighbours agree, and ids ascend; the ends are the level's.             *)
WellLinked(b) ==
    LET o == order[b]
        l == levels[o.side][o.price]
    IN /\ o.side \in Sides /\ o.price \in Band /\ o.qty > 0
       /\ IF o.next = Null THEN l.tail = b
          ELSE /\ o.next \in Linked /\ order[o.next].prev = b
               /\ order[o.next].side = o.side /\ order[o.next].price = o.price
               /\ word[b] < word[o.next]
       /\ IF o.prev = Null THEN l.head = b
          ELSE o.prev \in Linked /\ order[o.prev].next = b
WellEnded(s, p) ==
    LET l == levels[s][p]
    IN /\ l.head = Null <=> l.tail = Null
       /\ l.head # Null => /\ l.head \in Linked /\ order[l.head].prev = Null
                           /\ order[l.head].side = s /\ order[l.head].price = p
       /\ l.tail # Null => /\ l.tail \in Linked /\ order[l.tail].next = Null
                           /\ order[l.tail].side = s /\ order[l.tail].price = p
Lists ==
    /\ \A b \in Linked : WellLinked(b)
    /\ \A s \in Sides, p \in Band : WellEnded(s, p)

(* The levels the counters count: the populated ones and the one being     *)
(* drained.                                                                *)
Counted(s) ==
    Populated(s) \cup
        IF pc = "reclaim" /\ s = Opp(taker.side) THEN {best_px[s]} ELSE {}
Touch ==
    \A s \in Sides :
        /\ Counted(s) \subseteq Band /\ live_levels[s] = Cardinality(Counted(s))
        /\ Counted(s) # {} =>
              /\ best_px[s] \in Counted(s)
              /\ \A p \in Counted(s) : p = best_px[s] \/ Worse(s, p, best_px[s])

Uncrossed ==
    \A b, a \in Linked :
        order[b].side = "buy" /\ order[a].side = "sell" => order[b].price < order[a].price

Inv ==
    /\ Kinds /\ OneCall /\ Indexed /\ Lists /\ Touch /\ Uncrossed /\ BlocksPartitioned

(* Fills, rests, rejections and cancels are those of price-time priority.  *)
ImplementsBookSpec == Book!Spec
===========================================================================
