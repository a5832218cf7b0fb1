------------------------------ MODULE SimEnv ------------------------------
(***************************************************************************)
(* SimEnv (cpp/bindings/py_module.cpp): the episode a learning agent steps *)
(* through.  A parent SELL is worked against synthetic liquidity: every    *)
(* Step expires old liquidity, adds a burst of new orders and sends one    *)
(* child order sized by the action.                                        *)
(*                                                                         *)
(* The background orders go through the publisher.  The child goes to the  *)
(* book with an observer that emits the same events and accumulates        *)
(* fills: it is the publisher's AddLimit with another sequence counter.    *)
(* The random generator and the action are free choices, a NaN action      *)
(* included: a child of size_frac * remaining_ can be larger than          *)
(* remaining_.  Rewards, cash and the observation vector are functions of  *)
(* this state and left out.                                                *)
(***************************************************************************)
EXTENDS Integers, Sequences, FiniteSets, FiniteSetsExt

CONSTANTS ParentQty,             \* parent_qty_
          Horizon,               \* horizon_steps_
          Mid,                   \* arrival_mid_
          Lifetime,              \* kLiquidityLifetimeSteps
          Burst,                 \* the 12 background orders of a step
          Depths, Quantities,    \* the generator's range
          FloatExact,            \* 2^24: a float holds every integer up to it
          Word,                  \* 2^64: the values of a std::uint64_t
          Capacity,              \* kBookCapacity
          Headroom,              \* the 8 of kBookCapacity - 8
          MinPrice, MaxPrice

ASSUME EnvAssumption ==
    /\ ParentQty \in Nat \ {0} /\ Horizon \in Nat \ {0}
    /\ Lifetime \in Nat \ {0} /\ Burst \in Nat
    /\ FloatExact \in Nat \ {0} /\ Word \in Nat /\ ParentQty < Word
    /\ Capacity \in Nat /\ Headroom \in 0 .. Capacity
    /\ Mid \in Int /\ MinPrice \in Int /\ MaxPrice \in Int
    /\ Mid - 1 >= MinPrice /\ Mid + 1 =< MaxPrice
    /\ Depths \subseteq Nat /\ Quantities \subseteq Nat \ {0}
    /\ \A d \in Depths : Mid - 1 - d >= MinPrice /\ Mid + 1 + d =< MaxPrice

VARIABLES resting, taker, event, next_id, qty, filled, shadow,   \* publisher
          resting_ids,                  \* vector of ids for Reset to cancel
          bg, bg_head,                  \* bg_ids_ and bg_birth_; first not expired
          remaining, qty_filled, step_idx, done,
          pc, k,                        \* position in Step; background orders sent
          children, sold,               \* history: child ids; their traded quantity
          oversized                     \* history: a child exceeded remaining_

pubVars == <<resting, taker, event, next_id, qty, filled, shadow>>
bgVars == <<bg, bg_head>>
acctVars == <<remaining, qty_filled, step_idx, done>>
histVars == <<children, sold, oversized>>
vars == <<pubVars, resting_ids, bgVars, acctVars, pc, k, histVars>>

MaxOrders == Horizon * (Burst + 1)     \* ids an episode can use
Prices == MinPrice .. MaxPrice
Pub == INSTANCE TelemetryPublisher

Back(s) == s[Len(s)]
PopBack(s) == SubSeq(s, 1, Len(s) - 1)

FreshEpisode ==
    /\ resting_ids = <<>> /\ bg = <<>> /\ bg_head = 1
    /\ remaining = ParentQty /\ qty_filled = 0
    /\ step_idx = 0 /\ done = FALSE

Init ==
    /\ Pub!Init
    /\ FreshEpisode
    /\ pc = "idle" /\ k = 0
    /\ children = {} /\ sold = 0 /\ oversized = FALSE

---------------------------------------------------------------------------
(* Reset: cancel every tracked id, then start over with id 1. *)

Reset ==
    /\ pc = "idle"
    /\ pc' = "reset"
    /\ UNCHANGED <<pubVars, resting_ids, bgVars, acctVars, k, histVars>>

ResetCancel ==
    /\ pc = "reset"
    /\ resting_ids # <<>>
    /\ Pub!Cancel(Head(resting_ids))
    /\ resting_ids' = Tail(resting_ids)
    /\ UNCHANGED <<bgVars, acctVars, pc, k, histVars>>

ResetDoneKeepingHead ==
    /\ pc = "reset"
    /\ resting_ids = <<>>
    /\ bg' = <<>> /\ bg_head' = bg_head
    /\ remaining' = ParentQty /\ qty_filled' = 0
    /\ step_idx' = 0 /\ done' = FALSE
    /\ next_id' = 1
    /\ pc' = "idle"
    /\ children' = {} /\ sold' = 0 /\ oversized' = FALSE
    /\ UNCHANGED <<resting, taker, event, qty, filled, shadow, resting_ids, k>>
ResetDone ==
    /\ pc = "reset"
    /\ resting_ids = <<>>
    /\ bg' = <<>> /\ bg_head' = 1
    /\ remaining' = ParentQty /\ qty_filled' = 0
    /\ step_idx' = 0 /\ done' = FALSE
    /\ next_id' = 1
    /\ pc' = "idle"
    /\ children' = {} /\ sold' = 0 /\ oversized' = FALSE
    /\ UNCHANGED <<resting, taker, event, qty, filled, shadow, resting_ids, k>>

---------------------------------------------------------------------------
(* Step: expiry and background flow.  After `done` a Step does nothing.    *)

Step ==
    /\ pc = "idle"
    /\ ~done
    /\ pc' = "expire" /\ k' = 0
    /\ UNCHANGED <<pubVars, resting_ids, bgVars, acctVars, histVars>>

Expired ==
    /\ bg_head =< Len(bg)
    /\ bg[bg_head].birth + Lifetime =< step_idx

Expire ==
    /\ pc = "expire"
    /\ Expired
    /\ Pub!Cancel(bg[bg_head].id)
    /\ bg_head' = bg_head + 1
    /\ UNCHANGED <<resting_ids, bg, acctVars, pc, k, histVars>>

ExpireDone ==
    /\ pc = "expire"
    /\ ~Expired
    /\ pc' = "flow"
    /\ UNCHANGED <<pubVars, resting_ids, bgVars, acctVars, k, histVars>>

(* The eviction guard: one victim at most, then the add goes ahead.        *)
NearlyFull == Cardinality(resting) >= Capacity - Headroom

FlowEvict ==
    /\ pc = "flow" /\ k < Burst
    /\ NearlyFull /\ resting_ids # <<>>
    /\ Pub!Cancel(Back(resting_ids))
    /\ resting_ids' = PopBack(resting_ids)
    /\ pc' = "add"
    /\ UNCHANGED <<bgVars, acctVars, k, histVars>>

FlowNoEvict ==
    /\ pc = "flow" /\ k < Burst
    /\ ~(NearlyFull /\ resting_ids # <<>>)
    /\ pc' = "add"
    /\ UNCHANGED <<pubVars, resting_ids, bgVars, acctVars, k, histVars>>

BgPriceAroundMid(side, depth) == IF side = "buy" THEN Mid - depth ELSE Mid + depth
BgPrice(side, depth) == IF side = "buy" THEN Mid - 1 - depth ELSE Mid + 1 + depth

FlowAdd ==
    /\ pc = "add"
    /\ \E side \in {"buy", "sell"}, depth \in Depths, q \in Quantities :
          Pub!AddLimit(side, BgPrice(side, depth), q)
    /\ pc' = "bgmatch"
    /\ UNCHANGED <<resting_ids, bgVars, acctVars, k, histVars>>

(* Nobody but the book sees which order a background fill consumed. *)
BgFill ==
    /\ pc = "bgmatch"
    /\ \E m \in resting : Pub!OnFill(m)
    /\ sold' = sold + (IF event'.id \in children THEN event'.qty ELSE 0)
    /\ UNCHANGED <<resting_ids, bgVars, acctVars, pc, k, children, oversized>>

BgReturns ==
    /\ pc = "bgmatch"
    /\ Pub!Ack \/ Pub!NoAck
    /\ IF event'.kind # "rejected"
       THEN /\ resting_ids' = Append(resting_ids, taker.id)
            /\ bg' = Append(bg, [id |-> taker.id, birth |-> step_idx])
       ELSE UNCHANGED <<resting_ids, bg>>
    /\ pc' = "flow" /\ k' = k + 1
    /\ UNCHANGED <<bg_head, acctVars, histVars>>

---------------------------------------------------------------------------
(* Step: the child order. *)

Terminal == step_idx + 1 >= Horizon

(* (uint64)(size_frac * (float)r).  Above FloatExact the conversion of r   *)
(* rounds to a multiple of the float spacing, upwards by at most half of   *)
(* it; the product with a fraction is no larger than the converted r.      *)
FloatExcess(r) == IF r =< FloatExact THEN 0 ELSE (r - 1) \div FloatExact
FloatSizes(r) == { q \in 0 .. r + FloatExcess(r) : q < Word }

(* std::clamp returns a NaN as it is, and the cast of a NaN is undefined:  *)
(* 2^63 from the SSE conversion, 2^64 - 1 from the AVX-512 one that        *)
(* -march=native may select, 0 on ARM.                                     *)
NaNSizes == {0, Word \div 2, Word - 1}

ChildSizes == IF Terminal THEN {remaining} ELSE FloatSizes(remaining) \cup NaNSizes

SidePrices(side) == { m.price : m \in { o \in resting : o.side = side } }
BestBid == IF SidePrices("buy") = {} THEN Mid - 1 ELSE Max(SidePrices("buy"))
BestAsk == IF SidePrices("sell") = {} THEN Mid + 1 ELSE Min(SidePrices("sell"))

(* ++step_idx_ and MaybeCloseOut. *)
AdvanceLate ==
    /\ step_idx' = step_idx + 1
    /\ done' = (done \/ remaining' = 0 \/ step_idx' > Horizon)
    /\ pc' = "idle"
Advance ==
    /\ step_idx' = step_idx + 1
    /\ done' = (done \/ remaining' = 0 \/ step_idx' >= Horizon)
    /\ pc' = "idle"

ChildNone ==
    /\ pc = "flow" /\ k = Burst
    /\ 0 \in ChildSizes
    /\ remaining' = remaining
    /\ Advance
    /\ UNCHANGED <<pubVars, resting_ids, bgVars, qty_filled, k, histVars>>

ChildAdd ==
    /\ pc = "flow" /\ k = Burst
    /\ \E q \in ChildSizes \ {0}, aggressive \in BOOLEAN :
          Pub!AddLimit("sell", IF Terminal \/ aggressive THEN BestBid ELSE BestAsk, q)
    /\ children' = children \cup {next_id}
    /\ oversized' = (oversized \/ qty' > remaining)
    /\ pc' = "child"
    /\ UNCHANGED <<resting_ids, bgVars, acctVars, k, sold>>

ChildFill ==
    /\ pc = "child"
    /\ \E m \in resting : Pub!OnFill(m)
    /\ sold' = sold + event'.qty
    /\ UNCHANGED <<resting_ids, bgVars, acctVars, pc, k, children, oversized>>

(* The accounting at the end of the step: remaining_ is unsigned, and a    *)
(* child larger than it may have been filled for more.                     *)
BookkeepUnclamped ==
    /\ qty_filled' = qty_filled + filled
    /\ remaining' = (remaining - filled) % Word
Bookkeep ==
    /\ qty_filled' = qty_filled + filled
    /\ remaining' = IF filled >= remaining THEN 0 ELSE remaining - filled

TrackNothing == resting_ids' = resting_ids
Track ==
    resting_ids' = IF event'.kind # "rejected" /\ filled < qty
                   THEN Append(resting_ids, taker.id) ELSE resting_ids

ChildReturns ==
    /\ pc = "child"
    /\ Pub!Ack \/ Pub!NoAck
    /\ Track
    /\ Bookkeep
    /\ Advance
    /\ UNCHANGED <<bgVars, k, histVars>>

---------------------------------------------------------------------------
Next ==
    \/ Reset \/ ResetCancel \/ ResetDone
    \/ Step \/ Expire \/ ExpireDone
    \/ FlowEvict \/ FlowNoEvict \/ FlowAdd \/ BgFill \/ BgReturns
    \/ ChildNone \/ ChildAdd \/ ChildFill \/ ChildReturns

Spec == Init /\ [][Next]_vars

---------------------------------------------------------------------------
(* Counters stay in range: an episode never runs past its horizon, ids     *)
(* never exceed one per order sent, what is left never exceeds the parent. *)
Orders == [id : 1 .. MaxOrders, side : {"buy", "sell"}, price : Prices, qty : Nat \ {0}]
TypeOK ==
    /\ resting \subseteq Orders
    /\ next_id \in 1 .. MaxOrders + 1
    /\ \A i \in 1 .. Len(resting_ids) : resting_ids[i] \in 1 .. MaxOrders
    /\ bg_head \in 1 .. Len(bg) + 1
    /\ remaining \in 0 .. ParentQty /\ qty_filled \in Nat
    /\ step_idx \in 0 .. Horizon /\ done \in BOOLEAN
    /\ pc \in {"idle", "reset", "expire", "flow", "add", "bgmatch", "child"}
    /\ k \in 0 .. Burst
    /\ oversized \in BOOLEAN

(* Reset restarts ids at 1, so it must leave nothing in the book: an order *)
(* that escaped resting_ids_ would share its id with a new one.            *)
EpisodeStartsEmpty == (pc = "idle" /\ step_idx = 0) => resting = {}

(* Between steps, what is left is the parent less the fills, held at zero  *)
(* and not wrapped when a NaN action or a float rounding overfilled it;    *)
(* while no child was larger than what was left, the two make up exactly   *)
(* the parent.                                                             *)
Unfilled == IF qty_filled >= ParentQty THEN 0 ELSE ParentQty - qty_filled
Conserved ==
    pc = "idle" => /\ remaining = Unfilled
                   /\ ~oversized => remaining + qty_filled = ParentQty

(* "Bounds standing book depth": no background order outlives its lifetime,*)
(* so at most Lifetime bursts rest at once, in every episode.              *)
BgResting == { m \in resting : m.id \notin children }
DepthBounded == Cardinality(BgResting) =< Lifetime * Burst

(* "background orders do not self-cross": one side of every trade is a     *)
(* child order.                                                            *)
TradesAreOurs ==
    event.kind = "fill" => (event.id \in children) # (event.counter \in children)

---------------------------------------------------------------------------
(* What makes the five above inductive.  While a call is matched there is  *)
(* a taker, and only then; ids go up, so an id names one order.            *)
Matching == pc \in {"bgmatch", "child"}
Takers == [id : 1 .. MaxOrders, side : {"buy", "sell"}, price : Prices, remaining : Nat]
OneCall ==
    /\ IF Matching THEN taker \in Takers /\ taker.id < next_id
                   ELSE taker = Pub!Book!NoTaker
    /\ event.kind = "fill" => Matching
    /\ pc \notin {"idle", "reset"} => ~done
    /\ ~done => step_idx < Horizon
    /\ pc = "add" \/ pc = "bgmatch" => k < Burst
    /\ pc = "expire" => k = 0
    /\ pc = "child" => k = Burst

NextToRest == IF Matching THEN taker.id ELSE next_id
Ascending ==
    /\ IsFiniteSet(resting)
    /\ \A m, n \in resting : m.id = n.id => m = n
    /\ \A m \in resting : m.id < NextToRest
    /\ children \subseteq 1 .. next_id - 1
    /\ pc = "bgmatch" => taker.id \notin children
    /\ pc = "child" => taker.id \in children

(* The vectors hold every order that a later cancel must find. *)
Tracked ==
    /\ resting_ids \in Seq(1 .. MaxOrders)
    /\ \A m \in resting : \E i \in 1 .. Len(resting_ids) : resting_ids[i] = m.id
    /\ bg \in Seq([id : 1 .. MaxOrders, birth : 0 .. Horizon])
    /\ \A m \in BgResting : \E i \in bg_head .. Len(bg) : bg[i].id = m.id

(* A background order stays on its side of the mid; a child is a sell.     *)
BehindMid(side, px) == IF side = "buy" THEN px < Mid ELSE px > Mid
Sided ==
    /\ \A m \in resting : m.id \notin children => BehindMid(m.side, m.price)
    /\ \A m \in resting : m.id \in children => m.side = "sell"
    /\ pc = "bgmatch" => BehindMid(taker.side, taker.price)
    /\ pc = "child" => taker.side = "sell"

(* The child in flight, unless oversized, is part of what remains, and its *)
(* fills part of it.                                                       *)
Accounted ==
    /\ remaining = Unfilled
    /\ ~oversized => remaining + qty_filled = ParentQty
    /\ Matching => /\ qty \in Nat /\ filled \in 0 .. qty
                   /\ qty - filled = taker.remaining
    /\ pc = "child" /\ ~oversized => qty =< remaining

(* Orders sent since entry i of bg: Burst for every step finished, and     *)
(* those of this step.  What is not expired is at most Lifetime old.       *)
SentThisStep == IF pc \in {"flow", "add", "bgmatch", "child"} THEN k ELSE 0
Aged ==
    /\ \A i \in 1 .. Len(bg) :
          /\ bg[i].birth =< step_idx
          /\ Len(bg) - i + 1 =< Burst * (step_idx - bg[i].birth) + SentThisStep
    /\ \A i \in 2 .. Len(bg) : bg[i - 1].birth =< bg[i].birth
    /\ bg_head =< Len(bg) =>
          step_idx - bg[bg_head].birth =<
              IF pc \in {"idle", "reset", "expire"} THEN Lifetime ELSE Lifetime - 1

Inv ==
    /\ TypeOK /\ OneCall /\ Ascending /\ Tracked /\ Sided /\ Accounted /\ Aged
    /\ EpisodeStartsEmpty /\ TradesAreOurs

---------------------------------------------------------------------------
(* The observation's first entry is "normalised inventory left": the       *)
(* parent's units not sold yet.  Said of episodes in which no child was    *)
(* larger than what was left.                                              *)
InventoryExact ==
    (pc = "idle" /\ step_idx > 0 /\ ~oversized) => remaining = ParentQty - sold
===========================================================================
