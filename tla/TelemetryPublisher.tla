------------------------ MODULE TelemetryPublisher ------------------------
(***************************************************************************)
(* exec::TelemetryPublisher (cpp/exec/telemetry_publisher.hpp): wraps the  *)
(* book and turns its callbacks into sequence-numbered Fill, Ack and       *)
(* Cancel events.  The book is BookSpec, which OrderBook implements; what  *)
(* becomes of an event after seq_++ and TryPush is in EventRelay.          *)
(*                                                                         *)
(* `shadow` is a history variable: the book a reader of the event stream   *)
(* (q/schema.q, the cockpit) reconstructs by applying each event in order. *)
(***************************************************************************)
EXTENDS Integers, FiniteSets

CONSTANTS Capacity, MinPrice, MaxPrice, Prices, Quantities, MaxOrders

VARIABLES resting, taker, event, next_id,      \* the book
          qty, filled,                         \* AddLimit's argument and local
          shadow

bookVars == <<resting, taker, event, next_id>>
vars == <<bookVars, qty, filled, shadow>>

Book == INSTANCE BookSpec

Init ==
    /\ Book!Init
    /\ qty = 0 /\ filled = 0
    /\ shadow = {}

AddLimit(side, px, q) ==
    /\ Book!AddLimit(side, px, q)
    /\ qty' = q /\ filled' = 0
    /\ UNCHANGED shadow

(* A Fill event names the maker and the size: the reader takes that much   *)
(* off the maker.                                                          *)
ApplyFill(id, q) ==
    { IF o.id = id THEN [o EXCEPT !.qty = @ - q] ELSE o :
        o \in { s \in shadow : ~(s.id = id /\ s.qty = q) } }

OnFill(m) ==
    /\ Book!Fill(m)
    /\ filled' = filled + event'.qty
    /\ shadow' = ApplyFill(event'.id, event'.qty)
    /\ UNCHANGED qty

Residual == qty - filled

AckWholeOrder ==
    /\ Book!Rest
    /\ shadow' = shadow \cup {[id |-> taker.id, side |-> taker.side,
                               price |-> taker.price, qty |-> qty]}
    /\ UNCHANGED <<qty, filled>>
(* ok, and less than qty filled: one Ack with the residual. *)
Ack ==
    /\ Book!Rest
    /\ shadow' = shadow \cup {[id |-> taker.id, side |-> taker.side,
                               price |-> taker.price, qty |-> Residual]}
    /\ UNCHANGED <<qty, filled>>

(* Nothing to acknowledge: fully filled, or the residual was dropped. *)
NoAck ==
    /\ Book!Filled \/ Book!Reject
    /\ UNCHANGED <<qty, filled, shadow>>

Cancel(id) ==
    \/ /\ \E m \in resting : m.id = id /\ Book!Cancel(m)
       /\ shadow' = shadow \ {[id |-> id, side |-> event'.side,
                               price |-> event'.price, qty |-> event'.qty]}
       /\ UNCHANGED <<qty, filled>>
    \/ /\ Book!CancelUnknown(id)
       /\ UNCHANGED <<qty, filled, shadow>>

(* The rest of an AddLimit that has begun. *)
Matching == (\E m \in resting : OnFill(m)) \/ Ack \/ NoAck

(* Replaying the events reproduces the resting orders exactly, while an    *)
(* order is being matched too; the residual an Ack would carry is what the *)
(* book will rest.                                                         *)
ShadowExact ==
    /\ shadow = resting
    /\ taker # Book!NoTaker => Residual = taker.remaining
===========================================================================
