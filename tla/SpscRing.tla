----------------------------- MODULE SpscRing -----------------------------
(***************************************************************************)
(* core::SpscRing (cpp/core/spsc_ring.hpp): the lock-free single-producer  *)
(* single-consumer ring between the matching engine and the event relay.   *)
(* One step per shared-memory access of TryPush and TryPop, so every       *)
(* interleaving of the two threads is explored.                            *)
(*                                                                         *)
(* Memory order.  A thread's relaxed load of its OWN index returns its     *)
(* current value, so the locals `w` of TryPush and `r` of TryPop are       *)
(* write_idx and read_idx themselves.  An acquire-load of the OTHER index  *)
(* may return any value between the last one this thread saw (coherence)   *)
(* and the current one: `pr` and `cw` hold that view.  A release-store     *)
(* makes the slot access before it visible to whoever acquires the stored  *)
(* index; that is the order of the two steps here.                         *)
(*                                                                         *)
(* size_t arithmetic wraps at Word (2^64 in the build).                    *)
(*                                                                         *)
(* Here and in the other modules, an operator defined just before another  *)
(* and named after it with a fault (FullOffByOne before Full) is a         *)
(* deliberately wrong version, kept to show that a property tells the two  *)
(* apart.  No action uses it.                                              *)
(***************************************************************************)
EXTENDS Integers, Sequences

CONSTANTS Capacity,   \* kCapacity, a power of two
          Word,       \* number of values of size_t / uint64_t
          Value,      \* payloads
          Zero        \* T{}: what storage_ holds at construction

ASSUME RingAssumption ==
    /\ Capacity \in Nat \ {0}
    /\ Word \in Nat
    /\ Word >= 2 * Capacity
    /\ \E k \in 1 .. Word : Word = k * Capacity   \* both are powers of two
    /\ Zero \in Value

VARIABLES write_idx, read_idx, dropped_messages, storage,
          ppc, pr, pval,      \* producer: position in TryPush, r, value
          cpc, cw, cout,      \* consumer: position in TryPop, w, out
          got                 \* what the last successful TryPop returned

prodVars == <<ppc, pr, pval>>
consVars == <<cpc, cw, cout, got>>
vars == <<write_idx, read_idx, dropped_messages, storage, prodVars, consVars>>

Index == 0 .. Word - 1

(* i + d, i + 1 and w - r in size_t. *)
WrapAdd(i, d) == IF i + d < Word THEN i + d ELSE i + d - Word
WrapInc(i) == WrapAdd(i, 1)
WrapDiff(w, r) == IF w >= r THEN w - r ELSE w - r + Word

(* i & kMask. *)
Slot(i) == i % Capacity

(* The values an acquire-load of an index now at `cur` may return to a     *)
(* thread that last saw `seen`.                                            *)
Visible(seen, cur) == { WrapAdd(seen, d) : d \in 0 .. WrapDiff(cur, seen) }

Init ==
    /\ write_idx = 0
    /\ read_idx = 0
    /\ dropped_messages = 0
    /\ storage = [s \in 0 .. Capacity - 1 |-> Zero]
    /\ ppc = "idle" /\ pr = 0 /\ pval = Zero
    /\ cpc = "idle" /\ cw = 0 /\ cout = Zero /\ got = Zero

---------------------------------------------------------------------------
(* Producer: TryPush. *)

FullOffByOne(r) == WrapDiff(write_idx, r) > Capacity
FullNoWrap(r) == write_idx - r >= Capacity
Full(r) == WrapDiff(write_idx, r) >= Capacity

PushLoad(v) ==
    /\ ppc = "idle"
    /\ pval' = v
    /\ pr' \in Visible(pr, read_idx)
    /\ ppc' = IF Full(pr') THEN "full" ELSE "write"
    /\ UNCHANGED <<write_idx, read_idx, dropped_messages, storage, consVars>>

PushDropOverwriting ==
    /\ ppc = "full"
    /\ dropped_messages' = WrapInc(dropped_messages)
    /\ storage' = [storage EXCEPT ![Slot(write_idx)] = pval]
    /\ ppc' = "idle"
    /\ UNCHANGED <<write_idx, read_idx, pr, pval, consVars>>
PushDrop ==
    /\ ppc = "full"
    /\ dropped_messages' = WrapInc(dropped_messages)
    /\ ppc' = "idle"
    /\ UNCHANGED <<write_idx, read_idx, storage, pr, pval, consVars>>

PushWrite ==
    /\ ppc = "write"
    /\ storage' = [storage EXCEPT ![Slot(write_idx)] = pval]
    /\ ppc' = "publish"
    /\ UNCHANGED <<write_idx, read_idx, dropped_messages, pr, pval, consVars>>

PushPublish ==
    /\ ppc = "publish"
    /\ write_idx' = WrapInc(write_idx)
    /\ ppc' = "idle"
    /\ UNCHANGED <<read_idx, dropped_messages, storage, pr, pval, consVars>>

---------------------------------------------------------------------------
(* Consumer: TryPop. *)

PopLoadUnchecked ==
    /\ cpc = "idle"
    /\ cw' \in Visible(cw, write_idx)
    /\ cpc' = "read"
    /\ UNCHANGED <<write_idx, read_idx, dropped_messages, storage, prodVars,
                   cout, got>>
PopLoad ==
    /\ cpc = "idle"
    /\ cw' \in Visible(cw, write_idx)
    /\ cpc' = IF read_idx = cw' THEN "idle" ELSE "read"
    /\ UNCHANGED <<write_idx, read_idx, dropped_messages, storage, prodVars,
                   cout, got>>

PopRead ==
    /\ cpc = "read"
    /\ cout' = storage[Slot(read_idx)]
    /\ cpc' = "release"
    /\ UNCHANGED <<write_idx, read_idx, dropped_messages, storage, prodVars,
                   cw, got>>

PopRelease ==
    /\ cpc = "release"
    /\ read_idx' = WrapInc(read_idx)
    /\ got' = cout
    /\ cpc' = "idle"
    /\ UNCHANGED <<write_idx, dropped_messages, storage, prodVars, cw, cout>>

---------------------------------------------------------------------------
TryPush == (\E v \in Value : PushLoad(v)) \/ PushDrop \/ PushWrite \/ PushPublish
TryPop == PopLoad \/ PopRead \/ PopRelease

Next == TryPush \/ TryPop

Spec == Init /\ [][Next]_vars

---------------------------------------------------------------------------
(* Both indices and both views are size_t values, each thread is at a      *)
(* known step of TryPush or TryPop, and slots hold payloads.               *)
TypeOK ==
    /\ write_idx \in Index
    /\ read_idx \in Index
    /\ dropped_messages \in Index
    /\ storage \in [0 .. Capacity - 1 -> Value]
    /\ ppc \in {"idle", "full", "write", "publish"}
    /\ pr \in Index
    /\ pval \in Value
    /\ cpc \in {"idle", "read", "release"}
    /\ cw \in Index
    /\ cout \in Value
    /\ got \in Value

(* What the producer last saw of read_idx_, the true read_idx_, what the   *)
(* consumer last saw of write_idx_ and the true write_idx_ lie in this     *)
(* order on the circle of size_t values, within one Capacity: a stale view *)
(* can make a thread too careful, never too bold.                          *)
ViewsOrdered ==
    /\ WrapDiff(write_idx, pr) =< Capacity
    /\ WrapDiff(write_idx, pr) =
          WrapDiff(read_idx, pr) + WrapDiff(cw, read_idx) + WrapDiff(write_idx, cw)

(* The unsynchronised copies of a payload never overlap: while the         *)
(* producer fills a slot it has not yet published, the consumer is not     *)
(* copying out of that slot, nor has it one it copied and not yet released.*)
NoDataRace ==
    (ppc \in {"write", "publish"} /\ cpc \in {"read", "release"})
        => Slot(write_idx) # Slot(read_idx)

(* ViewsOrdered with what each thread knows between its steps: a producer  *)
(* past its check has seen a free slot, a consumer past its check has seen *)
(* a published one, and a value written or copied stays put until the      *)
(* index store that hands its slot over.                                   *)
Inv ==
    /\ TypeOK
    /\ ViewsOrdered
    /\ ppc = "full" => WrapDiff(write_idx, pr) = Capacity
    /\ ppc \in {"write", "publish"} => WrapDiff(write_idx, pr) < Capacity
    /\ ppc = "publish" => storage[Slot(write_idx)] = pval
    /\ cpc \in {"read", "release"} => cw # read_idx
    /\ cpc = "release" => cout = storage[Slot(read_idx)]

(* size_approx() called on the producer's thread never under-reports, on   *)
(* the consumer's thread never over-reports, and on neither does w - r     *)
(* underflow past Capacity.                                                *)
Occupancy == WrapDiff(write_idx, read_idx)
SizeApproxBounds ==
    /\ \A r \in Visible(pr, read_idx) :
          WrapDiff(write_idx, r) \in Occupancy .. Capacity
    /\ \A w \in Visible(cw, write_idx) :
          WrapDiff(w, read_idx) \in 0 .. Occupancy

(* The FIFO the two indices and the storage stand for. *)
Contents == [k \in 1 .. Occupancy |-> storage[Slot(WrapAdd(read_idx, k - 1))]]

Abstract == INSTANCE LossyQueue WITH
    queue <- Contents,
    credit <- Capacity - WrapDiff(write_idx, pr),
    avail <- WrapDiff(cw, read_idx),
    dropped <- dropped_messages

(* The ring implements the abstract queue: values come out once each, in   *)
(* the order they went in, a full ring drops the new value and touches     *)
(* nothing else, across any interleaving, any stale view and the wrap of   *)
(* the indices.                                                            *)
ImplementsLossyQueue == Abstract!Spec
===========================================================================
