---------------------------- MODULE LossyQueue ----------------------------
(***************************************************************************)
(* What core::SpscRing promises its two threads, with the indices, the     *)
(* storage array and the masking gone: a bounded FIFO queue whose producer *)
(* drops the NEW value when it believes the queue is full.                 *)
(*                                                                         *)
(* Neither side sees the other's index the moment it is stored.  `credit`  *)
(* is the number of free slots the producer has learnt of, `avail` the     *)
(* number of published elements the consumer has learnt of.  Both only     *)
(* ever lag behind the truth; that they do is what makes the ring safe.    *)
(***************************************************************************)
EXTENDS Integers, Sequences

CONSTANTS Capacity,   \* kCapacity
          Word,       \* number of values of the 64-bit drop counter
          Value       \* payloads (TelemetryEvent)

VARIABLES queue,      \* published, not yet released
          credit,     \* free slots the producer knows of
          avail,      \* elements the consumer knows of
          dropped,    \* dropped_messages_
          got         \* the value most recently returned by TryPop

vars == <<queue, credit, avail, dropped, got>>

CountUp(n) == IF n = Word - 1 THEN 0 ELSE n + 1

InitWith(initial) ==
    /\ queue = <<>>
    /\ credit = Capacity
    /\ avail = 0
    /\ dropped = 0
    /\ got = initial

Init == \E v \in Value : InitWith(v)

(* The producer's acquire-load of read_idx_. *)
LearnFree ==
    /\ credit' \in credit .. (Capacity - Len(queue))
    /\ UNCHANGED <<queue, avail, dropped, got>>

(* The consumer's acquire-load of write_idx_. *)
LearnAvail ==
    /\ avail' \in avail .. Len(queue)
    /\ UNCHANGED <<queue, credit, dropped, got>>

(* TryPush returning true. *)
Push(v) ==
    /\ credit > 0
    /\ queue' = Append(queue, v)
    /\ credit' = credit - 1
    /\ UNCHANGED <<avail, dropped, got>>

(* TryPush returning false: nothing moves but the drop counter. *)
Drop ==
    /\ credit = 0
    /\ dropped' = CountUp(dropped)
    /\ UNCHANGED <<queue, credit, avail, got>>

(* TryPop returning true. *)
Pop ==
    /\ avail > 0
    /\ queue # <<>>
    /\ got' = Head(queue)
    /\ queue' = Tail(queue)
    /\ avail' = avail - 1
    /\ UNCHANGED <<credit, dropped>>

Next ==
    \/ LearnFree
    \/ LearnAvail
    \/ \E v \in Value : Push(v)
    \/ Drop
    \/ Pop

Spec == Init /\ [][Next]_vars

(* Producer and consumer never believe in more than Capacity free or       *)
(* filled slots.                                                           *)
TypeOK ==
    /\ queue \in Seq(Value)
    /\ credit \in 0 .. Capacity
    /\ avail \in 0 .. Capacity
    /\ dropped \in 0 .. Word - 1
    /\ got \in Value

(* What each side believes never runs ahead of the truth: the producer may *)
(* only push into slots that are really free, the consumer may only pop    *)
(* elements that are really there.                                         *)
BeliefsLag ==
    /\ credit + Len(queue) =< Capacity
    /\ avail =< Len(queue)
===========================================================================
