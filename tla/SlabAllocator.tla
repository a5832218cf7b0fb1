-------------------------- MODULE SlabAllocator --------------------------
(***************************************************************************)
(* core::SlabAllocator (cpp/core/slab_allocator.hpp): fixed blocks whose   *)
(* free list is threaded through the blocks' own storage.  word[b] is the  *)
(* first word of block b: Node::next while b is free, the client's data    *)
(* while b is allocated (the client may store anything there, a stale      *)
(* block address included).                                                *)
(*                                                                         *)
(* `stack` is a history variable: the free blocks in the order a correct   *)
(* free list would hand them out.  No operation reads it; Next uses it for *)
(* the client's contract, to free and to write only what it holds.         *)
(***************************************************************************)
EXTENDS Integers, Sequences

CONSTANTS Capacity,    \* capacity_
          Words        \* what a first word may hold; a superset of 0 .. Capacity

VARIABLES free_head, word, in_use,
          ret,         \* what the last Allocate returned
          stack        \* history: the free blocks, next one first

vars == <<free_head, word, in_use, ret, stack>>

Blocks == 1 .. Capacity
Null == 0              \* nullptr

(* The constructor's loop leaves the highest block at the head. *)
Init ==
    /\ free_head = Capacity
    /\ word = [b \in Blocks |-> b - 1]
    /\ in_use = 0
    /\ ret = Null
    /\ stack = [i \in 1 .. Capacity |-> Capacity + 1 - i]

FreeBlocks == { stack[i] : i \in 1 .. Len(stack) }
Allocated == Blocks \ FreeBlocks

AllocateFails ==
    /\ free_head = Null
    /\ ret' = Null
    /\ UNCHANGED <<free_head, word, in_use, stack>>

Allocate ==
    /\ free_head # Null
    /\ ret' = free_head
    /\ free_head' = word[free_head]
    /\ in_use' = in_use + 1
    /\ stack' = Tail(stack)
    /\ UNCHANGED word

Deallocate(p) ==
    /\ word' = [word EXCEPT ![p] = free_head]
    /\ free_head' = p
    /\ in_use' = in_use - 1
    /\ stack' = <<p>> \o stack
    /\ UNCHANGED ret

(* The client writes its block. *)
ClientWrite(p, w) ==
    /\ word' = [word EXCEPT ![p] = w]
    /\ UNCHANGED <<free_head, in_use, ret, stack>>

Next ==
    \/ AllocateFails
    \/ Allocate
    \/ \E p \in Allocated : Deallocate(p)
    \/ \E p \in Allocated, w \in Words : ClientWrite(p, w)

Spec == Init /\ [][Next]_vars

---------------------------------------------------------------------------
(* free_head_ is a block or null and in_use_ stays within the capacity.    *)
TypeOK ==
    /\ free_head \in 0 .. Capacity
    /\ word \in [Blocks -> Words]
    /\ in_use \in 0 .. Capacity
    /\ ret \in 0 .. Capacity
    /\ stack \in Seq(Blocks)

(* Following the links from free_head visits each free block once, in LIFO *)
(* order, and ends: no write of a client into its own block, in any order  *)
(* of allocations and deallocations, breaks or shortens the chain.         *)
ChainIsStack ==
    /\ free_head = IF stack = <<>> THEN Null ELSE stack[1]
    /\ \A i \in 1 .. Len(stack) :
          word[stack[i]] = IF i = Len(stack) THEN Null ELSE stack[i + 1]
    /\ \A i, j \in 1 .. Len(stack) : stack[i] = stack[j] => i = j
===========================================================================
