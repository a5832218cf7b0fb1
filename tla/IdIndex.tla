----------------------------- MODULE IdIndex -----------------------------
(***************************************************************************)
(* OrderBook's id index (cpp/core/order_book.hpp, InsertId and             *)
(* LookupAndEraseId): an open-addressing table with linear probing and     *)
(* back-shift deletion.  One step per probe, so the loops' termination is  *)
(* a property and not an assumption.                                       *)
(*                                                                         *)
(* The hash is arbitrary: Init picks `home`, the value of MixId(id) &      *)
(* id_mask_ for every id.  The book inserts an id only for a block it got  *)
(* from the slab, so at most MaxLive (order_capacity) entries are live.    *)
(***************************************************************************)
EXTENDS Integers, FiniteSets

CONSTANTS Size,      \* id_capacity_, a power of two
          MaxLive,   \* order_capacity; Size >= 2 * MaxLive
          Homes,     \* bound: the home slots the hash may pick
          Id,
          Ptr,
          Null

ASSUME IndexAssumption ==
    /\ Size \in Nat /\ MaxLive \in Nat
    /\ Size >= 2 * MaxLive /\ Size >= 1
    /\ Homes \subseteq 0 .. Size - 1
    /\ Null \notin Ptr
    /\ Null \notin Id

VARIABLES home,                       \* the hash function, never changes
          table,                      \* id_index_
          live,                       \* entries inserted and not erased
          pc, arg, ptr, slot,         \* the call in progress
          hole, next,                 \* LookupAndEraseId's back-shift
          ret                         \* what a lookup just returned, and for which id

vars == <<home, table, live, pc, arg, ptr, slot, hole, next, ret>>
callVars == <<arg, ptr, hole, next>>

Slots == 0 .. Size - 1
Empty == [id |-> Null, ptr |-> Null]     \* IdEntry{}
Entries == [id : Id, ptr : Ptr] \cup {Empty}

SuccUnmasked(s) == s + 1
Succ(s) == IF s = Size - 1 THEN 0 ELSE s + 1           \* (s + 1) & id_mask_
Dist(s, t) == IF s >= t THEN s - t ELSE s - t + Size   \* (s - t) & id_mask_

Occupied(s) == table[s] # Empty

Init ==
    /\ home \in [Id -> Homes]
    /\ table = [s \in Slots |-> Empty]
    /\ live = {}
    /\ pc = "idle" /\ arg = Null /\ ptr = Null /\ slot = 0
    /\ hole = 0 /\ next = 0
    /\ ret = Empty

(* Back to the caller: the call's locals are gone. *)
Return ==
    /\ pc' = "idle" /\ arg' = Null /\ ptr' = Null /\ slot' = 0
    /\ hole' = 0 /\ next' = 0

---------------------------------------------------------------------------
(* InsertId *)

CallInsert(x, p) ==
    /\ pc = "idle"
    /\ x \notin live
    /\ Cardinality(live) < MaxLive
    /\ pc' = "insert" /\ arg' = x /\ ptr' = p /\ slot' = home[x]
    /\ UNCHANGED <<home, table, live, hole, next, ret>>

InsertProbe ==
    /\ pc = "insert"
    /\ Occupied(slot)
    /\ slot' = Succ(slot)
    /\ UNCHANGED <<home, table, live, pc, callVars, ret>>

InsertWrite ==
    /\ pc = "insert"
    /\ ~Occupied(slot)
    /\ table' = [table EXCEPT ![slot] = [id |-> arg, ptr |-> ptr]]
    /\ live' = live \cup {arg}
    /\ ret' = Empty
    /\ Return
    /\ UNCHANGED home

---------------------------------------------------------------------------
(* LookupAndEraseId *)

CallErase(x) ==
    /\ pc = "idle"
    /\ pc' = "lookup" /\ arg' = x /\ slot' = home[x]
    /\ UNCHANGED <<home, table, live, ptr, hole, next, ret>>

LookupMissLastProbe ==
    Dist(slot, home[arg]) = Size - 1 /\ Occupied(slot) /\ table[slot].id # arg

LookupMiss ==
    /\ pc = "lookup"
    /\ ~Occupied(slot) \/ LookupMissLastProbe
    /\ ret' = [id |-> arg, ptr |-> Null]
    /\ Return
    /\ UNCHANGED <<home, table, live>>

LookupProbe ==
    /\ pc = "lookup"
    /\ Occupied(slot) /\ table[slot].id # arg
    /\ ~LookupMissLastProbe
    /\ slot' = Succ(slot)
    /\ UNCHANGED <<home, table, live, pc, callVars, ret>>

LookupFound ==
    /\ pc = "lookup"
    /\ table[slot].id = arg
    /\ ret' = table[slot]
    /\ live' = live \ {arg}
    /\ hole' = slot
    /\ next' = Succ(slot)
    /\ pc' = "shift"
    /\ UNCHANGED <<home, table, arg, ptr, slot>>

(* The entry at `next` may move into the hole iff its home is cyclically   *)
(* at or before the hole.                                                  *)
MovableOffHome(s) == home[table[s].id] # s
Movable(s) == Dist(s, home[table[s].id]) >= Dist(s, hole)

ShiftMove ==
    /\ pc = "shift"
    /\ Occupied(next) /\ Movable(next)
    /\ table' = [table EXCEPT ![hole] = table[next]]
    /\ hole' = next
    /\ next' = Succ(next)
    /\ UNCHANGED <<home, live, pc, arg, ptr, slot, ret>>

ShiftSkipStuck ==
    /\ pc = "shift"
    /\ Occupied(next) /\ ~Movable(next)
    /\ UNCHANGED vars
ShiftSkip ==
    /\ pc = "shift"
    /\ Occupied(next) /\ ~Movable(next)
    /\ next' = Succ(next)
    /\ UNCHANGED <<home, table, live, pc, arg, ptr, slot, hole, ret>>

(* The end of the cluster; the mutant is the version the comment above     *)
(* LookupAndEraseId describes, which stops at an entry on its home slot.   *)
ClusterEndsAtHome == Occupied(next) => home[table[next].id] = next
ClusterEnds == ~Occupied(next)
ShiftDoneKeepingHole ==
    /\ pc = "shift"
    /\ ClusterEnds
    /\ Return
    /\ UNCHANGED <<home, table, live, ret>>
ShiftDone ==
    /\ pc = "shift"
    /\ ClusterEnds
    /\ table' = [table EXCEPT ![hole] = Empty]
    /\ Return
    /\ UNCHANGED <<home, live, ret>>

---------------------------------------------------------------------------
Call == \/ \E x \in Id, p \in Ptr : CallInsert(x, p)
        \/ \E x \in Id : CallErase(x)

Step == \/ InsertProbe \/ InsertWrite
        \/ LookupMiss \/ LookupProbe \/ LookupFound
        \/ ShiftMove \/ ShiftSkip \/ ShiftDone

Next == Call \/ Step

Spec == Init /\ [][Next]_vars

(* A call, once begun, runs: it is straight-line code on one thread. *)
FairSpec == Spec /\ WF_vars(Step)

---------------------------------------------------------------------------
(* The slot cursors of InsertId and LookupAndEraseId stay inside the       *)
(* table, and every entry is an (id, pointer) pair or empty.               *)
TypeOK ==
    /\ home \in [Id -> Slots]
    /\ table \in [Slots -> Entries]
    /\ live \subseteq Id
    /\ pc \in {"idle", "insert", "lookup", "shift"}
    /\ arg \in Id \cup {Null}
    /\ ptr \in Ptr \cup {Null}
    /\ slot \in Slots
    /\ hole \in Slots
    /\ next \in Slots
    /\ ret \in [id : Id \cup {Null}, ptr : Ptr \cup {Null}]

(* The slots that hold a valid entry: during a back-shift the hole holds a *)
(* leftover.                                                               *)
Valid(s) == Occupied(s) /\ ~(pc = "shift" /\ s = hole)

(* Every live id is in exactly one slot. *)
OneSlotPerId ==
    /\ \A x \in Id : x \in live <=> \E s \in Slots : Valid(s) /\ table[s].id = x
    /\ \A s, t \in Slots :
          (Valid(s) /\ Valid(t) /\ table[s].id = table[t].id) => s = t

(* Probing from its home reaches every entry before it meets an empty slot;*)
(* during a back-shift also before it meets the hole, for the entries the  *)
(* scan has passed.                                                        *)
Before(s, t, x) == Dist(s, home[x]) < Dist(t, home[x])
NoOrphans ==
    \A t \in Slots : Valid(t) =>
        \A s \in Slots : Before(s, t, table[t].id) =>
            \/ Valid(s)
            \/ pc = "shift" /\ s = hole /\ Dist(next, hole) =< Dist(t, hole)

(* What a call knows between two probes; with it the three above are       *)
(* inductive.                                                              *)
Probed ==
    /\ pc # "idle" => arg \in Id
    /\ pc = "insert" => ptr \in Ptr /\ arg \notin live
    /\ pc \in {"insert", "lookup"} =>
          \A s \in Slots : Before(s, slot, arg) => Occupied(s)
    /\ pc = "lookup" =>
          \A s \in Slots : Before(s, slot, arg) => table[s].id # arg
    /\ pc = "shift" => Occupied(hole)
Inv == TypeOK /\ OneSlotPerId /\ NoOrphans /\ Probed

Contents == [x \in Id |->
    IF \E s \in Slots : Valid(s) /\ table[s].id = x
    THEN table[CHOOSE s \in Slots : Valid(s) /\ table[s].id = x].ptr
    ELSE Null]

Map == INSTANCE IdMap WITH map <- Contents

(* The table implements the map: a lookup finds exactly the ids inserted   *)
(* and not erased, with their blocks, whatever the hash does.              *)
ImplementsIdMap == Map!Spec

(* Every call returns. *)
CallsReturn == (pc # "idle") ~> (pc = "idle")
===========================================================================
