--------------------------- MODULE IdIndexProofs ---------------------------
(***************************************************************************)
(* The id index for every table size, every hash and every sequence of     *)
(* calls: no entry is ever orphaned by a back-shift deletion, and the      *)
(* table is the map the order book takes it for.                           *)
(***************************************************************************)
EXTENDS IdIndex, TLAPS

---------------------------------------------------------------------------
(* Distances on the circle of slots. *)

LEMMA SlotFacts ==
    /\ Size \in Nat /\ Size >= 1
    /\ Slots \subseteq Nat
    /\ 0 \in Slots
    /\ \A s \in Slots : s \in Int /\ 0 =< s /\ s < Size /\ Succ(s) \in Slots
    BY IndexAssumption DEF Slots, Succ

(* A distance is a slot number, zero only from a slot to itself, and tells *)
(* slots apart.                                                            *)
LEMMA DistType ==
    ASSUME NEW s \in Slots, NEW t \in Slots, NEW h \in Slots
    PROVE  /\ Dist(s, h) \in Nat /\ Dist(s, h) < Size
           /\ Dist(s, s) = 0
           /\ Dist(s, h) = 0 => s = h
           /\ Dist(s, h) = Dist(t, h) => s = t
    BY SlotFacts DEF Dist

(* If, going up from h, one meets s no later than t, distances add up.     *)
LEMMA DistAdd ==
    ASSUME NEW s \in Slots, NEW t \in Slots, NEW h \in Slots,
           Dist(s, h) =< Dist(t, h)
    PROVE  Dist(t, h) = Dist(s, h) + Dist(t, s)
    BY SlotFacts DEF Dist

(* The converse: a slot h at least as far behind t as s is meets s first.  *)
LEMMA DistBetween ==
    ASSUME NEW s \in Slots, NEW t \in Slots, NEW h \in Slots,
           Dist(t, h) >= Dist(t, s)
    PROVE  Dist(s, h) =< Dist(t, h)
    BY SlotFacts DEF Dist

LEMMA DistTriangle ==
    ASSUME NEW s \in Slots, NEW t \in Slots, NEW h \in Slots
    PROVE  Dist(t, h) =< Dist(s, h) + Dist(t, s)
    BY SlotFacts DEF Dist

(* The next slot is one further, until it is back at the start.            *)
LEMMA DistSucc ==
    ASSUME NEW s \in Slots, NEW h \in Slots
    PROVE  /\ Succ(s) \in Slots
           /\ Dist(Succ(s), h) = IF Succ(s) = h THEN 0 ELSE Dist(s, h) + 1
           /\ Dist(s, h) # Size - 1 => Dist(Succ(s), h) = Dist(s, h) + 1
           /\ Dist(s, h) = Size - 1 => Succ(s) = h
    BY SlotFacts DEF Dist, Succ

(* A slot before Succ(s) is before s or is s. *)
LEMMA BeforeSucc ==
    ASSUME NEW s \in Slots, NEW r \in Slots, NEW h \in Slots,
           Dist(r, h) < Dist(Succ(s), h)
    PROVE  Dist(r, h) < Dist(s, h) \/ r = s
<1>1. Dist(Succ(s), h) =< Dist(s, h) + 1
    BY DistSucc, DistType
<1> QED
    BY <1>1, DistType, DistSucc

---------------------------------------------------------------------------
(* An occupied slot holds an id and its block.                             *)
LEMMA EntryType ==
    ASSUME TypeOK, NEW s \in Slots
    PROVE  /\ Occupied(s) => table[s] \in [id : Id, ptr : Ptr]
           /\ Occupied(s) => table[s].id \in Id /\ table[s].ptr \in Ptr
                             /\ home[table[s].id] \in Slots
           /\ ~Occupied(s) => table[s].id = Null
           /\ table[s].id \in Id => Occupied(s)
    BY IndexAssumption DEF TypeOK, Entries, Empty, Occupied

LEMMA InitInv == Init => Inv
<1> SUFFICES ASSUME Init PROVE Inv
    OBVIOUS
<1>1. TypeOK
    BY IndexAssumption, SlotFacts DEF Init, TypeOK, Entries, Empty, Slots
<1>2. \A s \in Slots : ~Valid(s) /\ table[s] = Empty
    BY DEF Init, Valid, Occupied
<1>3. OneSlotPerId /\ NoOrphans
    BY <1>2 DEF Init, OneSlotPerId, NoOrphans
<1>4. Probed
    BY DEF Init, Probed
<1> QED
    BY <1>1, <1>3, <1>4 DEF Inv

(* Steps that leave the table alone and are no part of a back-shift keep   *)
(* what is said of the table.                                              *)
LEMMA SameTable ==
    ASSUME Inv, table' = table, home' = home, live' = live,
           pc # "shift", pc' # "shift"
    PROVE  OneSlotPerId' /\ NoOrphans' /\ \A s \in Slots : Valid(s)' <=> Valid(s)
<1>1. \A s \in Slots : Valid(s)' <=> Valid(s)
    BY DEF Valid, Occupied
<1>2. OneSlotPerId'
    BY <1>1 DEF Inv, OneSlotPerId
<1>3. NoOrphans'
    BY <1>1 DEF Inv, NoOrphans, Before
<1> QED
    BY <1>1, <1>2, <1>3

LEMMA TypeStep == TypeOK /\ Probed /\ [Next]_vars => TypeOK'
<1> SUFFICES ASSUME TypeOK, Probed, [Next]_vars PROVE TypeOK'
    OBVIOUS
<1> USE SlotFacts DEF TypeOK
<1>r. ASSUME Return PROVE /\ pc' = "idle" /\ arg' = Null /\ ptr' = Null
                          /\ slot' \in Slots /\ hole' \in Slots /\ next' \in Slots
    BY <1>r DEF Return
<1>e. Empty \in [id : Id \cup {Null}, ptr : Ptr \cup {Null}] /\ Empty \in Entries
    BY DEF Empty, Entries
<1>1. ASSUME NEW x \in Id, NEW p \in Ptr, CallInsert(x, p) PROVE TypeOK'
    BY <1>1 DEF CallInsert
<1>2. ASSUME NEW x \in Id, CallErase(x) PROVE TypeOK'
    BY <1>2 DEF CallErase
<1>3. CASE InsertProbe
    BY <1>3 DEF InsertProbe, callVars
<1>4. CASE InsertWrite
    <2>1. [id |-> arg, ptr |-> ptr] \in Entries /\ arg \in Id
        BY <1>4 DEF InsertWrite, Probed, Entries
    <2> QED
        BY <1>4, <1>r, <1>e, <2>1 DEF InsertWrite
<1>5. CASE LookupMiss
    BY <1>5, <1>r DEF LookupMiss
<1>6. CASE LookupProbe
    BY <1>6 DEF LookupProbe, callVars
<1>7. CASE LookupFound
    <2>1. table[slot] \in [id : Id \cup {Null}, ptr : Ptr \cup {Null}]
        BY <1>e DEF Entries
    <2> QED
        BY <1>7, <2>1 DEF LookupFound
<1>8. CASE ShiftMove
    BY <1>8 DEF ShiftMove
<1>9. CASE ShiftSkip
    BY <1>9 DEF ShiftSkip
<1>10. CASE ShiftDone
    BY <1>10, <1>r, <1>e DEF ShiftDone
<1>11. CASE UNCHANGED vars
    BY <1>11 DEF vars
<1> QED
    BY <1>1, <1>2, <1>3, <1>4, <1>5, <1>6, <1>7, <1>8, <1>9, <1>10, <1>11
    DEF Next, Call, Step

---------------------------------------------------------------------------
(* The steps, one by one. *)

(* CallInsert and CallErase start probing at the home slot, before which   *)
(* there is nothing.                                                       *)
LEMMA NothingBeforeHome ==
    ASSUME NEW s \in Slots, NEW h \in Slots
    PROVE  ~(Dist(s, h) < Dist(h, h))
    BY DistType

LEMMA CallStep ==
    ASSUME Inv, Call
    PROVE  OneSlotPerId' /\ NoOrphans' /\ Probed'
<1> USE DEF Inv
<1>1. ASSUME NEW x \in Id, NEW p \in Ptr, CallInsert(x, p)
      PROVE  OneSlotPerId' /\ NoOrphans' /\ Probed'
    <2>1. OneSlotPerId' /\ NoOrphans'
        BY <1>1, SameTable DEF CallInsert
    <2>2. home[x] \in Slots
        BY DEF TypeOK
    <2>3. Probed'
        BY <1>1, <2>2, NothingBeforeHome DEF CallInsert, Probed, Before
    <2> QED
        BY <2>1, <2>3
<1>2. ASSUME NEW x \in Id, CallErase(x)
      PROVE  OneSlotPerId' /\ NoOrphans' /\ Probed'
    <2>1. OneSlotPerId' /\ NoOrphans'
        BY <1>2, SameTable DEF CallErase
    <2>2. home[x] \in Slots
        BY DEF TypeOK
    <2>3. Probed'
        BY <1>2, <2>2, NothingBeforeHome DEF CallErase, Probed, Before
    <2> QED
        BY <2>1, <2>3
<1> QED
    BY <1>1, <1>2 DEF Call

LEMMA InsertProbeStep ==
    ASSUME Inv, InsertProbe
    PROVE  OneSlotPerId' /\ NoOrphans' /\ Probed'
<1> USE DEF Inv
<1>1. OneSlotPerId' /\ NoOrphans'
    BY SameTable DEF InsertProbe
<1>2. arg \in Id /\ home[arg] \in Slots /\ slot \in Slots
    BY DEF TypeOK, Probed, InsertProbe
<1>3. \A s \in Slots : Before(s, Succ(slot), arg) => Occupied(s)
    BY <1>2, BeforeSucc DEF Before, Probed, InsertProbe
<1>4. Probed'
    BY <1>3 DEF Before, Probed, InsertProbe, Occupied, callVars
<1> QED
    BY <1>1, <1>4

LEMMA LookupProbeStep ==
    ASSUME Inv, LookupProbe
    PROVE  OneSlotPerId' /\ NoOrphans' /\ Probed'
<1> USE DEF Inv
<1>1. OneSlotPerId' /\ NoOrphans'
    BY SameTable DEF LookupProbe
<1>2. arg \in Id /\ home[arg] \in Slots /\ slot \in Slots
    BY DEF TypeOK, Probed, LookupProbe
<1>3. \A s \in Slots : Before(s, Succ(slot), arg) => Occupied(s) /\ table[s].id # arg
    BY <1>2, BeforeSucc DEF Before, Probed, LookupProbe
<1>4. Probed'
    BY <1>3 DEF Before, Probed, LookupProbe, Occupied, callVars
<1> QED
    BY <1>1, <1>4

LEMMA LookupMissStep ==
    ASSUME Inv, LookupMiss
    PROVE  OneSlotPerId' /\ NoOrphans' /\ Probed'
<1>1. OneSlotPerId' /\ NoOrphans'
    BY SameTable DEF LookupMiss, Return
<1>2. Probed'
    BY DEF Probed, LookupMiss, Return
<1> QED
    BY <1>1, <1>2

(* InsertWrite: the probe stopped at the first free slot at or after the   *)
(* home slot, and the id was nowhere in the table.                         *)
LEMMA InsertWriteStep ==
    ASSUME Inv, InsertWrite
    PROVE  OneSlotPerId' /\ NoOrphans' /\ Probed'
<1> USE DEF Inv
<1>1. /\ arg \in Id /\ ptr \in Ptr /\ arg \notin live
      /\ home[arg] \in Slots /\ slot \in Slots
    BY DEF TypeOK, Probed, InsertWrite
<1>2. /\ table'[slot] = [id |-> arg, ptr |-> ptr]
      /\ \A s \in Slots : s # slot => table'[s] = table[s]
    BY <1>1 DEF TypeOK, InsertWrite
<1>3. ~Valid(slot) /\ \A s \in Slots : Valid(s)' <=> (s = slot \/ Valid(s))
    <2>1. [id |-> arg, ptr |-> ptr] # Empty
        BY <1>1, IndexAssumption DEF Empty
    <2> QED
        BY <1>1, <1>2, <2>1 DEF Valid, Occupied, InsertWrite, Return
<1>4. OneSlotPerId'
    <2>1. \A x \in Id : x \in live' <=> \E s \in Slots : Valid(s)' /\ table'[s].id = x
        <3> SUFFICES ASSUME NEW x \in Id
                     PROVE  x \in live' <=> \E s \in Slots : Valid(s)' /\ table'[s].id = x
            OBVIOUS
        <3>1. x \in live' <=> x = arg \/ \E s \in Slots : Valid(s) /\ table[s].id = x
            BY DEF OneSlotPerId, InsertWrite
        <3>2. (\E s \in Slots : Valid(s)' /\ table'[s].id = x)
              <=> x = arg \/ \E s \in Slots : Valid(s) /\ table[s].id = x
            BY <1>1, <1>2, <1>3
        <3> QED
            BY <3>1, <3>2
    <2>2. ASSUME NEW s \in Slots, NEW t \in Slots,
                 Valid(s)', Valid(t)', table'[s].id = table'[t].id
          PROVE  s = t
        <3>1. \A r \in Slots : Valid(r) => table[r].id # arg
            BY <1>1 DEF OneSlotPerId
        <3> QED
            BY <1>2, <1>3, <2>2, <3>1 DEF OneSlotPerId
    <2> QED
        BY <2>1, <2>2 DEF OneSlotPerId
<1>5. NoOrphans'
    <2> SUFFICES ASSUME NEW t \in Slots, Valid(t)', NEW s \in Slots,
                        Before(s, t, table'[t].id)
                 PROVE  Valid(s)'
        BY DEF NoOrphans, Before, InsertWrite
    <2>1. CASE t = slot
        BY <1>1, <1>2, <1>3, <2>1 DEF Probed, InsertWrite, Valid
    <2>2. CASE t # slot
        BY <1>2, <1>3, <2>2 DEF NoOrphans, InsertWrite
    <2> QED
        BY <2>1, <2>2
<1>6. Probed'
    BY DEF Probed, InsertWrite, Return
<1> QED
    BY <1>4, <1>5, <1>6

(* LookupFound: the slot found becomes the hole; nothing is passed yet.    *)
LEMMA LookupFoundStep ==
    ASSUME Inv, LookupFound
    PROVE  OneSlotPerId' /\ NoOrphans' /\ Probed'
<1> USE DEF Inv
<1>1. arg \in Id /\ home[arg] \in Slots /\ slot \in Slots
    BY DEF TypeOK, Probed, LookupFound
<1>2. Occupied(slot) /\ table[slot].id = arg /\ Valid(slot)
    BY <1>1, EntryType DEF LookupFound, Valid
<1>3. \A s \in Slots : Valid(s)' <=> (s # slot /\ Valid(s))
    BY DEF Valid, Occupied, LookupFound
<1>4. OneSlotPerId'
    <2>1. \A s \in Slots : Valid(s) /\ table[s].id = arg => s = slot
        BY <1>1, <1>2 DEF OneSlotPerId
    <2>2. \A x \in Id : x \in live' <=> \E s \in Slots : Valid(s)' /\ table'[s].id = x
        BY <1>1, <1>2, <1>3, <2>1 DEF OneSlotPerId, LookupFound
    <2>3. \A s, t \in Slots :
              Valid(s)' /\ Valid(t)' /\ table'[s].id = table'[t].id => s = t
        BY <1>3 DEF OneSlotPerId, LookupFound
    <2> QED
        BY <2>2, <2>3 DEF OneSlotPerId
<1>5. NoOrphans'
    <2> SUFFICES ASSUME NEW t \in Slots, Valid(t)', NEW s \in Slots,
                        Before(s, t, table[t].id)
                 PROVE  Valid(s)' \/ (s = slot /\ Dist(Succ(slot), slot) =< Dist(t, slot))
        BY DEF NoOrphans, Before, LookupFound
    <2>1. t # slot /\ Valid(t)
        BY <1>3
    <2>2. Valid(s)
        BY <2>1 DEF NoOrphans, LookupFound
    <2>3. Dist(Succ(slot), slot) =< 1 /\ Dist(t, slot) >= 1
        BY <1>1, <2>1, DistType, DistSucc
    <2>4. Dist(Succ(slot), slot) \in Nat /\ Dist(t, slot) \in Nat
        BY <1>1, DistType, DistSucc
    <2> QED
        BY <1>3, <2>2, <2>3, <2>4
<1>6. Probed'
    BY <1>1, <1>2 DEF Probed, LookupFound, Occupied
<1> QED
    BY <1>4, <1>5, <1>6

(* ShiftSkip: an entry that may not move has its home after the hole, so   *)
(* the hole is not on its probe path.                                      *)
LEMMA ShiftSkipStep ==
    ASSUME Inv, ShiftSkip
    PROVE  OneSlotPerId' /\ NoOrphans' /\ Probed'
<1> USE DEF Inv
<1> DEFINE h == home[table[next].id]
<1>1. next \in Slots /\ hole \in Slots /\ h \in Slots
    BY EntryType DEF TypeOK, ShiftSkip
<1>2. Dist(next, h) < Dist(next, hole)
    BY <1>1, DistType DEF ShiftSkip, Movable
<1>3. \A s \in Slots : Valid(s)' <=> Valid(s)
    BY DEF Valid, Occupied, ShiftSkip
<1>4. OneSlotPerId'
    BY <1>3 DEF OneSlotPerId, ShiftSkip
<1>5. NoOrphans'
    <2> SUFFICES ASSUME NEW t \in Slots, Valid(t), NEW s \in Slots,
                        Before(s, t, table[t].id), ~Valid(s)
                 PROVE  s = hole /\ Dist(Succ(next), hole) =< Dist(t, hole)
        BY <1>3 DEF NoOrphans, Before, ShiftSkip
    <2>1. s = hole /\ Dist(next, hole) =< Dist(t, hole)
        BY DEF NoOrphans
    <2>2. t # next
        <3> SUFFICES ASSUME t = next PROVE FALSE
            OBVIOUS
        <3>1. Dist(hole, h) < Dist(next, h)
            BY <2>1 DEF Before
        <3>2. Dist(next, h) = Dist(hole, h) + Dist(next, hole)
            BY <1>1, <3>1, DistAdd, DistType
        <3> QED
            BY <1>1, <1>2, <3>2, DistType
    <2>3. Dist(next, hole) # Dist(t, hole)
        BY <1>1, <2>2, DistType
    <2>4. Dist(next, hole) \in Nat /\ Dist(t, hole) \in Nat
        BY <1>1, DistType
    <2>5. Dist(Succ(next), hole) = 0 \/ Dist(Succ(next), hole) = Dist(next, hole) + 1
        BY <1>1, DistSucc
    <2> QED
        BY <2>1, <2>3, <2>4, <2>5
<1>6. Probed'
    BY DEF Probed, ShiftSkip, Occupied
<1> QED
    BY <1>4, <1>5, <1>6

(* ShiftMove: the entry moves closer to its home, along its own probe      *)
(* path; the hole it leaves has nothing behind it that was passed.         *)
LEMMA ShiftMoveStep ==
    ASSUME Inv, ShiftMove
    PROVE  OneSlotPerId' /\ NoOrphans' /\ Probed'
<1> USE DEF Inv
<1> DEFINE e == table[next].id
           h == home[e]
<1>1. next \in Slots /\ hole \in Slots /\ e \in Id /\ h \in Slots
    BY EntryType DEF TypeOK, ShiftMove
<1>2. /\ table'[hole] = table[next]
      /\ \A s \in Slots : s # hole => table'[s] = table[s]
    BY <1>1 DEF TypeOK, ShiftMove
<1>3. \A s \in Slots : Valid(s)' <=> (s # next /\ (s = hole \/ Valid(s)))
    BY <1>1, <1>2 DEF Valid, Occupied, ShiftMove
<1>4. \A t \in Slots : t # next => Dist(Succ(next), next) =< Dist(t, next)
    <2> TAKE t \in Slots
    <2> HAVE t # next
    <2>1. Dist(t, next) \in Nat /\ Dist(t, next) # 0
        BY <1>1, DistType
    <2>2. Dist(Succ(next), next) = 0 \/ Dist(Succ(next), next) = 1
        BY <1>1, DistSucc, DistType
    <2> QED
        BY <2>1, <2>2
<1>5. next # hole => Valid(next)
    BY DEF Valid, ShiftMove
<1>6. OneSlotPerId'
    <2>1. ASSUME NEW x \in Id
          PROVE  (\E s \in Slots : Valid(s)' /\ table'[s].id = x)
                 <=> \E s \in Slots : Valid(s) /\ table[s].id = x
        <3>1. CASE next = hole
            BY <1>2, <1>3, <3>1 DEF Valid, ShiftMove
        <3>2. CASE next # hole
            <4>1. ASSUME NEW s \in Slots, Valid(s)', table'[s].id = x
                  PROVE  \E r \in Slots : Valid(r) /\ table[r].id = x
                BY <1>1, <1>2, <1>3, <1>5, <3>2, <4>1
            <4>2. ASSUME NEW s \in Slots, Valid(s), table[s].id = x
                  PROVE  \E r \in Slots : Valid(r)' /\ table'[r].id = x
                <5>1. CASE s = next
                    BY <1>1, <1>2, <1>3, <3>2, <4>2, <5>1
                <5>2. CASE s # next
                    <6>1. s # hole
                        BY <4>2 DEF Valid, ShiftMove
                    <6> QED
                        BY <1>2, <1>3, <4>2, <5>2, <6>1
                <5> QED
                    BY <5>1, <5>2
            <4> QED
                BY <4>1, <4>2
        <3> QED
            BY <3>1, <3>2
    <2>2. ASSUME NEW s \in Slots, NEW t \in Slots,
                 Valid(s)', Valid(t)', table'[s].id = table'[t].id
          PROVE  s = t
        <3>1. CASE next = hole
            BY <1>2, <1>3, <2>2, <3>1 DEF OneSlotPerId
        <3>2. CASE next # hole
            BY <1>1, <1>2, <1>3, <1>5, <2>2, <3>2 DEF OneSlotPerId
        <3> QED
            BY <3>1, <3>2
    <2>3. live' = live
        BY DEF ShiftMove
    <2> QED
        BY <2>1, <2>2, <2>3 DEF OneSlotPerId
<1>7. NoOrphans'
    <2> SUFFICES ASSUME NEW t \in Slots, Valid(t)', NEW s \in Slots,
                        Before(s, t, table'[t].id), s # next
                 PROVE  s = hole \/ Valid(s)
        BY <1>3, <1>4 DEF NoOrphans, Before, ShiftMove
    <2>1. CASE t # hole
        BY <1>2, <1>3, <2>1 DEF NoOrphans
    <2>2. CASE t = hole
        <3>1. next # hole
            BY <1>3, <2>2
        <3>2. Dist(hole, h) =< Dist(next, h)
            BY <1>1, DistBetween DEF ShiftMove, Movable
        <3>3. Dist(s, h) < Dist(hole, h)
            BY <1>2, <2>2 DEF Before
        <3>4. Dist(s, h) < Dist(next, h)
            BY <1>1, <3>2, <3>3, DistType
        <3> QED
            BY <1>1, <1>5, <3>1, <3>4 DEF NoOrphans, Before
    <2> QED
        BY <2>1, <2>2
<1>8. Probed'
    <2>1. table'[next] = table[next]
        BY <1>1, <1>2
    <2> QED
        BY <2>1 DEF Probed, ShiftMove, Occupied
<1> QED
    BY <1>6, <1>7, <1>8

(* ShiftDone: the scan met an empty slot, so no entry beyond it probes     *)
(* through the hole.                                                       *)
LEMMA ShiftDoneStep ==
    ASSUME Inv, ShiftDone
    PROVE  OneSlotPerId' /\ NoOrphans' /\ Probed'
<1> USE DEF Inv
<1>1. next \in Slots /\ hole \in Slots /\ ~Occupied(next) /\ Occupied(hole)
    BY DEF TypeOK, ShiftDone, ClusterEnds, Probed
<1>2. /\ table'[hole] = Empty
      /\ \A s \in Slots : s # hole => table'[s] = table[s]
    BY <1>1 DEF TypeOK, ShiftDone
<1>3. \A s \in Slots : Valid(s)' <=> Valid(s)
    BY <1>1, <1>2 DEF Valid, Occupied, ShiftDone, Return
<1>4. \A s \in Slots : Valid(s) => table'[s] = table[s]
    BY <1>2 DEF Valid, ShiftDone
<1>5. OneSlotPerId'
    BY <1>3, <1>4 DEF OneSlotPerId, ShiftDone
<1>6. NoOrphans'
    <2> SUFFICES ASSUME NEW t \in Slots, Valid(t), NEW s \in Slots,
                        Before(s, t, table[t].id), ~Valid(s)
                 PROVE  FALSE
        BY <1>3, <1>4 DEF NoOrphans, Before, ShiftDone
    <2> DEFINE h == home[table[t].id]
    <2>1. s = hole /\ Dist(next, hole) =< Dist(t, hole)
        BY DEF NoOrphans
    <2>2. h \in Slots /\ t # next
        BY <1>1, EntryType DEF Valid
    <2>3. Dist(t, h) = Dist(hole, h) + Dist(t, hole)
        <3>1. Dist(hole, h) < Dist(t, h)
            BY <2>1 DEF Before
        <3> QED
            BY <1>1, <2>2, <3>1, DistAdd, DistType
    <2>4. Dist(t, hole) = Dist(next, hole) + Dist(t, next)
        BY <1>1, <2>1, DistAdd
    <2>5. Dist(next, h) =< Dist(hole, h) + Dist(next, hole)
        BY <1>1, <2>2, DistTriangle
    <2>6. Dist(t, next) # 0 /\ Dist(t, next) \in Nat
        BY <1>1, <2>2, DistType
    <2>7. Dist(next, h) < Dist(t, h)
        <3>1. /\ Dist(next, h) \in Nat /\ Dist(t, h) \in Nat /\ Dist(hole, h) \in Nat
              /\ Dist(t, hole) \in Nat /\ Dist(next, hole) \in Nat
            BY <1>1, <2>2, DistType
        <3> HIDE DEF h
        <3> QED
            BY <2>3, <2>4, <2>5, <2>6, <3>1
    <2>8. Valid(next) \/ next = hole
        BY <1>1, <2>7 DEF NoOrphans, Before
    <2> QED
        BY <1>1, <2>8 DEF Valid
<1>7. Probed'
    BY DEF Probed, ShiftDone, Return
<1> QED
    BY <1>5, <1>6, <1>7

LEMMA NextInv == Inv /\ [Next]_vars => Inv'
<1> SUFFICES ASSUME Inv, [Next]_vars PROVE Inv'
    OBVIOUS
<1>1. TypeOK'
    BY TypeStep DEF Inv
<1>2. CASE Call
    BY <1>1, <1>2, CallStep DEF Inv
<1>3. CASE Step
    BY <1>1, <1>3, InsertProbeStep, InsertWriteStep, LookupMissStep, LookupProbeStep,
       LookupFoundStep, ShiftMoveStep, ShiftSkipStep, ShiftDoneStep
    DEF Inv, Step
<1>4. CASE UNCHANGED vars
    BY <1>4 DEF vars, Inv, TypeOK, OneSlotPerId, NoOrphans, Probed, Valid, Occupied, Before
<1> QED
    BY <1>2, <1>3, <1>4 DEF Next

(* Every state of the table satisfies the inductive invariant, under every *)
(* hash.                                                                   *)
THEOREM Invariance == Spec => []Inv
    BY InitInv, NextInv, PTL DEF Spec

(* The cursors of InsertId and LookupAndEraseId never leave the table. *)
THEOREM TypeCorrect == Spec => []TypeOK
<1>1. Inv => TypeOK
    BY DEF Inv
<1> QED
    BY <1>1, Invariance, PTL

(* Whatever the hash, the live ids and the valid entries of id_index_ are  *)
(* in one-to-one correspondence, in the middle of a back-shift too.        *)
THEOREM OneSlotPerIdHolds == Spec => []OneSlotPerId
<1>1. Inv => OneSlotPerId
    BY DEF Inv
<1> QED
    BY <1>1, Invariance, PTL

(* LookupAndEraseId's back-shift never leaves an empty slot between an     *)
(* entry and its home: no resting order becomes impossible to cancel.      *)
THEOREM NoOrphansHolds == Spec => []NoOrphans
<1>1. Inv => NoOrphans
    BY DEF Inv
<1> QED
    BY <1>1, Invariance, PTL

---------------------------------------------------------------------------
(* Refinement of IdMap. *)

(* What the table says of an id: its one entry's block, or nothing.        *)
ReadBack ==
    \A x \in Id :
        /\ \A s \in Slots : Valid(s) /\ table[s].id = x => Contents[x] = table[s].ptr
        /\ x \notin live => Contents[x] = Null

LEMMA ContentsReadBack == Inv => ReadBack
<1> SUFFICES ASSUME Inv, NEW x \in Id
             PROVE  /\ \A s \in Slots :
                           Valid(s) /\ table[s].id = x => Contents[x] = table[s].ptr
                    /\ x \notin live => Contents[x] = Null
    BY DEF ReadBack
<1>1. ASSUME NEW s \in Slots, Valid(s), table[s].id = x
      PROVE  Contents[x] = table[s].ptr
    <2> DEFINE c == CHOOSE r \in Slots : Valid(r) /\ table[r].id = x
    <2>1. c \in Slots /\ Valid(c) /\ table[c].id = x
        BY <1>1
    <2>2. c = s
        BY <1>1, <2>1 DEF Inv, OneSlotPerId
    <2>3. Contents[x] = table[c].ptr
        BY <1>1 DEF Contents
    <2> QED
        BY <2>2, <2>3
<1>2. x \notin live => Contents[x] = Null
    BY DEF Inv, OneSlotPerId, Contents
<1> QED
    BY <1>1, <1>2

LEMMA ContentsReadBackNext == Inv' => ReadBack'
    BY ContentsReadBack, PTL

(* An id whose entry stays, or moves to another slot, keeps its block.     *)
LEMMA EntryKept ==
    ASSUME Inv, Inv', NEW x \in Id, x \in live,
           \A s \in Slots : Valid(s) /\ table[s].id = x =>
               \E r \in Slots : Valid(r)' /\ table'[r] = table[s]
    PROVE  Contents'[x] = Contents[x]
<1>1. PICK s \in Slots : Valid(s) /\ table[s].id = x
    BY DEF Inv, OneSlotPerId
<1>2. PICK r \in Slots : Valid(r)' /\ table'[r] = table[s]
    BY <1>1
<1>3. Contents[x] = table[s].ptr
    BY <1>1, ContentsReadBack DEF ReadBack
<1>4. Contents'[x] = table'[r].ptr
    BY <1>1, <1>2, ContentsReadBackNext DEF ReadBack
<1> QED
    BY <1>2, <1>3, <1>4

(* Two tables that say the same of every id stand for the same map.        *)
LEMMA SameMap ==
    ASSUME NEW m, m \in [Id -> Ptr \cup {Null}],
           \A x \in Id : Contents'[x] = m[x]
    PROVE  Contents' = m
<1>1. Contents' = [x \in Id |-> Contents'[x]]
    BY DEF Contents
<1>2. [x \in Id |-> Contents'[x]] = [x \in Id |-> m[x]]
    OBVIOUS
<1> QED
    BY <1>1, <1>2

LEMMA ContentsType == Inv => Contents \in [Id -> Ptr \cup {Null}]
<1> SUFFICES ASSUME Inv, NEW x \in Id PROVE Contents[x] \in Ptr \cup {Null}
    BY DEF Contents
<1>1. CASE x \in live
    <2>1. PICK s \in Slots : Valid(s) /\ table[s].id = x
        BY <1>1 DEF Inv, OneSlotPerId
    <2> QED
        BY <2>1, ContentsReadBack, EntryType DEF ReadBack, Inv, Valid
<1>2. CASE x \notin live
    BY <1>2, ContentsReadBack DEF ReadBack
<1> QED
    BY <1>1, <1>2

(* A lookup that ends without finding its id was right to: the id is not   *)
(* live.                                                                   *)
LEMMA MissIsRight ==
    ASSUME Inv, LookupMiss
    PROVE  arg \in Id /\ arg \notin live
<1> USE DEF Inv
<1>1. arg \in Id /\ slot \in Slots /\ home[arg] \in Slots /\ pc = "lookup"
    BY DEF TypeOK, Probed, LookupMiss
<1> SUFFICES ASSUME NEW t \in Slots, Valid(t), table[t].id = arg PROVE FALSE
    BY <1>1 DEF OneSlotPerId
<1>2. ~Before(t, slot, arg)
    BY <1>1 DEF Probed
<1>3. t # slot
    BY DEF LookupMiss, LookupMissLastProbe, Valid
<1>4. Before(slot, t, arg)
    BY <1>1, <1>2, <1>3, DistType DEF Before
<1>5. CASE ~Occupied(slot)
    BY <1>1, <1>4, <1>5 DEF NoOrphans, Valid
<1>6. CASE LookupMissLastProbe
    <2>1. Dist(slot, home[arg]) = Size - 1
        BY <1>6 DEF LookupMissLastProbe
    <2>2. Dist(t, home[arg]) \in Nat /\ Dist(t, home[arg]) < Size
        BY <1>1, DistType
    <2>3. Dist(slot, home[arg]) < Dist(t, home[arg])
        BY <1>4 DEF Before
    <2> QED
        BY <2>1, <2>2, <2>3, SlotFacts
<1> QED
    BY <1>5, <1>6 DEF LookupMiss

LEMMA RefinementStep == Inv /\ Inv' /\ [Next]_vars => [Map!Next]_(Map!vars)
<1> SUFFICES ASSUME Inv, Inv', [Next]_vars PROVE [Map!Next]_(Map!vars)
    OBVIOUS
<1> USE DEF Inv
<1>t. Contents \in [Id -> Ptr \cup {Null}]
    BY ContentsType
<1>s. ASSUME live' = live, ret' = ret,
             \A s \in Slots : Valid(s) => \E r \in Slots : Valid(r)' /\ table'[r] = table[s]
      PROVE  UNCHANGED Map!vars
    <2>1. \A x \in Id : Contents'[x] = Contents[x]
        <3> TAKE x \in Id
        <3>1. CASE x \in live
            BY <1>s, <3>1, EntryKept
        <3>2. CASE x \notin live
            BY <1>s, <3>2, ContentsReadBack, ContentsReadBackNext DEF ReadBack
        <3> QED
            BY <3>1, <3>2
    <2>2. Contents' = Contents
        BY <1>t, <2>1, SameMap
    <2> QED
        BY <1>s, <2>2 DEF Map!vars
<1>1. ASSUME NEW x \in Id, NEW p \in Ptr, CallInsert(x, p) PROVE UNCHANGED Map!vars
    BY <1>1, <1>s DEF CallInsert, Valid, Occupied
<1>2. ASSUME NEW x \in Id, CallErase(x) PROVE UNCHANGED Map!vars
    BY <1>2, <1>s DEF CallErase, Valid, Occupied
<1>3. CASE InsertProbe
    BY <1>3, <1>s DEF InsertProbe, Valid, Occupied
<1>4. CASE LookupProbe
    BY <1>4, <1>s DEF LookupProbe, Valid, Occupied
<1>5. CASE ShiftSkip
    BY <1>5, <1>s DEF ShiftSkip, Valid, Occupied
<1>6. CASE ShiftDone
    <2>1. ASSUME NEW s \in Slots, Valid(s) PROVE Valid(s)' /\ table'[s] = table[s]
        BY <1>6, <2>1 DEF ShiftDone, Return, Valid, Occupied, TypeOK
    <2> QED
        BY <1>6, <1>s, <2>1 DEF ShiftDone
<1>7. CASE ShiftMove
    <2>1. next \in Slots /\ hole \in Slots
        BY DEF TypeOK
    <2>2. ASSUME NEW s \in Slots, Valid(s)
          PROVE  \E r \in Slots : Valid(r)' /\ table'[r] = table[s]
        <3>1. s # hole /\ table'[s] = table[s] /\ table'[hole] = table[next]
            BY <1>7, <2>1, <2>2 DEF ShiftMove, Valid, TypeOK
        <3>2. CASE s = next
            BY <1>7, <2>1, <2>2, <3>1, <3>2 DEF ShiftMove, Valid, Occupied
        <3>3. CASE s # next
            BY <1>7, <2>2, <3>1, <3>3 DEF ShiftMove, Valid, Occupied
        <3> QED
            BY <3>2, <3>3
    <2> QED
        BY <1>7, <1>s, <2>2 DEF ShiftMove
<1>8. CASE InsertWrite
    <2>1. arg \in Id /\ ptr \in Ptr /\ arg \notin live /\ slot \in Slots
        BY <1>8 DEF TypeOK, Probed, InsertWrite
    <2>2. Contents[arg] = Null
        BY <2>1, ContentsReadBack DEF ReadBack
    <2>3. /\ table'[slot] = [id |-> arg, ptr |-> ptr]
          /\ \A s \in Slots : Valid(s) => table'[s] = table[s]
        BY <1>8, <2>1 DEF TypeOK, InsertWrite, Valid
    <2>4. \A s \in Slots : (s = slot \/ Valid(s)) => Valid(s)'
        <3>1. [id |-> arg, ptr |-> ptr] # Empty
            BY <2>1, IndexAssumption DEF Empty
        <3> QED
            BY <1>8, <2>3, <3>1 DEF InsertWrite, Return, Valid, Occupied
    <2>5. Contents'[arg] = ptr
        BY <2>1, <2>3, <2>4, ContentsReadBackNext DEF ReadBack
    <2>6. ASSUME NEW x \in Id, x # arg PROVE Contents'[x] = Contents[x]
        <3>1. CASE x \in live
            BY <2>3, <2>4, <3>1, EntryKept
        <3>2. CASE x \notin live
            BY <1>8, <2>6, <3>2, ContentsReadBack, ContentsReadBackNext
            DEF ReadBack, InsertWrite
        <3> QED
            BY <3>1, <3>2
    <2>7. Contents' = [Contents EXCEPT ![arg] = ptr]
        <3>1. [Contents EXCEPT ![arg] = ptr] \in [Id -> Ptr \cup {Null}]
            BY <1>t, <2>1
        <3>2. \A x \in Id : Contents'[x] = [Contents EXCEPT ![arg] = ptr][x]
            BY <1>t, <2>5, <2>6
        <3> QED
            BY <3>1, <3>2, SameMap
    <2>8. Map!InsertId(arg, ptr)
        BY <1>8, <2>2, <2>7 DEF Map!InsertId, Map!NoAnswer, InsertWrite, Empty
    <2> QED
        BY <2>1, <2>8 DEF Map!Next
<1>9. CASE LookupMiss
    <2>1. arg \in Id /\ arg \notin live
        BY <1>9, MissIsRight
    <2>2. Contents[arg] = Null
        BY <2>1, ContentsReadBack DEF ReadBack
    <2>3. \A x \in Id : Contents'[x] = Contents[x]
        <3> TAKE x \in Id
        <3>1. CASE x \in live
            BY <1>9, <3>1, EntryKept DEF LookupMiss, Return, Valid, Occupied
        <3>2. CASE x \notin live
            BY <1>9, <3>2, ContentsReadBack, ContentsReadBackNext DEF ReadBack, LookupMiss
        <3> QED
            BY <3>1, <3>2
    <2>4. Contents' = Contents
        BY <1>t, <2>3, SameMap
    <2>5. Contents' = [Contents EXCEPT ![arg] = Null]
        BY <1>t, <2>2, <2>4
    <2>6. Map!LookupAndEraseId(arg)
        BY <1>9, <2>2, <2>5 DEF Map!LookupAndEraseId, LookupMiss
    <2> QED
        BY <2>1, <2>6 DEF Map!Next
<1>10. CASE LookupFound
    <2>1. arg \in Id /\ slot \in Slots
        BY <1>10 DEF TypeOK, Probed, LookupFound
    <2>2. Valid(slot) /\ table[slot].id = arg /\ Occupied(slot)
        BY <1>10, <2>1, EntryType DEF LookupFound, Valid
    <2>3. Contents[arg] = table[slot].ptr
        BY <2>1, <2>2, ContentsReadBack DEF ReadBack
    <2>4. table[slot] = [id |-> arg, ptr |-> Contents[arg]]
        BY <2>1, <2>2, <2>3, EntryType
    <2>5. Contents'[arg] = Null
        BY <1>10, <2>1, ContentsReadBackNext DEF ReadBack, LookupFound
    <2>6. ASSUME NEW x \in Id, x # arg PROVE Contents'[x] = Contents[x]
        <3>1. CASE x \in live
            <4>1. ASSUME NEW s \in Slots, Valid(s), table[s].id = x
                  PROVE  Valid(s)' /\ table'[s] = table[s]
                BY <1>10, <2>2, <2>6, <4>1 DEF LookupFound, Valid, Occupied
            <4> QED
                BY <3>1, <4>1, EntryKept
        <3>2. CASE x \notin live
            BY <1>10, <2>6, <3>2, ContentsReadBack, ContentsReadBackNext
            DEF ReadBack, LookupFound
        <3> QED
            BY <3>1, <3>2
    <2>7. Contents' = [Contents EXCEPT ![arg] = Null]
        <3>1. [Contents EXCEPT ![arg] = Null] \in [Id -> Ptr \cup {Null}]
            BY <1>t, <2>1
        <3>2. \A x \in Id : Contents'[x] = [Contents EXCEPT ![arg] = Null][x]
            BY <1>t, <2>5, <2>6
        <3> QED
            BY <3>1, <3>2, SameMap
    <2>8. Map!LookupAndEraseId(arg)
        BY <1>10, <2>4, <2>7 DEF Map!LookupAndEraseId, LookupFound
    <2> QED
        BY <2>1, <2>8 DEF Map!Next
<1>11. CASE UNCHANGED vars
    BY <1>11, <1>s DEF vars, Valid, Occupied
<1> QED
    BY <1>1, <1>2, <1>3, <1>4, <1>5, <1>6, <1>7, <1>8, <1>9, <1>10, <1>11
    DEF Next, Call, Step

(* The open-addressing table is the map OrderBook takes it for, for every  *)
(* table size at least one, every hash and every sequence of calls.        *)
THEOREM Refinement == Spec => ImplementsIdMap
<1>1. Init => Map!Init
    <2> SUFFICES ASSUME Init PROVE Map!Init
        OBVIOUS
    <2>1. \A s \in Slots : ~Valid(s)
        BY DEF Init, Valid, Occupied
    <2> QED
        BY <2>1 DEF Init, Contents, Map!Init, Map!NoAnswer, Empty
<1> QED
    BY <1>1, Invariance, RefinementStep, PTL DEF Spec, ImplementsIdMap, Map!Spec
===========================================================================
