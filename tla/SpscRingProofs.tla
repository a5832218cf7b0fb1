-------------------------- MODULE SpscRingProofs --------------------------
(***************************************************************************)
(* Proofs about SpscRing for every Capacity, every word size that is a     *)
(* multiple of it and every set of payloads.                               *)
(***************************************************************************)
EXTENDS SpscRing, SequenceTheorems, TLAPS

(* The part of the assumption that is linear in Capacity and Word. *)
LEMMA Sizes == Capacity \in Nat \ {0} /\ Word \in Nat /\ Word >= Capacity + Capacity
BY RingAssumption

(* The only multiple of c in [0, c) is 0. *)
LEMMA SmallMultiple ==
    ASSUME NEW c \in Nat \ {0}, NEW n \in Int, 0 =< c * n, c * n < c
    PROVE  n = 0
<1>1. CASE n >= 1
  <2>1. c * n >= c * 1 BY <1>1
  <2> QED BY <2>1
<1>2. CASE n =< -1
  <2>1. c * n =< c * (-1) BY <1>2
  <2> QED BY <2>1
<1> QED BY <1>1, <1>2

(* Two indices less than Capacity apart on the circle of size_t values     *)
(* fall into different slots, also across the wrap.                        *)
LEMMA SlotsDiffer ==
    ASSUME NEW i \in Index, NEW d \in 1 .. Capacity - 1
    PROVE  Slot(WrapAdd(i, d)) # Slot(i)
<1> DEFINE j == WrapAdd(i, d)
<1>1. PICK k \in 1 .. Word : Word = k * Capacity
  BY RingAssumption
<1>2. i \in Int /\ j \in Int /\ Capacity \in Int /\ Capacity > 0 /\ k \in Int
  BY RingAssumption DEF WrapAdd, Index
<1>3. SUFFICES ASSUME j % Capacity = i % Capacity PROVE FALSE
  BY DEF Slot
<1>4. i = Capacity * (i \div Capacity) + (i % Capacity)
  BY <1>2
<1>5. j = Capacity * (j \div Capacity) + (j % Capacity)
  BY <1>2
<1> DEFINE a == i \div Capacity
           b == j \div Capacity
<1>6. a \in Int /\ b \in Int
  BY <1>2
<1>7. j - i = Capacity * (b - a)
  <2>1. j - i = Capacity * b - Capacity * a
    <3> HIDE DEF j
    <3> QED BY <1>2, <1>3, <1>4, <1>5
  <2> HIDE DEF a, b, j
  <2> QED BY <2>1, <1>2, <1>6
<1>8. PICK n \in Int : d = Capacity * n
  <2>1. CASE i + d < Word
    <3>1. d = Capacity * (b - a)
      BY <1>7, <2>1, <1>2 DEF WrapAdd
    <3> QED BY <3>1, <1>6
  <2>2. CASE ~(i + d < Word)
    <3>1. d = Capacity * (b - a) + Word
      <4>1. j = i + d - Word
        BY <2>2 DEF WrapAdd
      <4> HIDE DEF j, a, b
      <4> QED BY <4>1, <1>7, <1>2, <1>6, RingAssumption
    <3>2. d = Capacity * (b - a + k)
      <4> HIDE DEF a, b
      <4> QED BY <3>1, <1>1, <1>2, <1>6
    <3> QED BY <3>2, <1>6, <1>2
  <2> QED BY <2>1, <2>2
<1>9. n = 0
  BY <1>8, SmallMultiple, RingAssumption
<1> QED BY <1>8, <1>9, <1>2

(* index & kMask is always a slot of storage_. *)
LEMMA SlotType ==
    ASSUME NEW i \in Index
    PROVE  Slot(i) \in 0 .. Capacity - 1
BY RingAssumption DEF Slot, Index
---------------------------------------------------------------------------
(* Loading the other side's index anywhere between the last view and the   *)
(* current value keeps the four positions in order.                        *)
LEMMA VisibleView ==
    ASSUME NEW seen \in Index, NEW cur \in Index, NEW v \in Visible(seen, cur)
    PROVE  /\ v \in Index
           /\ WrapDiff(cur, seen) = WrapDiff(v, seen) + WrapDiff(cur, v)
BY Sizes DEF Visible, WrapAdd, WrapDiff, Index

(* The unsigned difference of two indices is again a size_t value. *)
LEMMA WrapDiffType ==
    ASSUME NEW w \in Index, NEW r \in Index
    PROVE  WrapDiff(w, r) \in Index
BY Sizes DEF WrapDiff, Index

(* Moving the first or the third of four positions on the circle forward,   *)
(* no further than the next one, keeps the four in order.                  *)
LEMMA MoveFirst ==
    ASSUME NEW w \in Index, NEW c \in Index, NEW r \in Index, NEW p \in Index,
           NEW q \in Index,
           WrapDiff(w, p) =< Capacity,
           WrapDiff(w, p) = WrapDiff(r, p) + WrapDiff(c, r) + WrapDiff(w, c),
           WrapDiff(r, p) = WrapDiff(q, p) + WrapDiff(r, q)
    PROVE  /\ WrapDiff(w, q) =< Capacity
           /\ WrapDiff(w, q) = WrapDiff(r, q) + WrapDiff(c, r) + WrapDiff(w, c)
           /\ WrapDiff(w, q) \in WrapDiff(w, r) .. WrapDiff(w, p)
BY Sizes DEF WrapDiff, Index

(* The same for the third position: the consumer learns of more pushes. *)
LEMMA MoveThird ==
    ASSUME NEW w \in Index, NEW c \in Index, NEW r \in Index, NEW p \in Index,
           NEW q \in Index,
           WrapDiff(w, p) = WrapDiff(r, p) + WrapDiff(c, r) + WrapDiff(w, c),
           WrapDiff(w, p) =< Capacity,
           WrapDiff(w, c) = WrapDiff(q, c) + WrapDiff(w, q)
    PROVE  /\ WrapDiff(w, p) = WrapDiff(r, p) + WrapDiff(q, r) + WrapDiff(w, q)
           /\ WrapDiff(q, r) \in WrapDiff(c, r) .. WrapDiff(w, r)
BY Sizes DEF WrapDiff, Index

(* Between its check and its release a thread is inside a slot the other   *)
(* thread cannot be inside of.                                             *)
LEMMA RaceFree == Inv => NoDataRace
<1> SUFFICES ASSUME Inv, ppc \in {"write", "publish"}, cpc \in {"read", "release"}
             PROVE  Slot(write_idx) # Slot(read_idx)
  BY DEF NoDataRace
<1> DEFINE d == WrapDiff(write_idx, read_idx)
<1>1. d \in 1 .. Capacity - 1
  BY Sizes DEF Inv, TypeOK, ViewsOrdered, WrapDiff, Index
<1>2. write_idx = WrapAdd(read_idx, d)
  BY Sizes DEF Inv, TypeOK, WrapAdd, WrapDiff, Index
<1> HIDE DEF d
<1> QED BY <1>1, <1>2, SlotsDiffer DEF Inv, TypeOK

(* The ring's invariant is inductive. *)
LEMMA InitInv == Init => Inv
<1> SUFFICES ASSUME Init PROVE Inv
  OBVIOUS
<1>1. TypeOK
  BY Sizes, RingAssumption DEF Init, TypeOK, Index
<1>2. ViewsOrdered
  BY Sizes DEF Init, ViewsOrdered, WrapDiff
<1> QED BY <1>1, <1>2 DEF Init, Inv

(* Every step of either thread preserves the invariant. *)
LEMMA NextInv == Inv /\ [Next]_vars => Inv'
<1> SUFFICES ASSUME Inv, [Next]_vars PROVE Inv'
  OBVIOUS
<1> USE Sizes
<1>1. ASSUME NEW v \in Value, PushLoad(v) PROVE Inv'
  <2>1. /\ pr' \in Index
        /\ WrapDiff(read_idx, pr) = WrapDiff(pr', pr) + WrapDiff(read_idx, pr')
    BY <1>1, VisibleView DEF PushLoad, Inv, TypeOK
  <2>2. TypeOK'
    BY <1>1, <2>1 DEF PushLoad, Inv, TypeOK, consVars
  <2>. /\ write_idx' = write_idx /\ read_idx' = read_idx /\ cw' = cw
       /\ ppc' = IF WrapDiff(write_idx, pr') >= Capacity THEN "full" ELSE "write"
    BY <1>1 DEF PushLoad, Full, consVars
  <2>3. ViewsOrdered'
    BY <2>1, MoveFirst DEF Inv, TypeOK, ViewsOrdered
  <2>6. WrapDiff(write_idx, pr') \in Int
    BY <2>1, WrapDiffType DEF Inv, TypeOK, Index
  <2>4. (ppc = "full" => WrapDiff(write_idx, pr) = Capacity)'
    BY <2>3, <2>6 DEF ViewsOrdered
  <2>5. (ppc \in {"write", "publish"} => WrapDiff(write_idx, pr) < Capacity)'
    BY <2>6
  <2> QED BY <1>1, <2>2, <2>3, <2>4, <2>5 DEF PushLoad, Inv, consVars
<1>2. ASSUME PushDrop PROVE Inv'
  <2>1. TypeOK'
    BY <1>2 DEF PushDrop, Inv, TypeOK, consVars, WrapInc, WrapAdd, Index
  <2>2. ViewsOrdered'
    BY <1>2 DEF PushDrop, Inv, ViewsOrdered, consVars
  <2> QED BY <1>2, <2>1, <2>2 DEF PushDrop, Inv, consVars
<1>3. ASSUME PushWrite PROVE Inv'
  <2>0. Slot(write_idx) \in 0 .. Capacity - 1
    BY SlotType DEF Inv, TypeOK
  <2>1. TypeOK'
    BY <1>3 DEF PushWrite, Inv, TypeOK, consVars
  <2>2. ViewsOrdered'
    BY <1>3 DEF PushWrite, Inv, ViewsOrdered, consVars
  <2>3. ASSUME cpc = "release" PROVE Slot(write_idx) # Slot(read_idx)
    BY <1>3, <2>3, RaceFree DEF PushWrite, NoDataRace
  <2>4. (cpc = "release" => cout = storage[Slot(read_idx)])'
    BY <1>3, <2>0, <2>3, SlotType DEF PushWrite, Inv, TypeOK, consVars
  <2> QED BY <1>3, <2>0, <2>1, <2>2, <2>4 DEF PushWrite, Inv, TypeOK, consVars
<1>4. ASSUME PushPublish PROVE Inv'
  <2>1. TypeOK'
    BY <1>4 DEF PushPublish, Inv, TypeOK, consVars, WrapInc, WrapAdd, Index
  <2>2. ViewsOrdered'
    BY <1>4 DEF PushPublish, Inv, TypeOK, ViewsOrdered, consVars, WrapInc,
                WrapAdd, WrapDiff, Index
  <2> QED BY <1>4, <2>1, <2>2 DEF PushPublish, Inv, consVars
<1>5. ASSUME PopLoad PROVE Inv'
  <2>1. /\ cw' \in Index
        /\ WrapDiff(write_idx, cw) = WrapDiff(cw', cw) + WrapDiff(write_idx, cw')
    BY <1>5, VisibleView DEF PopLoad, Inv, TypeOK
  <2>2. TypeOK'
    BY <1>5, <2>1 DEF PopLoad, Inv, TypeOK, prodVars
  <2>. write_idx' = write_idx /\ read_idx' = read_idx /\ pr' = pr
    BY <1>5 DEF PopLoad, prodVars
  <2>3. ViewsOrdered'
    BY <2>1, MoveThird DEF Inv, TypeOK, ViewsOrdered
  <2> QED BY <1>5, <2>2, <2>3 DEF PopLoad, Inv, prodVars
<1>6. ASSUME PopRead PROVE Inv'
  <2>1. TypeOK'
    BY <1>6, SlotType DEF PopRead, Inv, TypeOK, prodVars
  <2>2. ViewsOrdered'
    BY <1>6 DEF PopRead, Inv, ViewsOrdered, prodVars
  <2> QED BY <1>6, <2>1, <2>2 DEF PopRead, Inv, prodVars
<1>7. ASSUME PopRelease PROVE Inv'
  <2>1. TypeOK'
    BY <1>7 DEF PopRelease, Inv, TypeOK, prodVars, WrapInc, WrapAdd, Index
  <2>2. ViewsOrdered'
    BY <1>7 DEF PopRelease, Inv, TypeOK, ViewsOrdered, prodVars, WrapInc,
                WrapAdd, WrapDiff, Index
  <2> QED BY <1>7, <2>1, <2>2 DEF PopRelease, Inv, prodVars
<1>8. ASSUME UNCHANGED vars PROVE Inv'
  BY <1>8 DEF vars, prodVars, consVars, Inv, TypeOK, ViewsOrdered
<1> QED
  BY <1>1, <1>2, <1>3, <1>4, <1>5, <1>6, <1>7, <1>8 DEF Next, TryPush, TryPop

(* TypeOK, ViewsOrdered and the rest of Inv hold in every reachable state. *)
THEOREM Invariance == Spec => []Inv
BY InitInv, NextInv, PTL DEF Spec

(* A stale view of the other thread's index is always on the safe side.    *)
THEOREM RingViewsOrdered == Spec => []ViewsOrdered
<1>1. Inv => ViewsOrdered
  BY DEF Inv
<1> QED BY Invariance, <1>1, PTL

(* TryPush and TryPop of the ring never touch a slot at the same time, for *)
(* any Capacity, across the wrap of the 64-bit indices and however stale   *)
(* the view each side has of the other's index.                            *)
THEOREM RingNoDataRace == Spec => []NoDataRace
<1>1. Inv => NoDataRace
  BY RaceFree
<1> QED BY Invariance, <1>1, PTL

(* size_approx() on the producer's or the consumer's own thread is a sound *)
(* one-sided bound and never underflows.                                   *)
THEOREM RingSizeApproxBounds == Spec => []SizeApproxBounds
<1>1. ASSUME Inv PROVE SizeApproxBounds
  <2>0. /\ write_idx \in Index /\ read_idx \in Index /\ pr \in Index /\ cw \in Index
        /\ WrapDiff(write_idx, pr) =< Capacity
        /\ WrapDiff(write_idx, pr) =
             WrapDiff(read_idx, pr) + WrapDiff(cw, read_idx) + WrapDiff(write_idx, cw)
    BY <1>1 DEF Inv, TypeOK, ViewsOrdered
  <2>1. ASSUME NEW r \in Visible(pr, read_idx)
        PROVE  WrapDiff(write_idx, r) \in Occupancy .. Capacity
    <3>1. r \in Index /\ WrapDiff(read_idx, pr) = WrapDiff(r, pr) + WrapDiff(read_idx, r)
      BY <2>0, VisibleView
    <3>2. WrapDiff(write_idx, r) \in WrapDiff(write_idx, read_idx) .. WrapDiff(write_idx, pr)
      BY <2>0, <3>1, MoveFirst
    <3>3. WrapDiff(write_idx, r) =< Capacity
      BY <2>0, <3>1, MoveFirst
    <3>4. WrapDiff(write_idx, read_idx) \in Int /\ WrapDiff(write_idx, r) \in Int
      BY <2>0, <3>1, WrapDiffType DEF Index
    <3> QED BY <3>2, <3>3, <3>4, Sizes DEF Occupancy
  <2>2. ASSUME NEW w \in Visible(cw, write_idx)
        PROVE  WrapDiff(w, read_idx) \in 0 .. Occupancy
    <3>1. w \in Index /\ WrapDiff(write_idx, cw) = WrapDiff(w, cw) + WrapDiff(write_idx, w)
      BY <2>0, VisibleView
    <3>2. WrapDiff(w, read_idx) \in WrapDiff(cw, read_idx) .. WrapDiff(write_idx, read_idx)
      BY <2>0, <3>1, MoveThird
    <3>3. WrapDiff(cw, read_idx) \in Index
      BY <2>0, WrapDiffType
    <3> QED BY <3>2, <3>3, Sizes DEF Occupancy, Index
  <2> QED BY <2>1, <2>2 DEF SizeApproxBounds
<1> QED BY Invariance, <1>1, PTL

---------------------------------------------------------------------------
(* The refinement.  Contents is the queue, a publish appends to it, a      *)
(* release takes its head off, and no other step changes it.               *)

(* Append and Tail, as functions on an interval. *)
LEMMA AppendAsFunction ==
    ASSUME NEW S, NEW s \in Seq(S), NEW e \in S
    PROVE  Append(s, e) = [k \in 1 .. Len(s) + 1 |->
                              IF k \in 1 .. Len(s) THEN s[k] ELSE e]
<1> DEFINE a == Append(s, e)
<1>1. /\ a \in Seq(S)
      /\ Len(a) = Len(s) + 1
      /\ \A k \in 1 .. Len(s) : a[k] = s[k]
      /\ a[Len(s) + 1] = e
  BY AppendProperties
<1>2. a \in [1 .. Len(a) -> S]
  BY <1>1, LenProperties
<1>3. Len(s) \in Nat
  BY LenProperties
<1> HIDE DEF a
<1>4. a = [k \in 1 .. Len(a) |-> a[k]]
  BY <1>2
<1>5. \A k \in 1 .. Len(s) + 1 : a[k] = IF k \in 1 .. Len(s) THEN s[k] ELSE e
  BY <1>1, <1>3
<1>6. a = [k \in 1 .. Len(s) + 1 |-> IF k \in 1 .. Len(s) THEN s[k] ELSE e]
  BY <1>1, <1>4, <1>5
<1> QED BY <1>6 DEF a

(* Dropping the head of a sequence shifts it down by one. *)
LEMMA TailAsFunction ==
    ASSUME NEW S, NEW s \in Seq(S), s # <<>>
    PROVE  Tail(s) = [k \in 1 .. Len(s) - 1 |-> s[k + 1]]
<1> DEFINE t == Tail(s)
<1>1. /\ t \in Seq(S)
      /\ Len(t) = Len(s) - 1
      /\ \A k \in 1 .. Len(t) : t[k] = s[k + 1]
  BY HeadTailProperties
<1>2. t \in [1 .. Len(t) -> S]
  BY <1>1, LenProperties
<1> HIDE DEF t
<1>3. t = [k \in 1 .. Len(t) |-> t[k]]
  BY <1>2
<1>4. t = [k \in 1 .. Len(s) - 1 |-> s[k + 1]]
  BY <1>1, <1>3
<1> QED BY <1>4 DEF t

(* The occupancy is at most Capacity and bounded below by both views. *)
LEMMA OccupancyFacts ==
    ASSUME Inv
    PROVE  /\ Occupancy \in 0 .. Capacity
           /\ WrapDiff(write_idx, pr) \in Occupancy .. Capacity
           /\ WrapDiff(cw, read_idx) \in 0 .. Occupancy
           /\ ppc \in {"write", "publish"} => Occupancy < Capacity
           /\ cpc \in {"read", "release"} => WrapDiff(cw, read_idx) > 0
BY Sizes DEF Inv, TypeOK, ViewsOrdered, Occupancy, WrapDiff, Index

(* The published slots, read from read_idx to write_idx, form a sequence. *)
LEMMA ContentsIsSeq ==
    ASSUME Inv
    PROVE  /\ Contents \in Seq(Value)
           /\ Len(Contents) = Occupancy
<1>1. Occupancy \in Nat
  BY OccupancyFacts, Sizes
<1>2. ASSUME NEW k \in 1 .. Occupancy
      PROVE  storage[Slot(WrapAdd(read_idx, k - 1))] \in Value
  <2>1. WrapAdd(read_idx, k - 1) \in Index
    BY OccupancyFacts, Sizes DEF WrapAdd, Index, Inv, TypeOK
  <2> QED BY <2>1, SlotType DEF Inv, TypeOK
<1> QED BY <1>1, <1>2 DEF Contents

(* Filling the slot at write_idx does not disturb a published one. *)
LEMMA WriteOutsideContents ==
    ASSUME Inv, PushWrite
    PROVE  Contents' = Contents
<1>1. ASSUME NEW k \in 1 .. Occupancy
      PROVE  Slot(WrapAdd(read_idx, k - 1)) # Slot(write_idx)
  <2> DEFINE i == WrapAdd(read_idx, k - 1)
             d == Occupancy - k + 1
  <2>1. d \in 1 .. Capacity - 1
    BY <1>1, OccupancyFacts, Sizes DEF PushWrite
  <2>2. i \in Index
    BY OccupancyFacts, Sizes DEF WrapAdd, Index, Inv, TypeOK
  <2>3. write_idx = WrapAdd(i, d)
    BY OccupancyFacts, Sizes DEF WrapAdd, WrapDiff, Occupancy, Index, Inv, TypeOK
  <2> HIDE DEF i, d
  <2>4. Slot(WrapAdd(i, d)) # Slot(i)
    BY <2>1, <2>2, SlotsDiffer
  <2> QED BY <2>3, <2>4 DEF i
<1>2. ASSUME NEW k \in 1 .. Occupancy
      PROVE  storage'[Slot(WrapAdd(read_idx, k - 1))]
                = storage[Slot(WrapAdd(read_idx, k - 1))]
  BY <1>1 DEF PushWrite, Inv, TypeOK
<1>3. Occupancy' = Occupancy /\ read_idx' = read_idx
  BY DEF PushWrite, Occupancy
<1> QED BY <1>2, <1>3 DEF Contents

(* The release-store of write_idx appends the written slot to Contents. *)
LEMMA PublishAppends ==
    ASSUME Inv, PushPublish
    PROVE  Contents' = Append(Contents, pval)
<1>1. Occupancy' = Occupancy + 1
  BY OccupancyFacts, Sizes DEF PushPublish, Occupancy, WrapDiff, WrapInc, WrapAdd,
                               Index, Inv, TypeOK
<1>2. WrapAdd(read_idx, (Occupancy + 1) - 1) = write_idx
  BY OccupancyFacts, Sizes DEF Occupancy, WrapDiff, WrapAdd, Index, Inv, TypeOK
<1>3. storage[Slot(write_idx)] = pval
  BY DEF Inv, PushPublish
<1>4. storage' = storage /\ read_idx' = read_idx
  BY DEF PushPublish
<1>5. Occupancy \in Nat
  BY OccupancyFacts, Sizes
<1>6. Contents' = [k \in 1 .. Occupancy + 1 |->
                      storage[Slot(WrapAdd(read_idx, k - 1))]]
  BY <1>1, <1>4 DEF Contents
<1>7. Append(Contents, pval) =
         [k \in 1 .. Occupancy + 1 |->
             IF k \in 1 .. Occupancy THEN Contents[k] ELSE pval]
  <2>1. pval \in Value
    BY DEF Inv, TypeOK
  <2>2. Contents \in Seq(Value) /\ Len(Contents) = Occupancy
    BY ContentsIsSeq
  <2> HIDE DEF Contents
  <2> QED BY <2>1, <2>2, AppendAsFunction
<1>8. ASSUME NEW k \in 1 .. Occupancy + 1
      PROVE  storage[Slot(WrapAdd(read_idx, k - 1))]
                = IF k \in 1 .. Occupancy THEN Contents[k] ELSE pval
  <2>1. CASE k \in 1 .. Occupancy
    BY <2>1 DEF Contents
  <2>2. CASE k = Occupancy + 1
    BY <2>2, <1>2, <1>3, <1>5
  <2> QED BY <2>1, <2>2, <1>5
<1> QED BY <1>6, <1>7, <1>8

(* The release-store of read_idx removes the head of Contents. *)
LEMMA ReleaseTakesHead ==
    ASSUME Inv, PopRelease
    PROVE  /\ Contents # <<>>
           /\ got' = Head(Contents)
           /\ Contents' = Tail(Contents)
<1>1. Occupancy \in Nat /\ Occupancy >= 1
  BY OccupancyFacts, Sizes DEF PopRelease
<1>2. Occupancy' = Occupancy - 1
  BY OccupancyFacts, Sizes DEF PopRelease, Occupancy, WrapDiff, WrapInc, WrapAdd,
                               Index, Inv, TypeOK
<1>3. WrapAdd(read_idx, 1 - 1) = read_idx
  BY Sizes DEF WrapAdd, Inv, TypeOK, Index
<1>4. Contents[1] = cout
  BY <1>1, <1>3 DEF Contents, Inv, PopRelease
<1>5. ASSUME NEW k \in 1 .. Occupancy - 1
      PROVE  WrapAdd(read_idx', k - 1) = WrapAdd(read_idx, (k + 1) - 1)
  BY OccupancyFacts, Sizes DEF PopRelease, WrapInc, WrapAdd, Index, Inv, TypeOK
<1>6. Contents' = [k \in 1 .. Occupancy - 1 |->
                      storage[Slot(WrapAdd(read_idx', k - 1))]]
  BY <1>2 DEF Contents, PopRelease
<1>7. Tail(Contents) = [k \in 1 .. Occupancy - 1 |-> Contents[k + 1]]
  <2>1. Contents \in Seq(Value) /\ Len(Contents) = Occupancy
    BY ContentsIsSeq
  <2>2. Contents # <<>>
    BY <2>1, <1>1
  <2> HIDE DEF Contents
  <2> QED BY <2>1, <2>2, TailAsFunction
<1>8. ASSUME NEW k \in 1 .. Occupancy - 1
      PROVE  storage[Slot(WrapAdd(read_idx', k - 1))] = Contents[k + 1]
  BY <1>1, <1>5 DEF Contents
<1>9. Contents # <<>> /\ Head(Contents) = Contents[1]
  BY ContentsIsSeq, <1>1
<1> QED BY <1>4, <1>6, <1>7, <1>8, <1>9 DEF PopRelease

---------------------------------------------------------------------------
(* The initial states of the ring are initial states of the queue. *)
LEMMA InitRefines == Init => Abstract!Init
<1> SUFFICES ASSUME Init PROVE Abstract!InitWith(Zero)
  BY RingAssumption DEF Abstract!Init
<1>1. Occupancy = 0 /\ WrapDiff(write_idx, pr) = 0 /\ WrapDiff(cw, read_idx) = 0
  BY Sizes DEF Init, Occupancy, WrapDiff
<1>2. Contents = <<>>
  <2>1. Contents \in Seq(Value) /\ Len(Contents) = 0
    BY InitInv, ContentsIsSeq, <1>1
  <2> QED BY <2>1, EmptySeq
<1> QED BY <1>1, <1>2, Sizes DEF Init, Abstract!InitWith

(* Every step of the ring is a step of the queue or changes nothing in it. *)
LEMMA NextRefines == Inv /\ Inv' /\ [Next]_vars => [Abstract!Next]_(Abstract!vars)
<1> SUFFICES ASSUME Inv, Inv', [Next]_vars
             PROVE  Abstract!Next \/ UNCHANGED Abstract!vars
  OBVIOUS
<1> USE DEF Abstract!vars
<1>0. /\ Occupancy \in 0 .. Capacity
      /\ WrapDiff(write_idx, pr) \in Occupancy .. Capacity
      /\ WrapDiff(cw, read_idx) \in 0 .. Occupancy
      /\ Len(Contents) = Occupancy
  BY OccupancyFacts, ContentsIsSeq
<1>1. ASSUME NEW v \in Value, PushLoad(v) PROVE Abstract!LearnFree
  <2>1. Contents' = Contents /\ Occupancy' = Occupancy
        /\ WrapDiff(cw, read_idx)' = WrapDiff(cw, read_idx)
    BY <1>1 DEF PushLoad, consVars, Contents, Occupancy
  <2>2. pr' \in Index /\ WrapDiff(read_idx, pr) = WrapDiff(pr', pr) + WrapDiff(read_idx, pr')
    BY <1>1, VisibleView DEF PushLoad, Inv, TypeOK
  <2>3. WrapDiff(write_idx, pr') \in Occupancy .. WrapDiff(write_idx, pr)
    BY <2>2, MoveFirst DEF Inv, TypeOK, ViewsOrdered, Occupancy
  <2>4. WrapDiff(write_idx, pr)' = WrapDiff(write_idx, pr')
    BY <1>1 DEF PushLoad
  <2>5. (Capacity - WrapDiff(write_idx, pr))'
           \in Capacity - WrapDiff(write_idx, pr) .. Capacity - Len(Contents)
    BY <2>3, <2>4, <1>0, Sizes
  <2> QED BY <1>1, <2>1, <2>5 DEF Abstract!LearnFree, PushLoad, consVars
<1>2. ASSUME PushDrop PROVE Abstract!Drop
  <2>1. Contents' = Contents /\ WrapDiff(cw, read_idx)' = WrapDiff(cw, read_idx)
        /\ WrapDiff(write_idx, pr)' = WrapDiff(write_idx, pr) /\ got' = got
    BY <1>2 DEF PushDrop, consVars, Contents, Occupancy
  <2>2. Capacity - WrapDiff(write_idx, pr) = 0
    BY <1>2, Sizes DEF PushDrop, Inv
  <2>3. dropped_messages' = Abstract!CountUp(dropped_messages)
    BY <1>2, Sizes DEF PushDrop, Abstract!CountUp, WrapInc, WrapAdd, Inv, TypeOK, Index
  <2> QED BY <2>1, <2>2, <2>3 DEF Abstract!Drop
<1>3. ASSUME PushWrite PROVE UNCHANGED Abstract!vars
  <2>1. Contents' = Contents
    BY <1>3, WriteOutsideContents
  <2>2. WrapDiff(cw, read_idx)' = WrapDiff(cw, read_idx)
        /\ WrapDiff(write_idx, pr)' = WrapDiff(write_idx, pr)
    BY <1>3 DEF PushWrite, consVars
  <2> QED BY <1>3, <2>1, <2>2 DEF PushWrite, consVars
<1>4. ASSUME PushPublish PROVE Abstract!Push(pval)
  <2>1. Contents' = Append(Contents, pval)
    BY <1>4, PublishAppends
  <2>2. Capacity - WrapDiff(write_idx, pr) > 0
    BY <1>4, <1>0, Sizes DEF PushPublish, Inv
  <2>3. WrapDiff(write_idx, pr)' = WrapDiff(write_idx, pr) + 1
    BY <1>4, Sizes DEF PushPublish, Inv, TypeOK, WrapDiff, WrapInc, WrapAdd, Index
  <2>4. (Capacity - WrapDiff(write_idx, pr))' = (Capacity - WrapDiff(write_idx, pr)) - 1
    BY <2>3, <1>0, Sizes
  <2>5. WrapDiff(cw, read_idx)' = WrapDiff(cw, read_idx)
    BY <1>4 DEF PushPublish, consVars
  <2> QED BY <1>4, <2>1, <2>2, <2>4, <2>5 DEF Abstract!Push, PushPublish, consVars
<1>5. ASSUME PopLoad PROVE Abstract!LearnAvail
  <2>1. Contents' = Contents
        /\ WrapDiff(write_idx, pr)' = WrapDiff(write_idx, pr)
    BY <1>5 DEF PopLoad, prodVars, Contents, Occupancy
  <2>2. cw' \in Index /\ WrapDiff(write_idx, cw) = WrapDiff(cw', cw) + WrapDiff(write_idx, cw')
    BY <1>5, VisibleView DEF PopLoad, Inv, TypeOK
  <2>3. WrapDiff(cw', read_idx) \in WrapDiff(cw, read_idx) .. Occupancy
    BY <2>2, MoveThird DEF Inv, TypeOK, ViewsOrdered, Occupancy
  <2>4. WrapDiff(cw, read_idx)' = WrapDiff(cw', read_idx)
    BY <1>5 DEF PopLoad
  <2> QED BY <1>0, <1>5, <2>1, <2>3, <2>4 DEF Abstract!LearnAvail, PopLoad
<1>6. ASSUME PopRead PROVE UNCHANGED Abstract!vars
  BY <1>6 DEF PopRead, prodVars, Contents, Occupancy
<1>7. ASSUME PopRelease PROVE Abstract!Pop
  <2>1. Contents # <<>> /\ got' = Head(Contents) /\ Contents' = Tail(Contents)
    BY <1>7, ReleaseTakesHead
  <2>2. WrapDiff(cw, read_idx) > 0
    BY <1>7, OccupancyFacts DEF PopRelease
  <2>3. WrapDiff(cw, read_idx)' = WrapDiff(cw, read_idx) - 1
    BY <1>7, Sizes DEF PopRelease, Inv, TypeOK, WrapDiff, WrapInc, WrapAdd, Index
  <2>4. WrapDiff(write_idx, pr)' = WrapDiff(write_idx, pr)
        /\ dropped_messages' = dropped_messages
    BY <1>7 DEF PopRelease, prodVars
  <2> QED BY <2>1, <2>2, <2>3, <2>4 DEF Abstract!Pop
<1>8. ASSUME UNCHANGED vars PROVE UNCHANGED Abstract!vars
  BY <1>8 DEF vars, prodVars, consVars, Contents, Occupancy
<1>9. pval \in Value
  BY DEF Inv, TypeOK
<1> QED
  BY <1>1, <1>2, <1>3, <1>4, <1>5, <1>6, <1>7, <1>8, <1>9
     DEF Next, TryPush, TryPop, Abstract!Next

(* For every Capacity, word size and payload set the lock-free ring        *)
(* implements the bounded drop-newest FIFO.                                *)
THEOREM RingImplementsLossyQueue == Spec => ImplementsLossyQueue
<1>1. Init => Abstract!Init
  BY InitRefines
<1>2. Inv /\ Inv' /\ [Next]_vars => [Abstract!Next]_(Abstract!vars)
  BY NextRefines
<1> QED BY <1>1, <1>2, Invariance, PTL DEF Spec, ImplementsLossyQueue, Abstract!Spec

===========================================================================
