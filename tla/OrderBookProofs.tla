-------------------------- MODULE OrderBookProofs --------------------------
(***************************************************************************)
(* The order book for every capacity, price band, order size and number of *)
(* orders: no block leaks or is freed twice, the incremental touch is the  *)
(* best populated level, the book is never crossed, ladders, lists and     *)
(* blocks implement price-time priority (BookSpec), every level is an      *)
(* exact FIFO with exact aggregates, and no quantity goes below zero.      *)
(*                                                                         *)
(* Inv relates neighbours only; what it says of a whole level (its head    *)
(* has the smallest id) follows by taking a least counterexample.  The     *)
(* aggregates need more: Aggregates says that each level's list can be     *)
(* numbered, with running totals that end in total_qty.                    *)
(***************************************************************************)
EXTENDS OrderBook, TLAPS, FiniteSetTheorems, SequenceTheorems, WellFoundedInduction

USE BookAssumption

---------------------------------------------------------------------------
(* Least and best elements. *)

Below == { p \in Nat \X Nat : p[1] < p[2] }

LEMMA BelowWellFounded == IsWellFoundedOn(Below, Nat)
    BY NatLessThanWellFounded DEF OpToRel, Below

LEMMA LeastNat ==
    ASSUME NEW S, S \subseteq Nat, S # {}
    PROVE  \E x \in S : \A y \in S : x =< y
<1>1. PICK x \in S : \A y \in S : ~(<<y, x>> \in Below)
    BY BelowWellFounded, WFMin
<1>2. ASSUME NEW y \in S PROVE x =< y
    <2>1. x \in Nat /\ y \in Nat
        OBVIOUS
    <2>2. <<y, x>> \in Nat \X Nat /\ <<y, x>>[1] = y /\ <<y, x>>[2] = x
        BY <2>1
    <2>3. ~(y < x)
        BY <1>1, <2>2 DEF Below
    <2> QED
        BY <2>1, <2>3
<1> QED
    BY <1>2

(* Some price of a nonempty set in the band is best for its side. *)
LEMMA BestOfSome ==
    ASSUME NEW s \in Sides, NEW S, S \subseteq Band, S # {}
    PROVE  \E p \in S : \A q \in S : q = p \/ Worse(s, q, p)
<1>1. CASE s = "buy"
    <2> DEFINE D == { n \in Nat : MaxPrice - n \in S }
    <2>1. ASSUME NEW y \in S PROVE MaxPrice - y \in D /\ y \in Int
        BY DEF Band
    <2>2. D # {} /\ D \subseteq Nat
        BY <2>1
    <2>3. PICK n \in D : \A i \in D : n =< i
        BY <2>2, LeastNat
    <2>4. MaxPrice - n \in S /\ \A y \in S : y = MaxPrice - n \/ y < MaxPrice - n
        BY <2>1, <2>3
    <2> QED
        BY <1>1, <2>4 DEF Worse
<1>2. CASE s # "buy"
    <2> DEFINE D == { n \in Nat : MinPrice + n \in S }
    <2>1. ASSUME NEW y \in S PROVE y - MinPrice \in D /\ y \in Int
        BY DEF Band
    <2>2. D # {} /\ D \subseteq Nat
        BY <2>1
    <2>3. PICK n \in D : \A i \in D : n =< i
        BY <2>2, LeastNat
    <2>4. \A y \in S : y = MinPrice + n \/ y > MinPrice + n
        <3> TAKE y \in S
        <3>1. y \in Int /\ n =< y - MinPrice /\ n \in Nat
            BY <2>1, <2>3
        <3> QED
            BY <3>1
    <2>5. MinPrice + n \in S
        OBVIOUS
    <2> QED
        BY <1>2, <2>4, <2>5 DEF Worse
<1> QED
    BY <1>1, <1>2

---------------------------------------------------------------------------
(* The free list, as a sequence threaded through words. *)

Elems(st) == { st[i] : i \in 1 .. Len(st) }
Threaded(st, fh, w) ==
    /\ fh = IF st = <<>> THEN Null ELSE st[1]
    /\ \A i \in 1 .. Len(st) : w[st[i]] = IF i = Len(st) THEN Null ELSE st[i + 1]
    /\ \A i, j \in 1 .. Len(st) : st[i] = st[j] => i = j

LEMMA ThreadedIsChain == Slab!ChainIsStack <=> Threaded(stack, free_head, word)
    BY DEF Slab!ChainIsStack, Threaded, Slab!Null, Null

LEMMA FreeIsElems == Slab!FreeBlocks = Elems(stack)
    BY DEF Slab!FreeBlocks, Elems

LEMMA SeqFacts ==
    ASSUME NEW st \in Seq(Blocks)
    PROVE  /\ Len(st) \in Nat /\ \A i \in 1 .. Len(st) : st[i] \in Blocks
           /\ Elems(st) \subseteq Blocks
           /\ st = <<>> <=> Len(st) = 0
           /\ st = <<>> <=> Elems(st) = {}
<1>1. Len(st) \in Nat /\ \A i \in 1 .. Len(st) : st[i] \in Blocks
    OBVIOUS
<1>2. st = <<>> <=> Len(st) = 0
    OBVIOUS
<1>3. Len(st) # 0 => st[1] \in Elems(st)
    BY <1>1 DEF Elems
<1>4. Len(st) = 0 => Elems(st) = {}
    BY DEF Elems
<1> QED
    BY <1>1, <1>2, <1>3, <1>4 DEF Elems

(* Writing a block that is not free. *)
LEMMA ThreadedWrite ==
    ASSUME NEW st \in Seq(Blocks), NEW fh, NEW w \in [Blocks -> Int], Threaded(st, fh, w),
           NEW p \in Blocks, p \notin Elems(st), NEW x
    PROVE  Threaded(st, fh, [w EXCEPT ![p] = x])
<1>1. \A i \in 1 .. Len(st) : [w EXCEPT ![p] = x][st[i]] = w[st[i]]
    BY SeqFacts DEF Elems
<1> QED
    BY <1>1 DEF Threaded

LEMMA ThreadedPop ==
    ASSUME NEW st \in Seq(Blocks), NEW fh, NEW w \in [Blocks -> Int], Threaded(st, fh, w),
           fh # Null
    PROVE  /\ fh \in Elems(st) /\ Tail(st) \in Seq(Blocks)
           /\ Threaded(Tail(st), w[fh], w) /\ Elems(Tail(st)) = Elems(st) \ {fh}
<1>1. st # <<>> /\ fh = st[1]
    BY DEF Threaded
<1>2. /\ Tail(st) \in Seq(Blocks) /\ Len(st) \in Nat /\ Len(st) >= 1
      /\ Len(Tail(st)) = Len(st) - 1
      /\ \A i \in 1 .. Len(st) - 1 : Tail(st)[i] = st[i + 1]
    BY <1>1
<1>3. fh \in Elems(st)
    BY <1>1, <1>2 DEF Elems
<1> DEFINE t == Tail(st)
           n == Len(st)
<1> HIDE DEF t
<1>a. 1 \in 1 .. n
    BY <1>2
<1>4. Len(t) = n - 1 /\ \A i \in 1 .. n - 1 : t[i] = st[i + 1] /\ i + 1 \in 1 .. n
    BY <1>2 DEF t
<1>5. \A i \in 1 .. n : i # 1 => i - 1 \in 1 .. n - 1 /\ t[i - 1] = st[i]
    BY <1>2, <1>4
<1>6. Elems(t) = Elems(st) \ {fh}
    <2>1. \A i \in 1 .. n : st[i] = st[1] => i = 1
        BY <1>a DEF Threaded
    <2>2. \A i \in 1 .. n - 1 : t[i] \in Elems(st) /\ t[i] # fh
        <3> TAKE i \in 1 .. n - 1
        <3>1. t[i] = st[i + 1] /\ i + 1 \in 1 .. n /\ i + 1 # 1
            BY <1>2, <1>4
        <3> QED
            BY <1>1, <2>1, <3>1 DEF Elems
    <2>3. \A i \in 1 .. n : st[i] # fh => \E j \in 1 .. n - 1 : t[j] = st[i]
        BY <1>1, <1>5
    <2>4. Elems(t) \subseteq Elems(st) \ {fh}
        BY <1>4, <2>2 DEF Elems
    <2>5. Elems(st) \ {fh} \subseteq Elems(t)
        <3>1. Elems(st) = { st[i] : i \in 1 .. n } /\ Elems(t) = { t[j] : j \in 1 .. n - 1 }
            BY <1>4 DEF Elems
        <3> QED
            BY <2>3, <3>1
    <2> QED
        BY <2>4, <2>5
<1>7. w[fh] = IF t = <<>> THEN Null ELSE t[1]
    <2>1. w[st[1]] = IF 1 = n THEN Null ELSE st[1 + 1]
        BY <1>a DEF Threaded
    <2>2. t = <<>> <=> n = 1
        <3>1. t \in Seq(Blocks) /\ Len(t) = n - 1 /\ n \in Nat
            BY <1>2 DEF t
        <3>2. t = <<>> <=> n - 1 = 0
            BY <3>1, SeqFacts
        <3> QED
            BY <3>1, <3>2
    <2>3. n # 1 => t[1] = st[2]
        BY <1>2, <1>4
    <2> QED
        BY <1>1, <2>1, <2>2, <2>3
<1>8. ASSUME NEW i \in 1 .. n - 1
      PROVE  w[t[i]] = IF i = n - 1 THEN Null ELSE t[i + 1]
    <2>1. w[st[i + 1]] = IF i + 1 = n THEN Null ELSE st[(i + 1) + 1]
        BY <1>4 DEF Threaded
    <2>2. i # n - 1 => t[i + 1] = st[(i + 1) + 1]
        <3>0. n \in Nat
            BY <1>2
        <3>1. i # n - 1 => i + 1 \in 1 .. n - 1
            BY <3>0
        <3> QED
            BY <1>4, <3>1
    <2>3. i + 1 = n <=> i = n - 1
        BY <1>2
    <2> QED
        BY <1>4, <2>1, <2>2, <2>3
<1>9. ASSUME NEW i \in 1 .. n - 1, NEW j \in 1 .. n - 1, t[i] = t[j]
      PROVE  i = j
    <2>1. st[i + 1] = st[j + 1] /\ i + 1 \in 1 .. n /\ j + 1 \in 1 .. n
        BY <1>4, <1>9
    <2>2. i + 1 = j + 1
        BY <2>1 DEF Threaded
    <2> QED
        BY <2>2, <1>2
<1>10. Threaded(t, w[fh], w)
    BY <1>4, <1>7, <1>8, <1>9 DEF Threaded
<1> QED
    BY <1>2, <1>3, <1>6, <1>10 DEF t

LEMMA ThreadedPush ==
    ASSUME NEW st \in Seq(Blocks), NEW fh, NEW w \in [Blocks -> Int], Threaded(st, fh, w),
           NEW p \in Blocks, p \notin Elems(st)
    PROVE  /\ <<p>> \o st \in Seq(Blocks) /\ Elems(<<p>> \o st) = Elems(st) \cup {p}
           /\ Threaded(<<p>> \o st, p, [w EXCEPT ![p] = fh])
<1> DEFINE t == <<p>> \o st
           n == Len(st)
           v == [w EXCEPT ![p] = fh]
<1>1. /\ t \in Seq(Blocks) /\ n \in Nat /\ Len(t) = n + 1 /\ t[1] = p
      /\ \A i \in 1 .. n : t[i + 1] = st[i]
    OBVIOUS
<1>2. \A i \in 1 .. n : v[st[i]] = w[st[i]] /\ st[i] # p
    BY SeqFacts DEF Elems
<1>3. v[p] = fh
    OBVIOUS
<1> HIDE DEF t, v
<1>4. \A i \in 1 .. n + 1 : i # 1 => i - 1 \in 1 .. n /\ t[i] = st[i - 1]
    <2> TAKE i \in 1 .. n + 1
    <2> HAVE i # 1
    <2>1. i - 1 \in 1 .. n /\ (i - 1) + 1 = i
        BY <1>1
    <2> QED
        BY <1>1, <2>1
<1>5. Elems(t) = Elems(st) \cup {p}
    <2>1. \A i \in 1 .. n + 1 : t[i] \in Elems(st) \cup {p}
        BY <1>1, <1>4 DEF Elems
    <2>2. 1 \in 1 .. n + 1 /\ \A i \in 1 .. n : i + 1 \in 1 .. n + 1
        BY <1>1
    <2>3. Elems(t) \subseteq Elems(st) \cup {p}
        BY <1>1, <2>1 DEF Elems
    <2>4. Elems(st) \subseteq Elems(t)
        <3>1. \A i \in 1 .. n : \E j \in 1 .. n + 1 : st[i] = t[j]
            BY <1>1, <2>2
        <3>2. Len(t) = n + 1
            BY <1>1
        <3> QED
            BY <3>1, <3>2 DEF Elems
    <2>5. p \in Elems(t)
        BY <1>1, <2>2 DEF Elems
    <2> QED
        BY <2>3, <2>4, <2>5
<1>6. ASSUME NEW i \in 1 .. n + 1
      PROVE  v[t[i]] = IF i = n + 1 THEN Null ELSE t[i + 1]
    <2>1. CASE i = 1
        <3>1. fh = IF n = 0 THEN Null ELSE st[1]
            BY SeqFacts DEF Threaded
        <3>2. n # 0 => t[2] = st[1]
            BY <1>1
        <3> QED
            BY <1>1, <1>3, <2>1, <3>1, <3>2
    <2>2. CASE i # 1
        <3>1. i - 1 \in 1 .. n /\ t[i] = st[i - 1]
            BY <1>4, <2>2
        <3>2. w[st[i - 1]] = IF i - 1 = n THEN Null ELSE st[(i - 1) + 1]
            BY <3>1 DEF Threaded
        <3>3. (i - 1) + 1 = i /\ (i - 1 = n <=> i = n + 1)
            BY <1>1
        <3>4. i # n + 1 => i \in 1 .. n /\ t[i + 1] = st[i]
            BY <1>1
        <3> QED
            BY <1>2, <3>1, <3>2, <3>3, <3>4
    <2> QED
        BY <2>1, <2>2
<1>7. ASSUME NEW i \in 1 .. n + 1, NEW j \in 1 .. n + 1, t[i] = t[j]
      PROVE  i = j
    <2>0. \A x \in 1 .. n + 1 : x # 1 => t[x] # p
        <3> TAKE x \in 1 .. n + 1
        <3> HAVE x # 1
        <3>1. x - 1 \in 1 .. n /\ t[x] = st[x - 1]
            BY <1>4
        <3>2. st[x - 1] # p
            BY <1>2, <3>1
        <3> QED
            BY <3>1, <3>2
    <2>1. CASE i = 1 \/ j = 1
        BY <1>1, <1>7, <2>0, <2>1
    <2>2. CASE i # 1 /\ j # 1
        <3>1. i - 1 \in 1 .. n /\ j - 1 \in 1 .. n /\ st[i - 1] = st[j - 1]
            BY <1>4, <1>7, <2>2
        <3>2. i - 1 = j - 1
            BY <3>1 DEF Threaded
        <3> QED
            BY <3>2, <1>1
    <2> QED
        BY <2>1, <2>2
<1>8. Threaded(t, p, v)
    <2>1. t # <<>>
        BY <1>1
    <2> QED
        BY <1>1, <1>6, <1>7, <2>1 DEF Threaded
<1> QED
    BY <1>1, <1>5, <1>8 DEF t, v

---------------------------------------------------------------------------
(* The blocks in the lists. *)

LEMMA LinkedBlock ==
    ASSUME Indexed, NEW b \in Linked
    PROVE  /\ b \in Blocks /\ b # Null /\ word[b] \in Ids
           /\ id_index[word[b]] = b /\ word[b] < NextToRest
<1>1. PICK i \in Ids : id_index[i] = b
    BY DEF Linked
<1>2. b \in Blocks /\ b # Null
    BY DEF Linked, Blocks, Null
<1> QED
    BY <1>1, <1>2 DEF Indexed

LEMMA IndexLinked ==
    ASSUME Kinds, NEW i \in Ids, id_index[i] # Null
    PROVE  id_index[i] \in Linked
<1>1. id_index[i] \in 0 .. Capacity
    BY DEF Kinds
<1>2. id_index[i] \in Blocks
    BY <1>1 DEF Blocks, Null
<1> QED
    BY <1>2 DEF Linked

LEMMA LinkedErase ==
    ASSUME Kinds, Indexed, NEW o \in Linked,
           id_index' = [id_index EXCEPT ![word[o]] = Null]
    PROVE  Linked' = Linked \ {o}
<1>1. id_index \in [Ids -> 0 .. Capacity] /\ word[o] \in Ids
    BY LinkedBlock DEF Kinds
<1>2. \A i \in Ids : id_index'[i] = IF i = word[o] THEN Null ELSE id_index[i]
    BY <1>1
<1>3. \A b \in Blocks : b # Null
    BY DEF Blocks, Null
<1>4. \A i \in Ids : id_index[i] = o => i = word[o]
    BY <1>3 DEF Indexed, Linked
<1>5. \A b \in Linked : \E i \in Ids : id_index[i] = b /\ i = word[b]
    BY LinkedBlock
<1>6. id_index[word[o]] = o
    BY LinkedBlock
<1> QED
    BY <1>1, <1>2, <1>3, <1>4, <1>5, <1>6 DEF Linked

LEMMA LinkedInsert ==
    ASSUME Kinds, NEW i \in Ids, id_index[i] = Null, NEW o \in Blocks,
           id_index' = [id_index EXCEPT ![i] = o]
    PROVE  Linked' = Linked \cup {o}
<1>1. \A j \in Ids : id_index'[j] = IF j = i THEN o ELSE id_index[j]
    BY DEF Kinds
<1>2. \A b \in Blocks : b # Null
    BY DEF Blocks, Null
<1> QED
    BY <1>1, <1>2 DEF Linked

(* A step that moves no link. *)
LEMMA SameLists ==
    ASSUME Lists, Uncrossed, id_index' = id_index,
           \A b \in Linked :
              /\ word'[b] = word[b]
              /\ order'[b].side = order[b].side /\ order'[b].price = order[b].price
              /\ order'[b].prev = order[b].prev /\ order'[b].next = order[b].next
              /\ order'[b].qty > 0,
           \A s \in Sides, p \in Band :
              levels'[s][p].head = levels[s][p].head /\ levels'[s][p].tail = levels[s][p].tail
    PROVE  Linked' = Linked /\ Lists' /\ Uncrossed'
<1>1. Linked' = Linked
    BY DEF Linked
<1>2. Uncrossed'
    BY <1>1 DEF Uncrossed
<1>3. ASSUME NEW b \in Linked
      PROVE  WellLinked(b)'
    <2>0. WellLinked(b)
        BY DEF Lists
    <2>1. order[b].side \in Sides /\ order[b].price \in Band
        BY <2>0 DEF WellLinked
    <2>2. IF order[b].next = Null THEN levels[order[b].side][order[b].price].tail = b
          ELSE /\ order[b].next \in Linked /\ order[order[b].next].prev = b
               /\ order[order[b].next].side = order[b].side
               /\ order[order[b].next].price = order[b].price
               /\ word[b] < word[order[b].next]
        BY <2>0 DEF WellLinked
    <2>3. IF order[b].prev = Null THEN levels[order[b].side][order[b].price].head = b
          ELSE order[b].prev \in Linked /\ order[order[b].prev].next = b
        BY <2>0 DEF WellLinked
    <2> QED
        BY <1>1, <2>1, <2>2, <2>3 DEF WellLinked
<1>4. ASSUME NEW s \in Sides, NEW p \in Band
      PROVE  WellEnded(s, p)'
    <2>1. WellEnded(s, p)
        BY DEF Lists
    <2> DEFINE h == levels[s][p].head
               t == levels[s][p].tail
    <2>2. /\ h = Null <=> t = Null
          /\ h # Null => /\ h \in Linked /\ order[h].prev = Null
                         /\ order[h].side = s /\ order[h].price = p
          /\ t # Null => /\ t \in Linked /\ order[t].next = Null
                         /\ order[t].side = s /\ order[t].price = p
        BY <2>1 DEF WellEnded
    <2>3. levels'[s][p].head = h /\ levels'[s][p].tail = t
        OBVIOUS
    <2> HIDE DEF h, t
    <2>4. /\ h # Null => /\ h \in Linked /\ order'[h].prev = Null
                         /\ order'[h].side = s /\ order'[h].price = p
          /\ t # Null => /\ t \in Linked /\ order'[t].next = Null
                         /\ order'[t].side = s /\ order'[t].price = p
        BY <2>2
    <2> QED
        BY <1>1, <2>2, <2>3, <2>4 DEF WellEnded
<1>5. Lists'
    BY <1>1, <1>3, <1>4 DEF Lists
<1> QED
    BY <1>1, <1>2, <1>5

(* Neighbours of a linked block. *)
LEMMA Neighbours ==
    ASSUME Kinds, Indexed, Lists, NEW b \in Linked
    PROVE  /\ order[b].next # b /\ order[b].prev # b
           /\ order[b].next # Null =>
                 /\ order[b].next \in Linked /\ order[order[b].next].prev = b
                 /\ order[order[b].next].side = order[b].side
                 /\ order[order[b].next].price = order[b].price
                 /\ word[b] < word[order[b].next]
           /\ order[b].prev # Null =>
                 /\ order[b].prev \in Linked /\ order[order[b].prev].next = b
                 /\ order[order[b].prev].side = order[b].side
                 /\ order[order[b].prev].price = order[b].price
                 /\ word[order[b].prev] < word[b]
<1>1. /\ b \in Blocks /\ b # Null /\ word[b] \in Int
    BY LinkedBlock DEF Ids
<1>2. /\ order[b].next # Null =>
                 /\ order[b].next \in Linked /\ order[order[b].next].prev = b
                 /\ order[order[b].next].side = order[b].side
                 /\ order[order[b].next].price = order[b].price
                 /\ word[b] < word[order[b].next]
      /\ order[b].prev # Null =>
                 /\ order[b].prev \in Linked /\ order[order[b].prev].next = b
    BY DEF Lists, WellLinked
<1>3. order[b].prev # Null =>
                 /\ order[order[b].prev].side = order[b].side
                 /\ order[order[b].prev].price = order[b].price
                 /\ word[order[b].prev] < word[b]
    BY <1>1, <1>2 DEF Lists, WellLinked
<1>4. order[b].next # b /\ order[b].prev # b
    BY <1>1, <1>2, <1>3
<1> QED
    BY <1>2, <1>3, <1>4

(* What a level's list says of its own ends. *)
LEMMA Ends ==
    ASSUME Lists, NEW s \in Sides, NEW p \in Band
    PROVE  LET h == levels[s][p].head
               t == levels[s][p].tail
           IN /\ h = Null <=> t = Null
              /\ h # Null => /\ h \in Linked /\ order[h].prev = Null
                             /\ order[h].side = s /\ order[h].price = p
              /\ t # Null => /\ t \in Linked /\ order[t].next = Null
                             /\ order[t].side = s /\ order[t].price = p
<1>1. WellEnded(s, p)
    BY DEF Lists
<1> QED
    BY <1>1 DEF WellEnded

LEMMA LinkedLevel ==
    ASSUME Lists, NEW b \in Linked
    PROVE  /\ order[b].side \in Sides /\ order[b].price \in Band /\ order[b].qty > 0
           /\ order[b].next = Null => levels[order[b].side][order[b].price].tail = b
           /\ order[b].prev = Null => levels[order[b].side][order[b].price].head = b
<1>1. WellLinked(b)
    BY DEF Lists
<1> QED
    BY <1>1 DEF WellLinked

(* Taking block o out of its list, as Cancel and a whole fill both do. *)
Bypassed(o) ==
    /\ Linked' = Linked \ {o} /\ word' = word
    /\ \A b \in Linked \ {o} :
          /\ order'[b].side = order[b].side /\ order'[b].price = order[b].price
          /\ order'[b].qty = order[b].qty
          /\ order'[b].next = IF b = order[o].prev THEN order[o].next ELSE order[b].next
          /\ order'[b].prev = IF b = order[o].next THEN order[o].prev ELSE order[b].prev
    /\ \A s \in Sides, p \in Band :
          LET here == s = order[o].side /\ p = order[o].price
          IN /\ levels'[s][p].head = IF here /\ order[o].prev = Null THEN order[o].next
                                     ELSE levels[s][p].head
             /\ levels'[s][p].tail = IF here /\ order[o].next = Null THEN order[o].prev
                                     ELSE levels[s][p].tail
             /\ levels'[s][p].total_qty = IF here THEN levels[s][p].total_qty - order[o].qty
                                          ELSE levels[s][p].total_qty
             /\ levels'[s][p].order_count = IF here THEN levels[s][p].order_count - 1
                                            ELSE levels[s][p].order_count

LEMMA BypassedLists ==
    ASSUME Kinds, Indexed, Lists, Uncrossed, NEW o \in Linked, Bypassed(o)
    PROVE  Lists' /\ Uncrossed'
<1> DEFINE n == order[o].next
           v == order[o].prev
<1>1. /\ n # o /\ v # o
      /\ n # Null => /\ n \in Linked /\ order[n].prev = o
                     /\ order[n].side = order[o].side /\ order[n].price = order[o].price
                     /\ word[o] < word[n]
      /\ v # Null => /\ v \in Linked /\ order[v].next = o
                     /\ order[v].side = order[o].side /\ order[v].price = order[o].price
                     /\ word[v] < word[o]
    BY Neighbours
<1>2. ASSUME NEW b \in Linked PROVE b # Null /\ word[b] \in Int
    BY LinkedBlock DEF Ids
<1>3. /\ \A b \in Linked \ {o} :
            /\ order'[b].side = order[b].side /\ order'[b].price = order[b].price
            /\ order'[b].qty = order[b].qty
            /\ order'[b].next = IF b = v THEN n ELSE order[b].next
            /\ order'[b].prev = IF b = n THEN v ELSE order[b].prev
    BY DEF Bypassed
<1>4. ASSUME NEW s \in Sides, NEW p \in Band
      PROVE  /\ levels'[s][p].head =
                   IF s = order[o].side /\ p = order[o].price /\ v = Null THEN n
                   ELSE levels[s][p].head
             /\ levels'[s][p].tail =
                   IF s = order[o].side /\ p = order[o].price /\ n = Null THEN v
                   ELSE levels[s][p].tail
    BY DEF Bypassed
<1>5. Linked' = Linked \ {o} /\ word' = word
    BY DEF Bypassed
<1>6. /\ n = Null => levels[order[o].side][order[o].price].tail = o
      /\ v = Null => levels[order[o].side][order[o].price].head = o
    BY LinkedLevel
<1> HIDE DEF n, v
<1>7. ASSUME NEW b \in Linked, b # o
      PROVE  WellLinked(b)'
    <2> DEFINE m == order[b].next
               u == order[b].prev
               l == levels[order[b].side][order[b].price]
    <2>1. /\ m # Null => /\ m \in Linked /\ order[m].prev = b
                         /\ order[m].side = order[b].side /\ order[m].price = order[b].price
                         /\ word[b] < word[m]
          /\ u # Null => u \in Linked /\ order[u].next = b
        BY Neighbours
    <2>2. /\ order[b].side \in Sides /\ order[b].price \in Band /\ order[b].qty > 0
          /\ m = Null => l.tail = b
          /\ u = Null => l.head = b
        BY LinkedLevel
    <2>3. /\ order'[b].side = order[b].side /\ order'[b].price = order[b].price
          /\ order'[b].qty = order[b].qty
          /\ order'[b].next = IF b = v THEN n ELSE m
          /\ order'[b].prev = IF b = n THEN v ELSE u
        BY <1>3, <1>7
    <2>4. /\ levels'[order[b].side][order[b].price].head =
                IF order[b].side = order[o].side /\ order[b].price = order[o].price /\ v = Null
                THEN n ELSE l.head
          /\ levels'[order[b].side][order[b].price].tail =
                IF order[b].side = order[o].side /\ order[b].price = order[o].price /\ n = Null
                THEN v ELSE l.tail
        BY <1>4, <2>2
    <2>a. m = o => b = v
        <3>1. m = o => order[o].prev = b
            BY <1>2, <2>1
        <3> QED
            BY <3>1 DEF v
    <2>b. u = o => b = n
        <3>1. u = o => order[o].next = b
            BY <1>2, <2>1
        <3> QED
            BY <3>1 DEF n
    <2>c. l.tail = o => order[b].side = order[o].side /\ order[b].price = order[o].price /\ n = Null
        BY <1>2, <2>2, Ends DEF n
    <2>d. l.head = o => order[b].side = order[o].side /\ order[b].price = order[o].price /\ v = Null
        BY <1>2, <2>2, Ends DEF v
    <2> HIDE DEF m, u, l
    <2>5. IF order'[b].next = Null THEN levels'[order[b].side][order[b].price].tail = b
          ELSE /\ order'[b].next \in Linked \ {o} /\ order'[order'[b].next].prev = b
               /\ order'[order'[b].next].side = order[b].side
               /\ order'[order'[b].next].price = order[b].price
               /\ word[b] < word[order'[b].next]
        <3>1. CASE b = v
            <4>1. /\ order[b].side = order[o].side /\ order[b].price = order[o].price
                  /\ word[b] < word[o] /\ b # Null
                BY <1>1, <1>2, <3>1
            <4>2. n = Null => levels'[order[b].side][order[b].price].tail = b
                BY <2>4, <4>1, <3>1
            <4>3. n # Null => /\ n \in Linked \ {o} /\ order'[n].prev = b
                              /\ order'[n].side = order[b].side /\ order'[n].price = order[b].price
                              /\ word[b] < word[n]
                BY <1>1, <1>2, <1>3, <3>1, <4>1
            <4>4. order'[b].next = n
                BY <2>3, <3>1
            <4> QED
                BY <4>2, <4>3, <4>4
        <3>2. CASE b # v
            <4>1. order'[b].next = m
                BY <2>3, <3>2
            <4>2. m = Null => levels'[order[b].side][order[b].price].tail = b
                BY <1>6, <1>7, <2>2, <2>4 DEF l
            <4>3. m # Null => /\ m \in Linked \ {o} /\ order'[m].prev = b
                              /\ order'[m].side = order[b].side /\ order'[m].price = order[b].price
                              /\ word[b] < word[m]
                BY <1>1, <1>2, <1>3, <1>7, <2>1, <2>a, <3>2
            <4> QED
                BY <4>1, <4>2, <4>3
        <3> QED
            BY <3>1, <3>2
    <2>6. IF order'[b].prev = Null THEN levels'[order[b].side][order[b].price].head = b
          ELSE order'[b].prev \in Linked \ {o} /\ order'[order'[b].prev].next = b
        <3>1. CASE b = n
            <4>1. order[b].side = order[o].side /\ order[b].price = order[o].price /\ b # Null
                BY <1>1, <1>2, <3>1
            <4>2. v = Null => levels'[order[b].side][order[b].price].head = b
                BY <2>4, <4>1, <3>1
            <4>3. v # Null => v \in Linked \ {o} /\ order'[v].next = b
                BY <1>1, <1>3, <3>1
            <4>4. order'[b].prev = v
                BY <2>3, <3>1
            <4> QED
                BY <4>2, <4>3, <4>4
        <3>2. CASE b # n
            <4>1. order'[b].prev = u
                BY <2>3, <3>2
            <4>2. u = Null => levels'[order[b].side][order[b].price].head = b
                BY <1>6, <1>7, <2>2, <2>4 DEF l
            <4>3. u # Null => u \in Linked \ {o} /\ order'[u].next = b
                BY <1>1, <1>2, <1>3, <1>7, <2>1, <2>b, <3>2
            <4> QED
                BY <4>1, <4>2, <4>3
        <3> QED
            BY <3>1, <3>2
    <2> QED
        BY <1>5, <2>2, <2>3, <2>5, <2>6 DEF WellLinked
<1>8. ASSUME NEW s \in Sides, NEW p \in Band
      PROVE  WellEnded(s, p)'
    <2> DEFINE h == levels[s][p].head
               t == levels[s][p].tail
    <2>1. /\ h = Null <=> t = Null
          /\ h # Null => /\ h \in Linked /\ order[h].prev = Null
                         /\ order[h].side = s /\ order[h].price = p
          /\ t # Null => /\ t \in Linked /\ order[t].next = Null
                         /\ order[t].side = s /\ order[t].price = p
        BY Ends
    <2>2. /\ levels'[s][p].head =
                IF s = order[o].side /\ p = order[o].price /\ v = Null THEN n ELSE h
          /\ levels'[s][p].tail =
                IF s = order[o].side /\ p = order[o].price /\ n = Null THEN v ELSE t
        BY <1>4
    <2>3. h = o => s = order[o].side /\ p = order[o].price /\ v = Null
        BY <1>2, <2>1 DEF v
    <2>4. t = o => s = order[o].side /\ p = order[o].price /\ n = Null
        BY <1>2, <2>1 DEF n
    <2>5. /\ n = Null /\ s = order[o].side /\ p = order[o].price => t = o
          /\ v = Null /\ s = order[o].side /\ p = order[o].price => h = o
        BY <1>6
    <2> HIDE DEF h, t
    <2>6. levels'[s][p].head = Null <=> levels'[s][p].tail = Null
        BY <1>2, <2>1, <2>2, <2>5
    <2>7. levels'[s][p].head # Null =>
            LET x == levels'[s][p].head IN
            /\ x \in Linked \ {o} /\ order'[x].prev = Null
            /\ order'[x].side = s /\ order'[x].price = p
        <3>1. CASE s = order[o].side /\ p = order[o].price /\ v = Null
            BY <1>1, <1>3, <2>2, <3>1
        <3>2. CASE ~(s = order[o].side /\ p = order[o].price /\ v = Null)
            <4>1. levels'[s][p].head = h /\ h # o
                BY <2>2, <2>3, <3>2
            <4>2. h # Null => h # n
                BY <1>1, <1>2, <2>1
            <4> QED
                BY <1>3, <2>1, <4>1, <4>2
        <3> QED
            BY <3>1, <3>2
    <2>8. levels'[s][p].tail # Null =>
            LET x == levels'[s][p].tail IN
            /\ x \in Linked \ {o} /\ order'[x].next = Null
            /\ order'[x].side = s /\ order'[x].price = p
        <3>1. CASE s = order[o].side /\ p = order[o].price /\ n = Null
            BY <1>1, <1>3, <2>2, <3>1
        <3>2. CASE ~(s = order[o].side /\ p = order[o].price /\ n = Null)
            <4>1. levels'[s][p].tail = t /\ t # o
                BY <2>2, <2>4, <3>2
            <4>2. t # Null => t # v
                BY <1>1, <1>2, <2>1
            <4> QED
                BY <1>3, <2>1, <4>1, <4>2
        <3> QED
            BY <3>1, <3>2
    <2> QED
        BY <1>5, <2>6, <2>7, <2>8 DEF WellEnded
<1>9. Lists'
    BY <1>5, <1>7, <1>8 DEF Lists
<1>10. Uncrossed'
    BY <1>3, <1>5 DEF Uncrossed
<1> QED
    BY <1>9, <1>10

(* Appending block o to a level's list, as Rest does. *)
Appended(o, side, px, id) ==
    LET last == levels[side][px].tail IN
    /\ Linked' = Linked \cup {o}
    /\ word'[o] = id /\ \A b \in Linked : word'[b] = word[b]
    /\ order'[o].side = side /\ order'[o].price = px /\ order'[o].qty > 0
    /\ order'[o].prev = last /\ order'[o].next = Null
    /\ \A b \in Linked :
          /\ order'[b].side = order[b].side /\ order'[b].price = order[b].price
          /\ order'[b].qty = order[b].qty /\ order'[b].prev = order[b].prev
          /\ order'[b].next = IF b = last THEN o ELSE order[b].next
    /\ \A s \in Sides, p \in Band :
          LET here == s = side /\ p = px
          IN /\ levels'[s][p].head = IF here /\ last = Null THEN o ELSE levels[s][p].head
             /\ levels'[s][p].tail = IF here THEN o ELSE levels[s][p].tail
             /\ levels'[s][p].total_qty = IF here THEN levels[s][p].total_qty + order'[o].qty
                                          ELSE levels[s][p].total_qty
             /\ levels'[s][p].order_count = IF here THEN levels[s][p].order_count + 1
                                            ELSE levels[s][p].order_count

LEMMA AppendedLists ==
    ASSUME Kinds, Indexed, Lists, NEW o \in Blocks, o \notin Linked,
           NEW side \in Sides, NEW px \in Band, NEW id, Appended(o, side, px, id),
           \A b \in Linked : word[b] < id
    PROVE  Lists'
<1> DEFINE last == levels[side][px].tail
<1>1. /\ Linked' = Linked \cup {o}
      /\ word'[o] = id /\ \A b \in Linked : word'[b] = word[b]
      /\ order'[o].side = side /\ order'[o].price = px /\ order'[o].qty > 0
      /\ order'[o].prev = last /\ order'[o].next = Null
    BY DEF Appended
<1>2. \A b \in Linked :
          /\ order'[b].side = order[b].side /\ order'[b].price = order[b].price
          /\ order'[b].qty = order[b].qty /\ order'[b].prev = order[b].prev
          /\ order'[b].next = IF b = last THEN o ELSE order[b].next
    BY DEF Appended
<1>3. ASSUME NEW s \in Sides, NEW p \in Band
      PROVE  /\ levels'[s][p].head = IF s = side /\ p = px /\ last = Null THEN o
                                     ELSE levels[s][p].head
             /\ levels'[s][p].tail = IF s = side /\ p = px THEN o ELSE levels[s][p].tail
    BY DEF Appended
<1>4. /\ last # Null => /\ last \in Linked /\ order[last].next = Null
                        /\ order[last].side = side /\ order[last].price = px
      /\ levels[side][px].head = Null <=> last = Null
    BY Ends
<1>5. o # Null /\ \A b \in Linked : b # Null /\ b # o
    BY LinkedBlock DEF Blocks, Null
<1> HIDE DEF last
<1>6. ASSUME NEW b \in Linked
      PROVE  WellLinked(b)'
    <2> DEFINE m == order[b].next
               u == order[b].prev
               l == levels[order[b].side][order[b].price]
    <2>1. /\ m # Null => /\ m \in Linked /\ order[m].prev = b
                         /\ order[m].side = order[b].side /\ order[m].price = order[b].price
                         /\ word[b] < word[m]
          /\ u # Null => u \in Linked /\ order[u].next = b
        BY Neighbours
    <2>2. /\ order[b].side \in Sides /\ order[b].price \in Band /\ order[b].qty > 0
          /\ m = Null => l.tail = b
          /\ u = Null => l.head = b
        BY LinkedLevel
    <2>3. /\ order'[b].side = order[b].side /\ order'[b].price = order[b].price
          /\ order'[b].qty = order[b].qty /\ order'[b].prev = u
          /\ order'[b].next = IF b = last THEN o ELSE m
        BY <1>2
    <2>4. /\ levels'[order[b].side][order[b].price].head =
                IF order[b].side = side /\ order[b].price = px /\ last = Null
                THEN o ELSE l.head
          /\ levels'[order[b].side][order[b].price].tail =
                IF order[b].side = side /\ order[b].price = px THEN o ELSE l.tail
        BY <1>3, <2>2
    <2>5. order[b].side = side /\ order[b].price = px => l.tail = last
        BY DEF last
    <2>6. order[b].side = side /\ order[b].price = px => (l.head = Null <=> last = Null)
        BY <1>4
    <2>a. word[b] < id
        OBVIOUS
    <2> HIDE DEF m, u, l
    <2>7. IF order'[b].next = Null THEN levels'[order[b].side][order[b].price].tail = b
          ELSE /\ order'[b].next \in Linked \cup {o} /\ order'[order'[b].next].prev = b
               /\ order'[order'[b].next].side = order[b].side
               /\ order'[order'[b].next].price = order[b].price
               /\ word'[b] < word'[order'[b].next]
        <3>1. CASE b = last
            BY <1>1, <1>4, <1>5, <2>3, <2>a, <3>1
        <3>2. CASE b # last
            <4>1. order'[b].next = m
                BY <2>3, <3>2
            <4>2. m = Null => levels'[order[b].side][order[b].price].tail = b
                BY <2>2, <2>4, <2>5, <3>2
            <4>3. m # Null => /\ m \in Linked /\ order'[m].prev = b
                              /\ order'[m].side = order[b].side /\ order'[m].price = order[b].price
                              /\ word'[b] < word'[m]
                BY <1>1, <1>2, <2>1
            <4> QED
                BY <4>1, <4>2, <4>3
        <3> QED
            BY <3>1, <3>2
    <2>8. IF order'[b].prev = Null THEN levels'[order[b].side][order[b].price].head = b
          ELSE order'[b].prev \in Linked \cup {o} /\ order'[order'[b].prev].next = b
        <3>1. u = Null => levels'[order[b].side][order[b].price].head = b
            BY <1>5, <2>2, <2>4, <2>6
        <3>2. u # Null => u # last
            BY <1>4, <1>5, <2>1
        <3>3. u # Null => u \in Linked /\ order'[u].next = b
            BY <1>2, <2>1, <3>2
        <3> QED
            BY <2>3, <3>1, <3>3
    <2> QED
        BY <1>1, <2>2, <2>3, <2>7, <2>8 DEF WellLinked
<1>7. WellLinked(o)'
    <2>1. levels'[side][px].tail = o
        BY <1>3
    <2>2. last = Null => levels'[side][px].head = o
        BY <1>3
    <2>3. last # Null => last \in Linked' /\ order'[last].next = o
        BY <1>1, <1>2, <1>4
    <2> QED
        BY <1>1, <2>1, <2>2, <2>3 DEF WellLinked
<1>8. ASSUME NEW s \in Sides, NEW p \in Band
      PROVE  WellEnded(s, p)'
    <2> DEFINE h == levels[s][p].head
               t == levels[s][p].tail
    <2>1. /\ h = Null <=> t = Null
          /\ h # Null => /\ h \in Linked /\ order[h].prev = Null
                         /\ order[h].side = s /\ order[h].price = p
          /\ t # Null => /\ t \in Linked /\ order[t].next = Null
                         /\ order[t].side = s /\ order[t].price = p
        BY Ends
    <2>2. /\ levels'[s][p].head = IF s = side /\ p = px /\ last = Null THEN o ELSE h
          /\ levels'[s][p].tail = IF s = side /\ p = px THEN o ELSE t
        BY <1>3
    <2>3. s = side /\ p = px => t = last
        BY DEF last
    <2> HIDE DEF h, t
    <2>4. levels'[s][p].head = Null <=> levels'[s][p].tail = Null
        BY <1>5, <2>1, <2>2, <2>3
    <2>5. levels'[s][p].head # Null =>
            LET x == levels'[s][p].head IN
            /\ x \in Linked \cup {o} /\ order'[x].prev = Null
            /\ order'[x].side = s /\ order'[x].price = p
        BY <1>1, <1>2, <2>1, <2>2
    <2>6. levels'[s][p].tail # Null =>
            LET x == levels'[s][p].tail IN
            /\ x \in Linked \cup {o} /\ order'[x].next = Null
            /\ order'[x].side = s /\ order'[x].price = p
        <3>1. CASE s = side /\ p = px
            BY <1>1, <2>2, <3>1
        <3>2. CASE ~(s = side /\ p = px)
            <4>1. t # Null => t # last
                BY <1>4, <2>1, <3>2
            <4> QED
                BY <1>2, <2>1, <2>2, <3>2, <4>1
        <3> QED
            BY <3>1, <3>2
    <2> QED
        BY <1>1, <2>4, <2>5, <2>6 DEF WellEnded
<1> QED
    BY <1>1, <1>6, <1>7, <1>8 DEF Lists

---------------------------------------------------------------------------
(* The touch. *)

BestOf(s, S, best) ==
    S # {} => best \in S /\ \A p \in S : p = best \/ Worse(s, p, best)

LEMMA BandFinite ==
    ASSUME NEW S, S \subseteq Band
    PROVE  /\ IsFiniteSet(S) /\ Cardinality(S) \in Nat
           /\ Cardinality(S) = 0 <=> S = {}
<1>1. IsFiniteSet(Band)
    BY FS_Interval DEF Band
<1>2. IsFiniteSet(S)
    BY <1>1, FS_Subset
<1> QED
    BY <1>2, FS_CardinalityType, FS_EmptySet

LEMMA TouchLive ==
    ASSUME NEW s \in Sides, NEW S, S \subseteq Band, NEW px \in Band, px \notin S,
           NEW best \in Int, BestOf(s, S, best)
    PROVE  /\ Cardinality(S) + 1 = Cardinality(S \cup {px})
           /\ BestOf(s, S \cup {px},
                     IF Cardinality(S) = 0 \/ (IF s = "buy" THEN px > best ELSE px < best)
                     THEN px ELSE best)
<1>1. Cardinality(S \cup {px}) = Cardinality(S) + 1 /\ (Cardinality(S) = 0 <=> S = {})
    BY BandFinite, FS_AddElement
<1>2. px \in Int /\ \A p \in S : p \in Int
    BY DEF Band
<1>3. CASE S = {}
    BY <1>1, <1>3 DEF BestOf
<1>4. CASE S # {}
    <2>1. best \in S /\ \A p \in S : p = best \/ Worse(s, p, best)
        BY <1>4 DEF BestOf
    <2>2. best # px
        BY <2>1
    <2>3. CASE IF s = "buy" THEN px > best ELSE px < best
        <3>1. \A p \in S : Worse(s, p, px)
            BY <1>2, <2>1, <2>3 DEF Worse
        <3> QED
            BY <1>1, <2>3, <3>1 DEF BestOf
    <2>4. CASE ~(IF s = "buy" THEN px > best ELSE px < best)
        <3>1. Worse(s, px, best)
            BY <1>2, <2>2, <2>4 DEF Worse
        <3> QED
            BY <1>1, <1>4, <2>1, <2>4, <3>1 DEF BestOf
    <2> QED
        BY <2>3, <2>4
<1> QED
    BY <1>3, <1>4

LEMMA TouchEmptied ==
    ASSUME NEW s \in Sides, NEW S, S \subseteq Band, NEW px \in S,
           NEW best \in Int, BestOf(s, S, best),
           NEW ladder, S \ {px} = { p \in Band : ladder[p].head # Null }
    PROVE  /\ Cardinality(S) - 1 = Cardinality(S \ {px})
           /\ BestOf(s, S \ {px},
                     IF Cardinality(S) > 1 /\ px = best THEN NextPopulated(s, px, ladder)
                     ELSE best)
           /\ (IF Cardinality(S) > 1 /\ px = best THEN NextPopulated(s, px, ladder)
               ELSE best) \in Int
<1> DEFINE T == S \ {px}
           c == Cardinality(S)
<1>1. T \subseteq Band /\ Cardinality(T) = c - 1
    BY BandFinite, FS_RemoveElement
<1>2. c \in Nat /\ (Cardinality(T) = 0 <=> T = {})
    BY <1>1, BandFinite
<1>3. T # {} => c > 1
    <2>1. c - 1 = 0 <=> T = {}
        BY <1>1, <1>2
    <2>2. c # 0
        BY BandFinite
    <2> QED
        BY <1>2, <2>1, <2>2
<1>4. best \in S /\ \A p \in S : p = best \/ Worse(s, p, best)
    BY DEF BestOf
<1>5. \A p \in S : p \in Int
    BY DEF Band
<1>6. CASE px # best
    BY <1>1, <1>4, <1>6 DEF BestOf
<1>7. CASE px = best /\ T # {}
    <2> DEFINE P(p) == /\ Worse(s, p, px) /\ ladder[p].head # Null
                       /\ \A q \in Band : Worse(s, q, px) /\ Worse(s, p, q) => ladder[q].head = Null
    <2>1. PICK p \in T : \A q \in T : q = p \/ Worse(s, q, p)
        BY <1>1, <1>7, BestOfSome
    <2>2. \A q \in T : ~Worse(s, p, q)
        BY <1>5, <2>1 DEF Worse
    <2>3. p \in Band /\ Worse(s, p, px) /\ ladder[p].head # Null
        BY <1>1, <1>4, <1>7
    <2>4. P(p)
        BY <2>2, <2>3
    <2> DEFINE n == NextPopulated(s, px, ladder)
    <2>5. n \in Band /\ P(n)
        BY <2>3, <2>4 DEF NextPopulated
    <2> HIDE DEF n
    <2>6. n \in T
        BY <2>5
    <2>7. \A q \in T : ~Worse(s, n, q)
        <3> TAKE q \in T
        <3>1. Worse(s, q, px) /\ q \in Band /\ ladder[q].head # Null
            BY <1>1, <1>4, <1>7
        <3> QED
            BY <2>5, <3>1
    <2>8. \A q \in T : q = n \/ Worse(s, q, n)
        BY <1>5, <2>6, <2>7 DEF Worse
    <2>9. BestOf(s, T, n)
        BY <2>6, <2>8 DEF BestOf
    <2>10. n \in Int
        BY <1>5, <2>6
    <2> QED
        BY <1>1, <1>3, <1>7, <2>9, <2>10 DEF n
<1>8. CASE T = {}
    <2>1. ~(c > 1)
        BY <1>1, <1>2, <1>8
    <2> QED
        BY <1>1, <1>8, <2>1 DEF BestOf
<1> QED
    BY <1>6, <1>7, <1>8

---------------------------------------------------------------------------
(* Free, linked and held blocks: what each slab call and each change of    *)
(* lists does to the partition.                                            *)

Parted(st, fh, w, L, H, n) ==
    /\ Threaded(st, fh, w)
    /\ L \cap Elems(st) = {} /\ H \cap (L \cup Elems(st)) = {}
    /\ L \cup Elems(st) \cup H = Blocks
    /\ n = Cardinality(L \cup H)

LEMMA Partition == BlocksPartitioned <=> Parted(stack, free_head, word, Linked, Held, in_use)
    BY ThreadedIsChain, FreeIsElems DEF BlocksPartitioned, Parted

LEMMA PartitionPrimed ==
    BlocksPartitioned' <=> Parted(stack', free_head', word', Linked', Held', in_use')
<1>1. Slab!ChainIsStack' <=> Threaded(stack', free_head', word')
    BY DEF Slab!ChainIsStack, Threaded, Slab!Null, Null
<1>2. Slab!FreeBlocks' = Elems(stack')
    BY DEF Slab!FreeBlocks, Elems
<1> QED
    BY <1>1, <1>2 DEF BlocksPartitioned, Parted

LEMMA BlocksFinite ==
    ASSUME NEW S, S \subseteq Blocks
    PROVE  IsFiniteSet(S) /\ Cardinality(S) \in Nat /\ Cardinality(S) =< Capacity
<1>1. IsFiniteSet(Blocks) /\ Cardinality(Blocks) = Capacity
    BY FS_Interval DEF Blocks
<1>2. IsFiniteSet(S) /\ Cardinality(S) =< Capacity
    BY <1>1, FS_Subset
<1> QED
    BY <1>2, FS_CardinalityType

LEMMA PartedTake ==
    ASSUME NEW st \in Seq(Blocks), NEW fh, NEW w \in [Blocks -> Int], NEW L, NEW n,
           Parted(st, fh, w, L, {}, n), fh # Null
    PROVE  /\ fh \in Blocks /\ Tail(st) \in Seq(Blocks)
           /\ Parted(Tail(st), w[fh], w, L, {fh}, n + 1)
<1>1. /\ fh \in Elems(st) /\ Tail(st) \in Seq(Blocks)
      /\ Threaded(Tail(st), w[fh], w) /\ Elems(Tail(st)) = Elems(st) \ {fh}
    BY ThreadedPop DEF Parted
<1>2. Elems(st) \subseteq Blocks
    BY SeqFacts
<1>3. L \subseteq Blocks /\ fh \notin L /\ n = Cardinality(L)
    BY <1>1 DEF Parted
<1>4. Cardinality(L \cup {fh}) = n + 1
    BY <1>3, BlocksFinite, FS_AddElement
<1> QED
    BY <1>1, <1>2, <1>3, <1>4 DEF Parted

LEMMA PartedFree ==
    ASSUME NEW st \in Seq(Blocks), NEW fh, NEW w \in [Blocks -> Int], NEW L, NEW n,
           NEW o \in Blocks, Parted(st, fh, w, L, {o}, n)
    PROVE  /\ <<o>> \o st \in Seq(Blocks)
           /\ Parted(<<o>> \o st, o, [w EXCEPT ![o] = fh], L, {}, n - 1)
<1>1. o \notin Elems(st) /\ o \notin L /\ Threaded(st, fh, w)
    BY DEF Parted
<1>2. /\ <<o>> \o st \in Seq(Blocks) /\ Elems(<<o>> \o st) = Elems(st) \cup {o}
      /\ Threaded(<<o>> \o st, o, [w EXCEPT ![o] = fh])
    BY <1>1, ThreadedPush
<1>3. L \subseteq Blocks /\ n = Cardinality(L \cup {o})
    BY DEF Parted
<1>4. Cardinality(L) \in Nat /\ Cardinality(L \cup {o}) = Cardinality(L) + 1
    BY <1>1, <1>3, BlocksFinite, FS_AddElement
<1>5. n - 1 = Cardinality(L \cup {})
    BY <1>3, <1>4
<1> QED
    BY <1>1, <1>2, <1>5 DEF Parted

LEMMA PartedHold ==
    ASSUME NEW st, NEW fh, NEW w, NEW L, NEW n, Parted(st, fh, w, L, {}, n), NEW o \in L
    PROVE  Parted(st, fh, w, L \ {o}, {o}, n)
<1>1. (L \ {o}) \cup {o} = L \cup {}
    OBVIOUS
<1> QED
    BY <1>1 DEF Parted

LEMMA PartedLink ==
    ASSUME NEW st \in Seq(Blocks), NEW fh, NEW w \in [Blocks -> Int], NEW L, NEW n,
           NEW o \in Blocks, Parted(st, fh, w, L, {o}, n), NEW id
    PROVE  Parted(st, fh, [w EXCEPT ![o] = id], L \cup {o}, {}, n)
<1>1. o \notin Elems(st) /\ Threaded(st, fh, w)
    BY DEF Parted
<1>2. Threaded(st, fh, [w EXCEPT ![o] = id])
    BY <1>1, ThreadedWrite
<1>3. (L \cup {o}) \cup {} = L \cup {o}
    OBVIOUS
<1> QED
    BY <1>1, <1>2, <1>3 DEF Parted

---------------------------------------------------------------------------
(* Inv holds initially. *)

LEMMA InitInv == Init => Inv
<1> SUFFICES ASSUME Init PROVE Inv
    OBVIOUS
<1> USE DEF Null
<1>1. /\ free_head = Capacity /\ word = [b \in Blocks |-> b - 1] /\ in_use = 0
      /\ stack = [i \in 1 .. Capacity |-> Capacity + 1 - i]
    BY DEF Init, Slab!Init, Slab!Blocks, Blocks
<1>2. Sides = {"buy", "sell"} /\ Band \subseteq Int
    BY DEF Sides, Book!Sides, Band
<1>3. Kinds
    <2>1. stack \in Seq(Blocks)
        <3>1. \A i \in 1 .. Capacity : Capacity + 1 - i \in Blocks
            BY DEF Blocks
        <3>2. stack \in [1 .. Capacity -> Blocks]
            BY <1>1, <3>1
        <3> QED
            BY <3>2
    <2>2. /\ free_head \in 0 .. Capacity /\ word \in [Blocks -> Int] /\ in_use \in Int
        BY <1>1 DEF Blocks
    <2>3. order \in [Blocks -> [price : Int, qty : Int, side : Sides \cup {"stale"},
                             prev : 0 .. Capacity, next : 0 .. Capacity]]
        BY DEF Init, Stale
    <2>4. levels \in [Sides -> [Band -> [head : 0 .. Capacity, tail : 0 .. Capacity,
                                      total_qty : Int, order_count : Int]]]
        BY DEF Init, EmptyLevel
    <2>5. /\ best_px \in [Sides -> Int] /\ live_levels \in [Sides -> Int]
          /\ id_index \in [Ids -> 0 .. Capacity]
          /\ next_id \in 1 .. MaxOrders + 1
        BY DEF Init
    <2> QED
        BY <2>1, <2>2, <2>3, <2>4, <2>5 DEF Kinds
<1>4. OneCall
    BY DEF Init, OneCall
<1>5. Indexed
    BY DEF Init, Indexed
<1>6. Linked = {}
    BY DEF Init, Linked, Blocks
<1>7. \A s \in Sides, p \in Band : levels[s][p].head = Null /\ levels[s][p].tail = Null
    BY DEF Init, EmptyLevel
<1>8. Lists
    BY <1>6, <1>7 DEF Lists, WellEnded
<1>9. Uncrossed
    BY <1>6 DEF Uncrossed
<1>10. Touch
    <2>1. pc = "idle"
        BY DEF Init
    <2>2. \A s \in Sides : Counted(s) = {} /\ live_levels[s] = 0
        BY <1>7, <2>1 DEF Counted, Populated, Init
    <2> QED
        BY <2>2, FS_EmptySet DEF Touch
<1>11. Parted(stack, free_head, word, Linked, Held, in_use)
    <2>1. Held = {}
        BY DEF Held, Init
    <2>2. Len(stack) = Capacity /\ \A i \in 1 .. Capacity : stack[i] = Capacity + 1 - i
        BY <1>1
    <2>3. Elems(stack) = Blocks
        <3>1. \A b \in Blocks : Capacity + 1 - b \in 1 .. Capacity /\ stack[Capacity + 1 - b] = b
            BY <2>2 DEF Blocks
        <3>2. \A i \in 1 .. Capacity : stack[i] \in Blocks
            BY <2>2 DEF Blocks
        <3> QED
            BY <2>2, <3>1, <3>2 DEF Elems
    <2>4. free_head = IF stack = <<>> THEN Null ELSE stack[1]
        <3>1. stack = <<>> <=> Capacity = 0
            BY <1>3, <2>2, SeqFacts DEF Kinds
        <3> QED
            BY <1>1, <2>2, <3>1
    <2>5. \A i \in 1 .. Capacity : word[stack[i]] = IF i = Capacity THEN Null ELSE stack[i + 1]
        <3> TAKE i \in 1 .. Capacity
        <3>1. stack[i] = Capacity + 1 - i /\ Capacity + 1 - i \in Blocks
            BY <2>2 DEF Blocks
        <3>2. word[stack[i]] = Capacity - i
            BY <1>1, <3>1
        <3>3. i # Capacity => stack[i + 1] = Capacity - i
            BY <2>2
        <3> QED
            BY <3>2, <3>3
    <2>6. \A i, j \in 1 .. Capacity : stack[i] = stack[j] => i = j
        BY <2>2
    <2>7. Threaded(stack, free_head, word)
        BY <2>2, <2>4, <2>5, <2>6 DEF Threaded
    <2> QED
        BY <1>1, <1>6, <2>1, <2>3, <2>7, FS_EmptySet DEF Parted
<1>12. BlocksPartitioned
    BY <1>11, Partition
<1> QED
    BY <1>3, <1>4, <1>5, <1>8, <1>9, <1>10, <1>12 DEF Inv

---------------------------------------------------------------------------
(* The call in progress. *)

LEMMA NextIs ==
    OneCall => IF pc \in {"match", "reclaim", "link"}
               THEN taker # Book!NoTaker /\ NextToRest = taker.id
               ELSE taker = Book!NoTaker /\ NextToRest = next_id
<1> SUFFICES ASSUME OneCall
             PROVE  IF pc \in {"match", "reclaim", "link"}
                    THEN taker # Book!NoTaker /\ NextToRest = taker.id
                    ELSE taker = Book!NoTaker /\ NextToRest = next_id
    OBVIOUS
<1>1. pc \in {"match", "reclaim", "link"} => taker.id \in Ids
    BY DEF OneCall
<1>2. Book!NoTaker.id = 0 /\ 0 \notin Ids
    BY DEF Book!NoTaker, Ids
<1>3. pc \in {"match", "reclaim", "link"} => taker # Book!NoTaker
    BY <1>1, <1>2
<1> QED
    BY <1>3 DEF OneCall, NextToRest

LEMMA NextIsPrimed ==
    OneCall' => IF pc' \in {"match", "reclaim", "link"}
                THEN taker' # Book!NoTaker /\ NextToRest' = taker'.id
                ELSE taker' = Book!NoTaker /\ NextToRest' = next_id'
<1> SUFFICES ASSUME OneCall'
             PROVE  IF pc' \in {"match", "reclaim", "link"}
                    THEN taker' # Book!NoTaker /\ NextToRest' = taker'.id
                    ELSE taker' = Book!NoTaker /\ NextToRest' = next_id'
    OBVIOUS
<1>1. pc' \in {"match", "reclaim", "link"} => taker'.id \in Ids
    BY DEF OneCall
<1>2. Book!NoTaker.id = 0 /\ 0 \notin Ids
    BY DEF Book!NoTaker, Ids
<1>3. pc' \in {"match", "reclaim", "link"} => taker' # Book!NoTaker
    BY <1>1, <1>2
<1> QED
    BY <1>3 DEF OneCall, NextToRest

(* The order a taker trades with is the first of the best level. *)
LEMMA Maker ==
    ASSUME Inv, pc = "match", Crossing
    PROVE  LET side == Opp(taker.side)
               px == best_px[side]
               maker == levels[side][px].head
           IN /\ side \in Sides /\ px \in Band /\ px \in Populated(side)
              /\ maker \in Linked /\ maker \in Blocks
              /\ order[maker].side = side /\ order[maker].price = px
              /\ order[maker].prev = Null /\ order[maker].qty > 0
              /\ taker.side \in Sides /\ taker.remaining \in Nat
<1> DEFINE side == Opp(taker.side)
           px == best_px[side]
           maker == levels[side][px].head
<1>1. side \in Sides /\ taker.side \in Sides /\ taker.remaining \in Nat
    BY DEF Inv, OneCall, Opp, Book!Opp, Sides, Book!Sides
<1>2. live_levels[side] > 0
    BY DEF Crossing
<1> HIDE DEF side
<1>3. Counted(side) = Populated(side)
    BY DEF Counted
<1>4. Populated(side) # {} /\ Populated(side) \subseteq Band
    BY <1>1, <1>2, <1>3, FS_EmptySet DEF Inv, Touch
<1>5. px \in Populated(side)
    BY <1>1, <1>3, <1>4 DEF Inv, Touch
<1>6. px \in Band /\ maker # Null
    BY <1>5 DEF Populated
<1>7. maker \in Linked /\ order[maker].side = side /\ order[maker].price = px
         /\ order[maker].prev = Null
    BY <1>1, <1>6, Ends DEF Inv
<1>8. maker \in Blocks /\ order[maker].qty > 0
    BY <1>7, LinkedLevel, LinkedBlock DEF Inv
<1> QED
    BY <1>1, <1>5, <1>6, <1>7, <1>8 DEF side

---------------------------------------------------------------------------
(* Steps that only begin or end a call. *)

LEMMA LightStep ==
    ASSUME Inv, pc \in {"idle", "match"}, pc' \in {"idle", "match"},
           UNCHANGED <<free_head, word, in_use, stack, order, ladderVars, id_index, victim>>,
           OneCall', next_id' \in 1 .. MaxOrders + 1, NextToRest' >= NextToRest,
           NextToRest \in Int, NextToRest' \in Int
    PROVE  Inv'
<1>0. Kinds /\ OneCall /\ Indexed /\ Lists /\ Touch /\ Uncrossed /\ BlocksPartitioned
    BY DEF Inv
<1>1. Kinds'
    BY <1>0 DEF Kinds, ladderVars
<1>2. Indexed'
    BY <1>0 DEF Indexed, Ids
<1>3. \A b \in Linked : order'[b].qty > 0
    BY <1>0, LinkedLevel
<1>4. Linked' = Linked /\ Lists' /\ Uncrossed'
    BY <1>0, <1>3, SameLists DEF ladderVars
<1>5. \A s \in Sides : Counted(s)' = Counted(s)
    BY DEF Counted, Populated, ladderVars
<1>6. Touch'
    BY <1>0, <1>5 DEF Touch, ladderVars
<1>7. Held' = Held
    BY DEF Held
<1>8. BlocksPartitioned'
    BY <1>0, <1>4, <1>7, Partition, PartitionPrimed
<1> QED
    BY <1>1, <1>2, <1>4, <1>6, <1>8 DEF Inv

LEMMA AddLimitStep ==
    ASSUME Inv, NEW side \in Sides, NEW px \in Prices, NEW qty \in Quantities,
           AddLimit(side, px, qty)
    PROVE  Inv'
<1>1. Kinds /\ OneCall
    BY DEF Inv
<1>2. pc = "idle" /\ pc' = "match" /\ next_id =< MaxOrders /\ next_id' = next_id + 1
    BY DEF AddLimit
<1>3. next_id \in 1 .. MaxOrders + 1
    BY <1>1 DEF Kinds
<1>4. next_id \in Ids /\ next_id' \in 1 .. MaxOrders + 1 /\ next_id < next_id'
    BY <1>2, <1>3 DEF Ids
<1>5. taker' \in [id : Ids, side : Sides, price : Int, remaining : Nat] /\ taker'.id = next_id
    BY <1>4 DEF AddLimit
<1>6. victim = Null /\ victim' = Null
    BY <1>1, <1>2 DEF OneCall, AddLimit
<1>7. OneCall'
    BY <1>2, <1>4, <1>5, <1>6 DEF OneCall
<1>8. NextToRest = next_id /\ NextToRest' = next_id
    BY <1>1, <1>2, <1>5, <1>7, NextIs, NextIsPrimed
<1>9. UNCHANGED <<free_head, word, in_use, stack, order, ladderVars, id_index, victim>>
    BY DEF AddLimit, slabVars
<1>10. next_id \in Int
    BY <1>3
<1> QED
    BY <1>2, <1>4, <1>7, <1>8, <1>9, <1>10, LightStep

LEMMA ReturnStep ==
    ASSUME Inv, pc = "match", NEW kind, Return(kind),
           UNCHANGED <<free_head, word, in_use, stack, order, ladderVars, id_index, victim,
                       next_id>>
    PROVE  Inv'
<1>1. Kinds /\ OneCall
    BY DEF Inv
<1>2. pc' = "idle" /\ taker' = Book!NoTaker
    BY DEF Return
<1>3. victim = Null /\ victim' = Null
    BY <1>1 DEF OneCall
<1>4. OneCall'
    BY <1>2, <1>3 DEF OneCall
<1>5. taker.id \in Int /\ taker.id < next_id /\ next_id \in 1 .. MaxOrders + 1
    BY <1>1 DEF OneCall, Ids, Kinds
<1>6. NextToRest = taker.id /\ NextToRest' = next_id
    BY <1>1, <1>2, <1>4, NextIs, NextIsPrimed
<1>7. next_id \in Int /\ next_id >= taker.id
    BY <1>5
<1> QED
    BY <1>2, <1>4, <1>5, <1>6, <1>7, LightStep

LEMMA CancelUnknownStep ==
    ASSUME Inv, NEW id \in Ids, CancelUnknown(id)
    PROVE  Inv'
<1>1. Kinds /\ OneCall
    BY DEF Inv
<1>2. pc = "idle" /\ pc' = "idle" /\ taker' = taker /\ next_id' = next_id /\ victim' = victim
    BY DEF CancelUnknown
<1>3. OneCall'
    BY <1>1, <1>2 DEF OneCall
<1>4. NextToRest = next_id /\ NextToRest' = next_id /\ next_id \in 1 .. MaxOrders + 1
    BY <1>1, <1>2, <1>3, NextIs, NextIsPrimed DEF Kinds
<1>5. UNCHANGED <<free_head, word, in_use, stack, order, ladderVars, id_index, victim>>
    BY DEF CancelUnknown, slabVars
<1>6. next_id \in Int /\ next_id >= next_id
    BY <1>4
<1> QED
    BY <1>2, <1>3, <1>4, <1>5, <1>6, LightStep

LEMMA StutterStep ==
    ASSUME Inv, UNCHANGED vars
    PROVE  Inv'
<1>1. Kinds /\ OneCall /\ Indexed /\ Lists /\ Touch /\ Uncrossed /\ BlocksPartitioned
    BY DEF Inv
<1>u. UNCHANGED <<free_head, word, in_use, ret, stack, order, levels, best_px, live_levels,
                  id_index, pc, taker, victim, next_id>>
    BY DEF vars, slabVars, ladderVars
<1>2. Kinds' /\ OneCall'
    BY <1>1, <1>u DEF Kinds, OneCall, Crossing
<1>3. NextToRest' = NextToRest
    BY <1>u DEF NextToRest
<1>4. Indexed'
    BY <1>1, <1>3, <1>u DEF Indexed
<1>5. \A b \in Linked : order'[b].qty > 0
    BY <1>1, <1>u, LinkedLevel
<1>6. Linked' = Linked /\ Lists' /\ Uncrossed'
    BY <1>1, <1>5, <1>u, SameLists
<1>7. \A s \in Sides : Counted(s)' = Counted(s)
    BY <1>u DEF Counted, Populated
<1>8. Touch'
    BY <1>1, <1>7, <1>u DEF Touch
<1>9. Held' = Held
    BY <1>u DEF Held
<1>10. BlocksPartitioned'
    BY <1>1, <1>6, <1>9, <1>u, Partition, PartitionPrimed
<1> QED
    BY <1>2, <1>4, <1>6, <1>8, <1>10 DEF Inv

---------------------------------------------------------------------------
(* Records of orders and levels, and what an update of one changes. *)

OrderRecs == [price : Int, qty : Int, side : Sides \cup {"stale"},
              prev : 0 .. Capacity, next : 0 .. Capacity]
LevelRecs == [head : 0 .. Capacity, tail : 0 .. Capacity, total_qty : Int, order_count : Int]

LEMMA RecordKinds ==
    Kinds => /\ order \in [Blocks -> OrderRecs]
             /\ levels \in [Sides -> [Band -> LevelRecs]]
    BY DEF Kinds, OrderRecs, LevelRecs

LEMMA OneLevel ==
    ASSUME NEW f \in [Sides -> [Band -> LevelRecs]], NEW s \in Sides, NEW p \in Band,
           NEW l \in LevelRecs
    PROVE  LET g == [f EXCEPT ![s] = [f[s] EXCEPT ![p] = l]]
           IN /\ g \in [Sides -> [Band -> LevelRecs]]
              /\ \A t \in Sides, q \in Band :
                    g[t][q] = IF t = s /\ q = p THEN l ELSE f[t][q]
    OBVIOUS

---------------------------------------------------------------------------
(* Fills. *)

LEMMA FillPartStep ==
    ASSUME Inv, FillPart
    PROVE  Inv'
<1> DEFINE side == Opp(taker.side)
           px == best_px[side]
           maker == levels[side][px].head
<1>1. Kinds /\ OneCall /\ Indexed /\ Lists /\ Touch /\ Uncrossed /\ BlocksPartitioned
    BY DEF Inv
<1>2. pc = "match" /\ Crossing /\ pc' = "match" /\ victim' = victim /\ next_id' = next_id
    BY DEF FillPart
<1>3. /\ side \in Sides /\ px \in Band /\ maker \in Linked /\ maker \in Blocks
      /\ taker.remaining \in Nat
    BY <1>2, Maker
<1>4. /\ order[maker].qty > taker.remaining
      /\ order' = [order EXCEPT ![maker].qty = @ - taker.remaining]
      /\ levels' = [levels EXCEPT ![side][px].total_qty = @ - taker.remaining]
      /\ taker' = [taker EXCEPT !.remaining = 0]
      /\ UNCHANGED <<free_head, word, in_use, stack, best_px, live_levels, id_index>>
    BY DEF FillPart, slabVars
<1> HIDE DEF side, px, maker
<1> DEFINE ord == [order[maker] EXCEPT !.qty = @ - taker.remaining]
           lvl == [levels[side][px] EXCEPT !.total_qty = @ - taker.remaining]
<1>a. order \in [Blocks -> OrderRecs] /\ levels \in [Sides -> [Band -> LevelRecs]]
    BY <1>1, RecordKinds
<1>b. /\ ord \in OrderRecs /\ ord.qty = order[maker].qty - taker.remaining
      /\ ord.side = order[maker].side /\ ord.price = order[maker].price
      /\ ord.prev = order[maker].prev /\ ord.next = order[maker].next
    BY <1>3, <1>a DEF OrderRecs
<1>c. /\ lvl \in LevelRecs /\ lvl.head = levels[side][px].head /\ lvl.tail = levels[side][px].tail
    <2>1. levels[side][px] \in LevelRecs
        BY <1>3, <1>a
    <2> QED
        BY <1>3, <2>1 DEF LevelRecs
<1>d. order' = [order EXCEPT ![maker] = ord]
    BY <1>4
<1>e. levels' = [levels EXCEPT ![side] = [levels[side] EXCEPT ![px] = lvl]]
    BY <1>4
<1> HIDE DEF ord, lvl
<1>f. /\ levels' \in [Sides -> [Band -> LevelRecs]]
      /\ \A s \in Sides, p \in Band :
            levels'[s][p] = IF s = side /\ p = px THEN lvl ELSE levels[s][p]
    BY <1>3, <1>a, <1>c, <1>e, OneLevel
<1>5. Kinds'
    <2>1. order' \in [Blocks -> OrderRecs]
        BY <1>a, <1>b, <1>d
    <2> QED
        BY <1>1, <1>2, <1>4, <1>f, <2>1 DEF Kinds, OrderRecs, LevelRecs
<1>6. OneCall'
    BY <1>1, <1>2, <1>4 DEF OneCall
<1>7. NextToRest' = NextToRest
    BY <1>1, <1>2, <1>4, <1>6, NextIs, NextIsPrimed DEF OneCall
<1>8. Indexed'
    BY <1>1, <1>4, <1>7 DEF Indexed
<1>9. \A b \in Linked :
        /\ order'[b].side = order[b].side /\ order'[b].price = order[b].price
        /\ order'[b].prev = order[b].prev /\ order'[b].next = order[b].next
        /\ order'[b].qty > 0
    <2> TAKE b \in Linked
    <2>1. b \in Blocks /\ order[b].qty > 0
        BY <1>1, LinkedBlock, LinkedLevel
    <2>2. order'[b] = IF b = maker THEN ord ELSE order[b]
        BY <1>a, <1>d, <2>1
    <2>3. ord.qty > 0
        <3>1. order[maker].qty \in Int
            BY <1>3, <1>a DEF OrderRecs
        <3> QED
            BY <1>3, <1>4, <1>b, <3>1
    <2> QED
        BY <1>b, <2>1, <2>2, <2>3
<1>10. \A s \in Sides, p \in Band :
          levels'[s][p].head = levels[s][p].head /\ levels'[s][p].tail = levels[s][p].tail
    BY <1>c, <1>f
<1>11. Linked' = Linked /\ Lists' /\ Uncrossed'
    BY <1>1, <1>4, <1>9, <1>10, SameLists
<1>12. \A s \in Sides : Counted(s)' = Counted(s)
    BY <1>2, <1>10 DEF Counted, Populated
<1>13. Touch'
    BY <1>1, <1>4, <1>12 DEF Touch
<1>14. Held' = Held
    BY <1>2 DEF Held
<1>15. BlocksPartitioned'
    BY <1>1, <1>4, <1>11, <1>14, Partition, PartitionPrimed
<1> QED
    BY <1>5, <1>6, <1>8, <1>11, <1>13, <1>15 DEF Inv

LEMMA PopHeadIs ==
    ASSUME NEW l \in LevelRecs, order[l.head] \in OrderRecs, NEW q \in Int
    PROVE  /\ PopHead(l, q) \in LevelRecs
           /\ PopHead(l, q).head = order[l.head].next
           /\ PopHead(l, q).tail = IF order[l.head].next = Null THEN Null ELSE l.tail
           /\ PopHead(l, q).total_qty = l.total_qty - q
           /\ PopHead(l, q).order_count = l.order_count - 1
<1> DEFINE n == order[l.head].next
           t == IF n = Null THEN Null ELSE l.tail
<1>1. n \in 0 .. Capacity
    BY DEF OrderRecs
<1>2. t \in 0 .. Capacity /\ l.total_qty - q \in Int /\ l.order_count - 1 \in Int
    BY DEF LevelRecs, Null
<1>3. PopHead(l, q) = [l EXCEPT !.head = n, !.tail = t,
                                !.total_qty = l.total_qty - q, !.order_count = l.order_count - 1]
    BY DEF PopHead
<1> HIDE DEF n, t
<1>4. /\ PopHead(l, q) \in LevelRecs /\ PopHead(l, q).head = n /\ PopHead(l, q).tail = t
      /\ PopHead(l, q).total_qty = l.total_qty - q
      /\ PopHead(l, q).order_count = l.order_count - 1
    BY <1>1, <1>2, <1>3 DEF LevelRecs
<1> QED
    BY <1>4 DEF n, t

(* A whole fill unlinks the head, as Unlink would. *)
LEMMA FillWholeFacts ==
    ASSUME Inv, FillWhole
    PROVE  LET side == Opp(taker.side)
               px == best_px[side]
               maker == levels[side][px].head
           IN /\ maker \in Linked /\ side \in Sides /\ px \in Band
              /\ order[maker].side = side /\ order[maker].price = px
              /\ order' \in [Blocks -> OrderRecs] /\ levels' \in [Sides -> [Band -> LevelRecs]]
              /\ \A s \in Sides, p \in Band :
                    ~(s = side /\ p = px) => levels'[s][p] = levels[s][p]
              /\ Bypassed(maker)
              /\ taker' \in [id : Ids, side : Sides, price : Int, remaining : Nat]
              /\ taker'.id = taker.id /\ taker'.side = taker.side
<1> DEFINE side == Opp(taker.side)
           px == best_px[side]
           maker == levels[side][px].head
           succ == order[maker].next
           lvl == PopHead(levels[side][px], order[maker].qty)
<1>1. Kinds /\ OneCall /\ Indexed /\ Lists
    BY DEF Inv
<1>2. pc = "match" /\ Crossing
    BY DEF FillWhole
<1>3. /\ side \in Sides /\ px \in Band /\ maker \in Linked /\ maker \in Blocks
      /\ order[maker].side = side /\ order[maker].price = px /\ order[maker].prev = Null
      /\ order[maker].qty > 0 /\ taker.remaining \in Nat
    BY <1>2, Maker
<1>4. /\ order[maker].qty =< taker.remaining
      /\ order' = [b \in Blocks |->
            IF b = maker THEN [order[b] EXCEPT !.qty = 0]
            ELSE IF b = succ THEN [order[b] EXCEPT !.prev = Null]
            ELSE order[b]]
      /\ levels' = [levels EXCEPT ![side] = [levels[side] EXCEPT ![px] = lvl]]
      /\ id_index' = [id_index EXCEPT ![word[maker]] = Null]
      /\ taker' = [taker EXCEPT !.remaining = @ - order[maker].qty]
      /\ word' = word
    BY DEF FillWhole, slabVars
<1>5. order \in [Blocks -> OrderRecs] /\ levels \in [Sides -> [Band -> LevelRecs]]
    BY <1>1, RecordKinds
<1>6. levels[side][px] \in LevelRecs /\ order[maker] \in OrderRecs
    BY <1>3, <1>5
<1>7. /\ lvl \in LevelRecs /\ lvl.head = succ
      /\ lvl.tail = IF succ = Null THEN Null ELSE levels[side][px].tail
      /\ lvl.total_qty = levels[side][px].total_qty - order[maker].qty
      /\ lvl.order_count = levels[side][px].order_count - 1
    <2>1. order[maker].qty \in Int
        BY <1>6 DEF OrderRecs
    <2> QED
        BY <1>6, <2>1, PopHeadIs
<1> HIDE DEF lvl, side, px
<1>8. /\ levels' \in [Sides -> [Band -> LevelRecs]]
      /\ \A s \in Sides, p \in Band :
            levels'[s][p] = IF s = side /\ p = px THEN lvl ELSE levels[s][p]
    BY <1>3, <1>4, <1>5, <1>7, OneLevel
<1>9. \A b \in Blocks : order[b] \in OrderRecs
    BY <1>5
<1>10. ASSUME NEW b \in Blocks
       PROVE  /\ [order[b] EXCEPT !.qty = 0] \in OrderRecs
              /\ [order[b] EXCEPT !.prev = Null] \in OrderRecs
    BY <1>9 DEF OrderRecs, Null
<1>11. order' \in [Blocks -> OrderRecs]
    BY <1>4, <1>9, <1>10
<1>12. \A b \in Linked \ {maker} :
          /\ order'[b].side = order[b].side /\ order'[b].price = order[b].price
          /\ order'[b].qty = order[b].qty
          /\ order'[b].next = IF b = order[maker].prev THEN succ ELSE order[b].next
          /\ order'[b].prev = IF b = succ THEN order[maker].prev ELSE order[b].prev
    <2> TAKE b \in Linked \ {maker}
    <2>1. b \in Blocks /\ b # Null
        BY <1>1, LinkedBlock
    <2>2. order'[b] = IF b = succ THEN [order[b] EXCEPT !.prev = Null] ELSE order[b]
        BY <1>4, <2>1
    <2> QED
        BY <1>3, <1>9, <2>1, <2>2 DEF OrderRecs
<1>13. Linked' = Linked \ {maker}
    BY <1>1, <1>3, <1>4, LinkedErase
<1>14. \A s \in Sides, p \in Band :
          LET here == s = order[maker].side /\ p = order[maker].price
          IN /\ levels'[s][p].head = IF here /\ order[maker].prev = Null THEN order[maker].next
                                     ELSE levels[s][p].head
             /\ levels'[s][p].tail = IF here /\ order[maker].next = Null THEN order[maker].prev
                                     ELSE levels[s][p].tail
             /\ levels'[s][p].total_qty = IF here THEN levels[s][p].total_qty - order[maker].qty
                                          ELSE levels[s][p].total_qty
             /\ levels'[s][p].order_count = IF here THEN levels[s][p].order_count - 1
                                            ELSE levels[s][p].order_count
    BY <1>3, <1>7, <1>8
<1>15. Bypassed(maker)
    BY <1>4, <1>12, <1>13, <1>14 DEF Bypassed
<1>16. /\ taker' \in [id : Ids, side : Sides, price : Int, remaining : Nat]
       /\ taker'.id = taker.id /\ taker'.side = taker.side
    <2>1. taker \in [id : Ids, side : Sides, price : Int, remaining : Nat]
        BY <1>1, <1>2 DEF OneCall
    <2>2. taker.remaining - order[maker].qty \in Nat
        BY <1>3, <1>4, <1>6 DEF OrderRecs
    <2> QED
        BY <1>4, <2>1, <2>2
<1> QED
    BY <1>3, <1>8, <1>11, <1>15, <1>16 DEF side, px

LEMMA FillWholeStep ==
    ASSUME Inv, FillWhole
    PROVE  Inv'
<1> DEFINE side == Opp(taker.side)
           px == best_px[side]
           maker == levels[side][px].head
<1>1. Kinds /\ OneCall /\ Indexed /\ Lists /\ Touch /\ Uncrossed /\ BlocksPartitioned
    BY DEF Inv
<1>2. /\ pc = "match" /\ Crossing /\ pc' = "reclaim" /\ victim' = maker
      /\ id_index' = [id_index EXCEPT ![word[maker]] = Null]
      /\ UNCHANGED <<free_head, word, in_use, stack, best_px, live_levels, next_id>>
    BY DEF FillWhole, slabVars
<1>3. /\ maker \in Linked /\ side \in Sides /\ px \in Band
      /\ order' \in [Blocks -> OrderRecs] /\ levels' \in [Sides -> [Band -> LevelRecs]]
      /\ \A s \in Sides, p \in Band : ~(s = side /\ p = px) => levels'[s][p] = levels[s][p]
      /\ Bypassed(maker)
      /\ taker' \in [id : Ids, side : Sides, price : Int, remaining : Nat]
      /\ taker'.id = taker.id /\ taker'.side = taker.side
    BY FillWholeFacts
<1>4. px \in Populated(side)
    BY <1>2, Maker
<1>5. maker \in Blocks /\ maker # Null /\ word[maker] \in Ids
    BY <1>1, <1>3, LinkedBlock
<1>6. side = Opp(taker'.side)
    BY <1>3
<1> HIDE DEF side, px, maker
<1>7. Kinds'
    <2>1. id_index' \in [Ids -> 0 .. Capacity]
        BY <1>1, <1>2, <1>5 DEF Kinds, Null
    <2> QED
        BY <1>1, <1>2, <1>3, <2>1 DEF Kinds, OrderRecs, LevelRecs
<1>8. OneCall'
    <2>1. taker'.id < next_id'
        BY <1>1, <1>2, <1>3 DEF OneCall
    <2> QED
        BY <1>2, <1>3, <1>5, <2>1 DEF OneCall
<1>9. NextToRest' = NextToRest
    BY <1>1, <1>2, <1>3, <1>8, NextIs, NextIsPrimed
<1>10. Indexed'
    <2>1. \A i \in Ids : id_index'[i] # Null => id_index'[i] = id_index[i]
        BY <1>1, <1>2 DEF Kinds
    <2> QED
        BY <1>1, <1>2, <1>9, <2>1 DEF Indexed
<1>11. Lists' /\ Uncrossed'
    BY <1>1, <1>3, BypassedLists
<1>12. \A s \in Sides : Counted(s)' = Counted(s)
    <2> TAKE s \in Sides
    <2>1. Counted(s) = Populated(s)
        BY <1>2 DEF Counted
    <2>2. CASE s = side
        <3>1. Counted(s)' = Populated(s)' \cup {px}
            BY <1>2, <1>6, <2>2 DEF Counted, px
        <3>2. Populated(s)' \cup {px} = Populated(s)
            BY <1>3, <1>4, <2>2 DEF Populated
        <3> QED
            BY <2>1, <3>1, <3>2
    <2>3. CASE s # side
        <3>1. Counted(s)' = Populated(s)'
            BY <1>2, <1>6, <2>3 DEF Counted
        <3>2. Populated(s)' = Populated(s)
            BY <1>3, <2>3 DEF Populated
        <3> QED
            BY <2>1, <3>1, <3>2
    <2> QED
        BY <2>2, <2>3
<1>13. Touch'
    BY <1>1, <1>2, <1>12 DEF Touch
<1>14. Held = {} /\ Held' = {maker}
    BY <1>1, <1>2, <1>5 DEF Held, OneCall
<1>15. Linked' = Linked \ {maker}
    BY <1>3 DEF Bypassed
<1>16. BlocksPartitioned'
    BY <1>1, <1>2, <1>3, <1>14, <1>15, Partition, PartitionPrimed, PartedHold
<1> QED
    BY <1>7, <1>8, <1>10, <1>11, <1>13, <1>16 DEF Inv

---------------------------------------------------------------------------
(* Deallocation of the block the call holds. *)

LEMMA FreeFacts ==
    ASSUME Inv, pc \in {"reclaim", "release"}, Slab!Deallocate(victim),
           order' = [order EXCEPT ![victim] = Stale], levels' = levels, id_index' = id_index,
           victim' = Null, pc' \in {"match", "idle"}
    PROVE  /\ victim \in Blocks /\ victim \notin Linked
           /\ \A b \in Linked : word'[b] = word[b] /\ order'[b] = order[b]
           /\ stack' \in Seq(Blocks) /\ free_head' \in 0 .. Capacity
           /\ word' \in [Blocks -> Int] /\ in_use' \in Int /\ order' \in [Blocks -> OrderRecs]
           /\ Linked' = Linked /\ Lists' /\ Uncrossed' /\ BlocksPartitioned'
<1>1. Kinds /\ OneCall /\ Indexed /\ Lists /\ Uncrossed /\ BlocksPartitioned
    BY DEF Inv
<1>2. victim \in Blocks /\ victim # Null
    BY <1>1 DEF OneCall, Blocks, Null
<1>3. Held = {victim} /\ Held' = {}
    BY <1>2 DEF Held
<1>4. /\ word' = [word EXCEPT ![victim] = free_head] /\ free_head' = victim
      /\ in_use' = in_use - 1 /\ stack' = <<victim>> \o stack
    BY DEF Slab!Deallocate
<1>5. /\ stack \in Seq(Blocks) /\ word \in [Blocks -> Int] /\ in_use \in Int
      /\ free_head \in 0 .. Capacity /\ order \in [Blocks -> OrderRecs]
    BY <1>1, RecordKinds DEF Kinds
<1>6. Parted(stack, free_head, word, Linked, {victim}, in_use)
    BY <1>1, <1>3, Partition
<1>7. victim \notin Linked
    BY <1>6 DEF Parted
<1>8. \A b \in Linked : word'[b] = word[b] /\ order'[b] = order[b]
    <2> TAKE b \in Linked
    <2>1. b \in Blocks /\ b # victim
        BY <1>1, <1>7, LinkedBlock
    <2> QED
        BY <1>4, <1>5, <2>1
<1>9. \A b \in Linked : order'[b].qty > 0
    BY <1>1, <1>8, LinkedLevel
<1>10. Linked' = Linked /\ Lists' /\ Uncrossed'
    BY <1>1, <1>8, <1>9, SameLists
<1>11. /\ stack' \in Seq(Blocks)
       /\ Parted(stack', free_head', word', Linked, {}, in_use')
    BY <1>2, <1>4, <1>5, <1>6, PartedFree
<1>12. BlocksPartitioned'
    BY <1>3, <1>10, <1>11, PartitionPrimed
<1>13. Stale \in OrderRecs
    BY DEF Stale, OrderRecs, Null
<1>14. /\ free_head' \in 0 .. Capacity /\ word' \in [Blocks -> Int] /\ in_use' \in Int
       /\ order' \in [Blocks -> OrderRecs]
    BY <1>2, <1>4, <1>5, <1>13 DEF Blocks
<1> QED
    BY <1>2, <1>7, <1>8, <1>10, <1>11, <1>12, <1>14

LEMMA ReleaseStep ==
    ASSUME Inv, Release
    PROVE  Inv'
<1>1. Kinds /\ OneCall /\ Indexed /\ Touch
    BY DEF Inv
<1>2. /\ pc = "release" /\ pc' = "idle" /\ victim' = Null /\ Slab!Deallocate(victim)
      /\ order' = [order EXCEPT ![victim] = Stale]
      /\ UNCHANGED <<levels, best_px, live_levels, id_index, taker, next_id>>
    BY DEF Release, ladderVars
<1>3. /\ \A b \in Linked : word'[b] = word[b] /\ order'[b] = order[b]
      /\ stack' \in Seq(Blocks) /\ free_head' \in 0 .. Capacity
      /\ word' \in [Blocks -> Int] /\ in_use' \in Int /\ order' \in [Blocks -> OrderRecs]
      /\ Linked' = Linked /\ Lists' /\ Uncrossed' /\ BlocksPartitioned'
    BY <1>2, FreeFacts
<1>4. Kinds'
    BY <1>1, <1>2, <1>3 DEF Kinds, OrderRecs
<1>5. OneCall'
    BY <1>1, <1>2 DEF OneCall
<1>6. NextToRest' = NextToRest
    BY <1>2 DEF NextToRest
<1>7. Indexed'
    <2>1. \A i \in Ids : id_index[i] # Null => id_index[i] \in Linked
        BY <1>1, IndexLinked
    <2> QED
        BY <1>1, <1>2, <1>3, <1>6, <2>1 DEF Indexed
<1>8. \A s \in Sides : Counted(s)' = Counted(s)
    BY <1>2 DEF Counted, Populated
<1>9. Touch'
    BY <1>1, <1>2, <1>8 DEF Touch
<1> QED
    BY <1>3, <1>4, <1>5, <1>7, <1>9 DEF Inv

LEMMA ReclaimStep ==
    ASSUME Inv, Reclaim
    PROVE  Inv'
<1> DEFINE side == Opp(taker.side)
           px == best_px[side]
<1>1. Kinds /\ OneCall /\ Indexed /\ Touch
    BY DEF Inv
<1>2. /\ pc = "reclaim" /\ pc' = "match" /\ victim' = Null /\ Slab!Deallocate(victim)
      /\ order' = [order EXCEPT ![victim] = Stale]
      /\ UNCHANGED <<levels, id_index, taker, next_id>>
    BY DEF Reclaim
<1>3. /\ \A b \in Linked : word'[b] = word[b] /\ order'[b] = order[b]
      /\ stack' \in Seq(Blocks) /\ free_head' \in 0 .. Capacity
      /\ word' \in [Blocks -> Int] /\ in_use' \in Int /\ order' \in [Blocks -> OrderRecs]
      /\ Linked' = Linked /\ Lists' /\ Uncrossed' /\ BlocksPartitioned'
    BY <1>2, FreeFacts
<1>4. IF levels[side][px].head = Null
      THEN /\ live_levels' = [live_levels EXCEPT ![side] = @ - 1]
           /\ best_px' = [best_px EXCEPT ![side] =
                 IF live_levels[side] > 1 /\ px = @ THEN NextPopulated(side, px, levels[side])
                 ELSE @]
      ELSE UNCHANGED <<best_px, live_levels>>
    BY DEF Reclaim, MarkLevelEmptied
<1>5. side \in Sides
    BY <1>1, <1>2 DEF OneCall, Opp, Book!Opp, Sides, Book!Sides
<1> HIDE DEF side
<1>6. best_px \in [Sides -> Int] /\ live_levels \in [Sides -> Int] /\ Band \subseteq Int
    BY <1>1 DEF Kinds, Band
<1>7. \A s \in Sides : /\ Counted(s)' = Populated(s)
                       /\ Counted(s) = Populated(s) \cup (IF s = side THEN {px} ELSE {})
    BY <1>2 DEF Counted, Populated, side
<1>8. \A s \in Sides :
        /\ Counted(s) \subseteq Band /\ live_levels[s] = Cardinality(Counted(s))
        /\ BestOf(s, Counted(s), best_px[s])
    BY <1>1 DEF Touch, BestOf
<1>9. px \in Counted(side)
    BY <1>5, <1>7
<1> HIDE DEF px
<1>10. ASSUME NEW s \in Sides
       PROVE  /\ Populated(s) \subseteq Band /\ live_levels'[s] = Cardinality(Populated(s))
              /\ BestOf(s, Populated(s), best_px'[s]) /\ best_px'[s] \in Int
    <2>1. CASE levels[side][px].head # Null
        <3>1. px \in Populated(side)
            BY <1>5, <1>8, <1>9, <2>1 DEF Populated
        <3>2. Counted(s) = Populated(s)
            BY <1>7, <3>1
        <3> QED
            BY <1>4, <1>6, <1>8, <2>1, <3>2
    <2>2. CASE levels[side][px].head = Null /\ s # side
        <3>1. Counted(s) = Populated(s)
            BY <1>7, <2>2
        <3>2. live_levels'[s] = live_levels[s] /\ best_px'[s] = best_px[s]
            BY <1>4, <1>6, <2>2
        <3> QED
            BY <1>6, <1>8, <3>1, <3>2
    <2>3. CASE levels[side][px].head = Null /\ s = side
        <3>1. px \notin Populated(side)
            BY <2>3 DEF Populated
        <3>2. Counted(side) \ {px} = Populated(side)
            BY <1>5, <1>7, <3>1
        <3>3. Counted(side) \ {px} = { p \in Band : levels[side][p].head # Null }
            BY <3>2 DEF Populated
        <3>4. /\ live_levels'[side] = Cardinality(Counted(side)) - 1
              /\ best_px'[side] = IF Cardinality(Counted(side)) > 1 /\ px = best_px[side]
                                  THEN NextPopulated(side, px, levels[side]) ELSE best_px[side]
            BY <1>4, <1>5, <1>6, <1>8, <2>3
        <3>5. best_px[side] \in Int /\ Counted(side) \subseteq Band
                /\ BestOf(side, Counted(side), best_px[side])
            BY <1>5, <1>6, <1>8
        <3>6. /\ Cardinality(Counted(side)) - 1 = Cardinality(Counted(side) \ {px})
              /\ BestOf(side, Counted(side) \ {px},
                        IF Cardinality(Counted(side)) > 1 /\ px = best_px[side]
                        THEN NextPopulated(side, px, levels[side]) ELSE best_px[side])
              /\ (IF Cardinality(Counted(side)) > 1 /\ px = best_px[side]
                  THEN NextPopulated(side, px, levels[side]) ELSE best_px[side]) \in Int
            BY <1>5, <1>9, <3>3, <3>5, TouchEmptied
        <3> QED
            BY <1>5, <2>3, <3>2, <3>4, <3>5, <3>6
    <2> QED
        BY <2>1, <2>2, <2>3
<1>11. Touch'
    BY <1>7, <1>10 DEF Touch, BestOf
<1>12. best_px' \in [Sides -> Int] /\ live_levels' \in [Sides -> Int]
    <2>1. CASE levels[side][px].head # Null
        BY <1>4, <1>6, <2>1
    <2>2. CASE levels[side][px].head = Null
        <3>1. best_px'[side] \in Int
            BY <1>5, <1>10, <2>2
        <3> QED
            BY <1>4, <1>6, <2>2, <3>1
    <2> QED
        BY <2>1, <2>2
<1>13. Kinds'
    BY <1>1, <1>2, <1>3, <1>12 DEF Kinds, OrderRecs
<1>14. OneCall'
    BY <1>1, <1>2 DEF OneCall
<1>15. NextToRest' = NextToRest
    BY <1>2 DEF NextToRest
<1>16. Indexed'
    <2>1. \A i \in Ids : id_index[i] # Null => id_index[i] \in Linked
        BY <1>1, IndexLinked
    <2> QED
        BY <1>1, <1>2, <1>3, <1>15, <2>1 DEF Indexed
<1> QED
    BY <1>3, <1>11, <1>13, <1>14, <1>16 DEF Inv

---------------------------------------------------------------------------
(* A level's head is its earliest order, and crossing is decided by the    *)
(* touch alone.                                                            *)

LEMMA HeadIsFirst ==
    ASSUME Kinds, Indexed, Lists, NEW b \in Linked
    PROVE  LET h == levels[order[b].side][order[b].price].head
           IN /\ h \in Linked
              /\ h = b \/ word[h] < word[b]
<1> DEFINE Peer(c) == order[c].side = order[b].side /\ order[c].price = order[b].price
           S == { word[c] : c \in { d \in Linked : Peer(d) } }
<1>1. \A c \in Linked : word[c] \in Nat
    BY LinkedBlock DEF Ids
<1>2. S \subseteq Nat /\ word[b] \in S
    BY <1>1
<1>3. PICK x \in S : \A y \in S : x =< y
    BY <1>2, LeastNat
<1>4. PICK c \in Linked : Peer(c) /\ word[c] = x
    OBVIOUS
<1>5. order[c].prev = Null
    <2> SUFFICES ASSUME order[c].prev # Null PROVE FALSE
        OBVIOUS
    <2>1. /\ order[c].prev \in Linked /\ Peer(order[c].prev)
          /\ word[order[c].prev] < word[c]
        BY <1>4, Neighbours
    <2>2. word[order[c].prev] \in S
        BY <2>1
    <2>3. word[c] =< word[order[c].prev]
        BY <1>3, <1>4, <2>2
    <2>4. word[c] \in Nat /\ word[order[c].prev] \in Nat
        BY <1>1, <2>1
    <2> QED
        BY <2>1, <2>3, <2>4
<1>6. levels[order[b].side][order[b].price].head = c
    BY <1>4, <1>5, LinkedLevel
<1>7. word[c] =< word[b]
    BY <1>2, <1>3, <1>4
<1>8. word[c] = word[b] => c = b
    BY <1>4, LinkedBlock
<1> QED
    BY <1>1, <1>4, <1>6, <1>7, <1>8

LEMMA LinkedPopulated ==
    ASSUME Kinds, Indexed, Lists, NEW b \in Linked
    PROVE  order[b].price \in Populated(order[b].side)
<1>1. levels[order[b].side][order[b].price].head \in Linked /\ order[b].price \in Band
    BY HeadIsFirst, LinkedLevel
<1> QED
    BY <1>1, LinkedBlock DEF Populated

LEMMA NoMakers ==
    ASSUME Inv, pc \in {"match", "link"}, taker.remaining > 0, ~Crossing,
           NEW b \in Linked, order[b].side = Opp(taker.side)
    PROVE  ~Book!Crosses(taker, order[b].price)
<1> DEFINE side == Opp(taker.side)
<1>1. Kinds /\ OneCall /\ Indexed /\ Lists /\ Touch
    BY DEF Inv
<1>2. side \in Sides /\ taker.side \in Sides /\ taker.price \in Int
    BY <1>1 DEF OneCall, Opp, Book!Opp, Sides, Book!Sides
<1>3. order[b].price \in Populated(side)
    BY <1>1, LinkedPopulated
<1>4. Counted(side) = Populated(side)
    BY DEF Counted
<1> HIDE DEF side
<1>5. live_levels[side] > 0
    <2>1. Counted(side) # {} /\ Counted(side) \subseteq Band
          /\ live_levels[side] = Cardinality(Counted(side))
        BY <1>1, <1>2, <1>3, <1>4 DEF Touch
    <2> QED
        BY <2>1, BandFinite
<1>6. ~Book!Crosses(taker, best_px[side])
    BY <1>5 DEF Crossing, side
<1>7. order[b].price = best_px[side] \/ Worse(side, order[b].price, best_px[side])
    BY <1>1, <1>2, <1>3, <1>4 DEF Touch
<1>8. order[b].price \in Int /\ best_px[side] \in Int
    BY <1>1, <1>2, <1>3 DEF Kinds, Populated, Band
<1>9. IF taker.side = "buy" THEN side = "sell" ELSE side = "buy"
    BY DEF side, Opp, Book!Opp
<1> QED
    BY <1>2, <1>6, <1>7, <1>8, <1>9 DEF Book!Crosses, Worse

---------------------------------------------------------------------------
(* Resting the remainder. *)

LEMMA RestAllocateStep ==
    ASSUME Inv, RestAllocate
    PROVE  Inv'
<1>1. Kinds /\ OneCall /\ Indexed /\ Lists /\ Touch /\ Uncrossed /\ BlocksPartitioned
    BY DEF Inv
<1>2. /\ pc = "match" /\ taker.remaining > 0 /\ ~Crossing /\ Book!InBand(taker.price)
      /\ pc' = "link"
      /\ UNCHANGED <<order, levels, best_px, live_levels, id_index, taker, victim, next_id>>
    BY DEF RestAllocate, ladderVars
<1>3. /\ free_head # Null /\ ret' = free_head /\ free_head' = word[free_head]
      /\ in_use' = in_use + 1 /\ stack' = Tail(stack) /\ word' = word
    BY DEF RestAllocate, Slab!Allocate, Slab!Null, Null
<1>4. Held = {} /\ Held' = {ret'}
    BY <1>1, <1>2 DEF Held, OneCall
<1>5. /\ stack \in Seq(Blocks) /\ word \in [Blocks -> Int] /\ in_use \in Int
    BY <1>1 DEF Kinds
<1>6. Parted(stack, free_head, word, Linked, {}, in_use)
    BY <1>1, <1>4, Partition
<1>7. /\ ret' \in Blocks /\ stack' \in Seq(Blocks)
      /\ Parted(stack', free_head', word', Linked, {ret'}, in_use')
    BY <1>3, <1>5, <1>6, PartedTake
<1>8. free_head' \in 0 .. Capacity
    <2>1. free_head' = IF stack' = <<>> THEN Null ELSE stack'[1]
        BY <1>7 DEF Parted, Threaded
    <2>2. stack' # <<>> => stack'[1] \in Blocks
        BY <1>7
    <2> QED
        BY <2>1, <2>2 DEF Blocks, Null
<1>9. Kinds'
    <2>1. word' \in [Blocks -> Int] /\ in_use' \in Int /\ stack' \in Seq(Blocks)
        BY <1>3, <1>5, <1>7
    <2>2. UNCHANGED <<order, levels, best_px, live_levels, id_index, next_id>>
        BY <1>2
    <2> QED
        BY <1>1, <1>8, <2>1, <2>2 DEF Kinds
<1>10. ~Crossing'
    BY <1>2 DEF Crossing
<1>11. OneCall'
    BY <1>1, <1>2, <1>7, <1>10 DEF OneCall
<1>12. NextToRest' = NextToRest
    BY <1>2 DEF NextToRest
<1>13. Indexed'
    BY <1>1, <1>2, <1>3, <1>12 DEF Indexed
<1>14. \A b \in Linked : order'[b].qty > 0
    BY <1>1, <1>2, LinkedLevel
<1>15. Linked' = Linked /\ Lists' /\ Uncrossed'
    BY <1>1, <1>2, <1>3, <1>14, SameLists
<1>16. \A s \in Sides : Counted(s)' = Counted(s)
    BY <1>2 DEF Counted, Populated
<1>17. Touch'
    BY <1>1, <1>2, <1>16 DEF Touch
<1>18. BlocksPartitioned'
    BY <1>4, <1>7, <1>15, PartitionPrimed
<1> QED
    BY <1>9, <1>11, <1>13, <1>15, <1>17, <1>18 DEF Inv

LEMMA PushBackIs ==
    ASSUME NEW l \in LevelRecs, NEW o \in 0 .. Capacity, taker.remaining \in Int
    PROVE  /\ PushBackToLevel(o, l) \in LevelRecs
           /\ PushBackToLevel(o, l).head = IF l.tail = Null THEN o ELSE l.head
           /\ PushBackToLevel(o, l).tail = o
           /\ PushBackToLevel(o, l).total_qty = l.total_qty + taker.remaining
           /\ PushBackToLevel(o, l).order_count = l.order_count + 1
<1> DEFINE h == IF l.tail = Null THEN o ELSE l.head
           q == l.total_qty + taker.remaining
<1>1. h \in 0 .. Capacity /\ q \in Int /\ l.order_count + 1 \in Int
    BY DEF LevelRecs
<1>2. PushBackToLevel(o, l) = [l EXCEPT !.head = h, !.tail = o,
                                        !.total_qty = q, !.order_count = l.order_count + 1]
    BY DEF PushBackToLevel
<1> HIDE DEF h, q
<1>3. /\ PushBackToLevel(o, l) \in LevelRecs /\ PushBackToLevel(o, l).head = h
      /\ PushBackToLevel(o, l).tail = o /\ PushBackToLevel(o, l).total_qty = q
      /\ PushBackToLevel(o, l).order_count = l.order_count + 1
    BY <1>1, <1>2 DEF LevelRecs
<1> QED
    BY <1>3 DEF h, q

LEMMA UnlinkIs ==
    ASSUME NEW l \in LevelRecs, NEW o, order[o] \in OrderRecs
    PROVE  /\ Unlink(o, l) \in LevelRecs
           /\ Unlink(o, l).head = IF order[o].prev = Null THEN order[o].next ELSE l.head
           /\ Unlink(o, l).tail = IF order[o].next = Null THEN order[o].prev ELSE l.tail
           /\ Unlink(o, l).total_qty = l.total_qty - order[o].qty
           /\ Unlink(o, l).order_count = l.order_count - 1
<1> DEFINE h == IF order[o].prev = Null THEN order[o].next ELSE l.head
           t == IF order[o].next = Null THEN order[o].prev ELSE l.tail
           q == l.total_qty - order[o].qty
<1>1. /\ h \in 0 .. Capacity /\ t \in 0 .. Capacity /\ q \in Int
      /\ l.order_count - 1 \in Int
    BY DEF LevelRecs, OrderRecs
<1>2. Unlink(o, l) = [l EXCEPT !.head = h, !.tail = t,
                               !.total_qty = q, !.order_count = l.order_count - 1]
    BY DEF Unlink
<1> HIDE DEF h, t, q
<1>3. /\ Unlink(o, l) \in LevelRecs /\ Unlink(o, l).head = h /\ Unlink(o, l).tail = t
      /\ Unlink(o, l).total_qty = q /\ Unlink(o, l).order_count = l.order_count - 1
    BY <1>1, <1>2 DEF LevelRecs
<1> QED
    BY <1>3 DEF h, t, q

LEMMA RestLinkFacts ==
    ASSUME Inv, RestLink
    PROVE  /\ ret \in Blocks /\ ret \notin Linked /\ taker.side \in Sides /\ taker.price \in Band
           /\ taker.id \in Ids /\ id_index[taker.id] = Null
           /\ order' \in [Blocks -> OrderRecs] /\ levels' \in [Sides -> [Band -> LevelRecs]]
           /\ \A s \in Sides, p \in Band :
                 ~(s = taker.side /\ p = taker.price) => levels'[s][p] = levels[s][p]
           /\ Appended(ret, taker.side, taker.price, taker.id)
           /\ order'[ret].qty = taker.remaining
           /\ \A b \in Linked : word[b] < taker.id
<1> DEFINE o == ret
           side == taker.side
           px == taker.price
           last == levels[side][px].tail
           lvl == PushBackToLevel(o, levels[side][px])
<1>1. Kinds /\ OneCall /\ Indexed /\ Lists /\ BlocksPartitioned
    BY DEF Inv
<1>2. pc = "link"
    BY DEF RestLink
<1>3. /\ o \in Blocks /\ side \in Sides /\ px \in Band /\ taker.id \in Ids
      /\ taker.remaining \in Nat /\ taker.remaining > 0
    BY <1>1, <1>2 DEF OneCall, Book!InBand, Band
<1>4. Parted(stack, free_head, word, Linked, {o}, in_use)
    BY <1>1, <1>2, Partition DEF Held
<1>5. o \notin Linked
    BY <1>4 DEF Parted
<1>6. NextToRest = taker.id
    BY <1>1, <1>2, NextIs
<1>7. id_index[taker.id] = Null
    BY <1>1, <1>3, <1>6 DEF Indexed, Ids
<1>8. \A b \in Linked : word[b] < taker.id
    BY <1>1, <1>6, LinkedBlock
<1>9. /\ word' = [word EXCEPT ![o] = taker.id]
      /\ order' = [b \in Blocks |->
            IF b = o THEN [price |-> px, qty |-> taker.remaining, side |-> side,
                           prev |-> last, next |-> Null]
            ELSE IF b = last THEN [order[b] EXCEPT !.next = o]
            ELSE order[b]]
      /\ levels' = [levels EXCEPT ![side] = [levels[side] EXCEPT ![px] = lvl]]
      /\ id_index' = [id_index EXCEPT ![taker.id] = o]
    BY DEF RestLink, Slab!ClientWrite
<1>10. /\ order \in [Blocks -> OrderRecs] /\ levels \in [Sides -> [Band -> LevelRecs]]
       /\ word \in [Blocks -> Int]
    BY <1>1, RecordKinds DEF Kinds
<1>11. levels[side][px] \in LevelRecs /\ last \in 0 .. Capacity
    BY <1>3, <1>10 DEF LevelRecs
<1>12. o \in 0 .. Capacity /\ Null \in 0 .. Capacity
    BY <1>3 DEF Blocks, Null
<1>13. taker.remaining \in Int
    BY <1>3
<1> HIDE DEF o, side, px
<1>14. /\ lvl \in LevelRecs /\ lvl.tail = o
       /\ lvl.head = IF last = Null THEN o ELSE levels[side][px].head
       /\ lvl.total_qty = levels[side][px].total_qty + taker.remaining
       /\ lvl.order_count = levels[side][px].order_count + 1
    BY <1>11, <1>12, <1>13, PushBackIs
<1> HIDE DEF last, lvl
<1>15. /\ levels' \in [Sides -> [Band -> LevelRecs]]
       /\ \A s \in Sides, p \in Band :
             levels'[s][p] = IF s = side /\ p = px THEN lvl ELSE levels[s][p]
    BY <1>3, <1>9, <1>10, <1>14, OneLevel
<1>16. \A b \in Blocks : order[b] \in OrderRecs
    BY <1>10
<1>17. [price |-> px, qty |-> taker.remaining, side |-> side, prev |-> last, next |-> Null]
          \in OrderRecs
    BY <1>3, <1>11, <1>12 DEF OrderRecs, Band
<1>18. \A b \in Blocks : [order[b] EXCEPT !.next = o] \in OrderRecs
    BY <1>12, <1>16 DEF OrderRecs
<1>19. order' \in [Blocks -> OrderRecs]
    BY <1>9, <1>16, <1>17, <1>18
<1>20. /\ order'[o].side = side /\ order'[o].price = px /\ order'[o].qty = taker.remaining
       /\ order'[o].prev = last /\ order'[o].next = Null
    BY <1>3, <1>9
<1>21. \A b \in Linked :
          /\ order'[b].side = order[b].side /\ order'[b].price = order[b].price
          /\ order'[b].qty = order[b].qty /\ order'[b].prev = order[b].prev
          /\ order'[b].next = IF b = last THEN o ELSE order[b].next
          /\ word'[b] = word[b]
    <2> TAKE b \in Linked
    <2>1. b \in Blocks /\ b # o
        BY <1>1, <1>5, LinkedBlock
    <2>2. order'[b] = IF b = last THEN [order[b] EXCEPT !.next = o] ELSE order[b]
        BY <1>9, <2>1
    <2>3. word'[b] = word[b]
        BY <1>9, <1>10, <2>1
    <2> QED
        BY <1>16, <2>1, <2>2, <2>3 DEF OrderRecs
<1>22. Linked' = Linked \cup {o} /\ word'[o] = taker.id
    BY <1>1, <1>3, <1>7, <1>9, <1>10, LinkedInsert
<1>23. \A s \in Sides, p \in Band :
          /\ levels'[s][p].head = IF s = side /\ p = px /\ last = Null THEN o
                                  ELSE levels[s][p].head
          /\ levels'[s][p].tail = IF s = side /\ p = px THEN o ELSE levels[s][p].tail
          /\ levels'[s][p].total_qty =
                IF s = side /\ p = px THEN levels[s][p].total_qty + order'[o].qty
                ELSE levels[s][p].total_qty
          /\ levels'[s][p].order_count =
                IF s = side /\ p = px THEN levels[s][p].order_count + 1
                ELSE levels[s][p].order_count
    BY <1>14, <1>15, <1>20
<1>24. Appended(o, side, px, taker.id)
    BY <1>3, <1>20, <1>21, <1>22, <1>23 DEF Appended, last
<1> QED
    BY <1>3, <1>5, <1>7, <1>8, <1>15, <1>19, <1>20, <1>24 DEF o, side, px

LEMMA RestLinkStep ==
    ASSUME Inv, RestLink
    PROVE  Inv'
<1> DEFINE side == taker.side
           px == taker.price
<1>1. Kinds /\ OneCall /\ Indexed /\ Lists /\ Touch /\ Uncrossed /\ BlocksPartitioned
    BY DEF Inv
<1>2. /\ pc = "link" /\ pc' = "idle" /\ taker' = Book!NoTaker
      /\ word' = [word EXCEPT ![ret] = taker.id] /\ id_index' = [id_index EXCEPT ![taker.id] = ret]
      /\ UNCHANGED <<free_head, in_use, stack, victim, next_id>>
      /\ IF levels[side][px].head = Null THEN MarkLevelLive(side, px)
         ELSE UNCHANGED <<best_px, live_levels>>
    BY DEF RestLink, Return, Slab!ClientWrite
<1>3. /\ ret \in Blocks /\ ret \notin Linked /\ side \in Sides /\ px \in Band
      /\ taker.id \in Ids /\ id_index[taker.id] = Null
      /\ order' \in [Blocks -> OrderRecs] /\ levels' \in [Sides -> [Band -> LevelRecs]]
      /\ \A s \in Sides, p \in Band : ~(s = side /\ p = px) => levels'[s][p] = levels[s][p]
      /\ Appended(ret, side, px, taker.id)
      /\ \A b \in Linked : word[b] < taker.id
    BY RestLinkFacts
<1>4. /\ best_px \in [Sides -> Int] /\ live_levels \in [Sides -> Int]
      /\ word \in [Blocks -> Int] /\ id_index \in [Ids -> 0 .. Capacity] /\ stack \in Seq(Blocks)
      /\ next_id \in Int /\ px \in Int
    <2>1. next_id \in 1 .. MaxOrders + 1
        BY <1>1 DEF Kinds
    <2>2. next_id \in Int /\ px \in Int
        BY <1>3, <2>1 DEF Band
    <2> QED
        BY <1>1, <2>2 DEF Kinds
<1>5. taker.id \in Int /\ taker.id < next_id /\ taker.remaining > 0 /\ ~Crossing /\ victim = Null
    BY <1>1, <1>2 DEF OneCall, Ids
<1>a. \A b \in Linked : order[b].side = Opp(side) => ~Book!Crosses(taker, order[b].price)
    BY <1>2, <1>5, NoMakers
<1>b. NextToRest = taker.id
    BY <1>1, <1>2, NextIs
<1>6. /\ Linked' = Linked \cup {ret}
      /\ order'[ret].side = side /\ order'[ret].price = px
      /\ \A b \in Linked : order'[b].side = order[b].side /\ order'[b].price = order[b].price
    BY <1>3 DEF Appended
<1>7. Lists'
    BY <1>1, <1>3, AppendedLists
<1>8. Uncrossed'
    <2>1. \A b \in Linked : order[b].price \in Int
        BY <1>1, LinkedLevel DEF Band
    <2>2. \A b \in Linked : side = "buy" /\ order[b].side = "sell" => px < order[b].price
        BY <1>4, <1>a, <2>1 DEF Opp, Book!Opp, Book!Crosses
    <2>3. \A b \in Linked : side = "sell" /\ order[b].side = "buy" => order[b].price < px
        BY <1>4, <1>a, <2>1 DEF Opp, Book!Opp, Book!Crosses
    <2>4. ASSUME NEW b \in Linked', NEW a \in Linked',
                 order'[b].side = "buy", order'[a].side = "sell"
          PROVE  order'[b].price < order'[a].price
        <3>1. CASE b \in Linked /\ a \in Linked
            BY <1>1, <1>6, <2>4, <3>1 DEF Uncrossed
        <3>2. CASE b = ret /\ a \in Linked
            BY <1>6, <2>2, <2>4, <3>2
        <3>3. CASE b \in Linked /\ a = ret
            BY <1>6, <2>3, <2>4, <3>3
        <3>4. CASE b = ret /\ a = ret
            BY <2>4, <3>4
        <3> QED
            BY <1>6, <2>4, <3>1, <3>2, <3>3, <3>4
    <2> QED
        BY <2>4 DEF Uncrossed
<1>9. OneCall'
    BY <1>2, <1>5 DEF OneCall
<1>10. NextToRest' = next_id
    BY <1>2, <1>9, NextIsPrimed
<1>11. Indexed'
    <2>1. ASSUME NEW i \in Ids, id_index'[i] # Null
          PROVE  word'[id_index'[i]] = i /\ i < NextToRest'
        <3>1. CASE i = taker.id
            BY <1>2, <1>3, <1>4, <1>5, <1>10, <3>1
        <3>2. CASE i # taker.id
            <4>1. id_index'[i] = id_index[i]
                BY <1>2, <1>4, <3>2
            <4>2. word[id_index[i]] = i /\ i < taker.id
                BY <1>1, <1>b, <2>1, <4>1 DEF Indexed
            <4>3. id_index[i] \in Linked
                BY <1>1, <2>1, <4>1, IndexLinked
            <4>4. id_index[i] # ret /\ id_index[i] \in Blocks
                BY <1>3, <4>3 DEF Linked
            <4>5. i \in Int
                BY DEF Ids
            <4> QED
                BY <1>2, <1>4, <1>5, <1>10, <4>1, <4>2, <4>4, <4>5
        <3> QED
            BY <3>1, <3>2
    <2> QED
        BY <2>1 DEF Indexed
<1> HIDE DEF side, px
<1>12. /\ levels'[side][px].head # Null
       /\ \A s \in Sides, p \in Band : ~(s = side /\ p = px) =>
              levels'[s][p].head = levels[s][p].head
    <2>1. levels'[side][px].head = IF levels[side][px].tail = Null THEN ret
                                   ELSE levels[side][px].head
        BY <1>3 DEF Appended
    <2>2. levels[side][px].tail # Null => levels[side][px].head # Null
        BY <1>1, <1>3, Ends
    <2>3. ret # Null
        BY <1>3 DEF Blocks, Null
    <2> QED
        BY <1>3, <2>1, <2>2, <2>3
<1>13. \A s \in Sides : /\ Counted(s) = Populated(s)
                        /\ Counted(s)' = Populated(s) \cup (IF s = side THEN {px} ELSE {})
    BY <1>2, <1>3, <1>12 DEF Counted, Populated
<1>14. \A s \in Sides :
        /\ Populated(s) \subseteq Band /\ live_levels[s] = Cardinality(Populated(s))
        /\ BestOf(s, Populated(s), best_px[s])
    BY <1>1, <1>13 DEF Touch, BestOf
<1>15. ASSUME NEW s \in Sides
       PROVE  /\ Counted(s)' \subseteq Band /\ live_levels'[s] = Cardinality(Counted(s)')
              /\ BestOf(s, Counted(s)', best_px'[s])
    <2>1. CASE levels[side][px].head # Null
        <3>1. Counted(s)' = Populated(s)
            BY <1>3, <1>13, <2>1 DEF Populated
        <3> QED
            BY <1>2, <1>14, <2>1, <3>1
    <2>2. CASE levels[side][px].head = Null /\ s # side
        <3>1. live_levels'[s] = live_levels[s] /\ best_px'[s] = best_px[s]
            BY <1>2, <1>4, <2>2 DEF MarkLevelLive
        <3> QED
            BY <1>13, <1>14, <2>2, <3>1
    <2>3. CASE levels[side][px].head = Null /\ s = side
        <3>1. px \notin Populated(side)
            BY <2>3 DEF Populated
        <3> DEFINE best == best_px[side]
                   c == Cardinality(Populated(side))
                   nb == IF c = 0 \/ (IF side = "buy" THEN px > best ELSE px < best)
                         THEN px ELSE best
        <3>2. /\ best \in Int /\ Populated(side) \subseteq Band /\ live_levels[side] = c
              /\ BestOf(side, Populated(side), best)
            BY <1>3, <1>4, <1>14
        <3>3. live_levels'[side] = c + 1 /\ best_px'[side] = nb
            BY <1>2, <1>3, <1>4, <2>3, <3>2 DEF MarkLevelLive
        <3>4. c + 1 = Cardinality(Populated(side) \cup {px})
                /\ BestOf(side, Populated(side) \cup {px}, nb)
            BY <1>3, <3>1, <3>2, TouchLive
        <3>5. Counted(s)' = Populated(side) \cup {px}
            BY <1>13, <2>3
        <3> HIDE DEF best, c, nb
        <3> QED
            BY <1>3, <2>3, <3>2, <3>3, <3>4, <3>5
    <2> QED
        BY <2>1, <2>2, <2>3
<1>16. Touch'
    BY <1>15 DEF Touch, BestOf
<1>17. Kinds'
    <2>1. best_px' \in [Sides -> Int] /\ live_levels' \in [Sides -> Int]
        <3>1. CASE levels[side][px].head # Null
            BY <1>2, <1>4, <3>1
        <3>2. CASE levels[side][px].head = Null
            BY <1>2, <1>4, <3>2 DEF MarkLevelLive
        <3> QED
            BY <3>1, <3>2
    <2>2. word' \in [Blocks -> Int] /\ id_index' \in [Ids -> 0 .. Capacity]
        BY <1>2, <1>3, <1>4, <1>5 DEF Blocks
    <2> QED
        BY <1>1, <1>2, <1>3, <2>1, <2>2 DEF Kinds, OrderRecs, LevelRecs
<1>18. BlocksPartitioned'
    <2>1. Held = {ret} /\ Held' = {}
        BY <1>2, <1>5 DEF Held
    <2>2. Parted(stack, free_head, word, Linked, {ret}, in_use)
        BY <1>1, <2>1, Partition
    <2>3. Parted(stack, free_head, word', Linked \cup {ret}, {}, in_use)
        BY <1>2, <1>3, <1>4, <2>2, PartedLink
    <2> QED
        BY <1>2, <1>6, <2>1, <2>3, PartitionPrimed
<1> QED
    BY <1>7, <1>8, <1>9, <1>11, <1>16, <1>17, <1>18 DEF Inv

---------------------------------------------------------------------------
(* Cancel. *)

LEMMA CancelFacts ==
    ASSUME Inv, NEW id \in Ids, Cancel(id)
    PROVE  LET o == id_index[id]
               side == order[o].side
               px == order[o].price
           IN /\ o \in Linked /\ word[o] = id /\ side \in Sides /\ px \in Band
              /\ order' \in [Blocks -> OrderRecs] /\ levels' \in [Sides -> [Band -> LevelRecs]]
              /\ \A s \in Sides, p \in Band :
                    ~(s = side /\ p = px) => levels'[s][p] = levels[s][p]
              /\ levels' = [levels EXCEPT ![side] = levels'[side]]
              /\ levels'[side] = [levels[side] EXCEPT ![px] = Unlink(o, @)]
              /\ Bypassed(o)
<1> DEFINE o == id_index[id]
           side == order[o].side
           px == order[o].price
           lvl == Unlink(o, levels[side][px])
<1>1. Kinds /\ OneCall /\ Indexed /\ Lists
    BY DEF Inv
<1>2. /\ o # Null /\ word' = word /\ id_index' = [id_index EXCEPT ![id] = Null]
      /\ order' = Relink(o)
      /\ levels' = [levels EXCEPT ![side] = [levels[side] EXCEPT ![px] = lvl]]
    BY DEF Cancel, slabVars
<1>3. o \in Linked
    BY <1>1, <1>2, IndexLinked
<1>4. word[o] = id /\ side \in Sides /\ px \in Band /\ o \in Blocks
    BY <1>1, <1>2, <1>3, LinkedLevel, LinkedBlock DEF Indexed
<1>5. order \in [Blocks -> OrderRecs] /\ levels \in [Sides -> [Band -> LevelRecs]]
    BY <1>1, RecordKinds
<1>6. /\ levels[side][px] \in LevelRecs /\ order[o] \in OrderRecs
    BY <1>4, <1>5
<1>7. /\ lvl \in LevelRecs
      /\ lvl.head = IF order[o].prev = Null THEN order[o].next ELSE levels[side][px].head
      /\ lvl.tail = IF order[o].next = Null THEN order[o].prev ELSE levels[side][px].tail
      /\ lvl.total_qty = levels[side][px].total_qty - order[o].qty
      /\ lvl.order_count = levels[side][px].order_count - 1
    BY <1>6, UnlinkIs
<1>a. \A s \in Sides, p \in Band :
        s = order[o].side /\ p = order[o].price <=> s = side /\ p = px
    OBVIOUS
<1> HIDE DEF side, px, lvl
<1>8. /\ levels' \in [Sides -> [Band -> LevelRecs]]
      /\ \A s \in Sides, p \in Band :
            levels'[s][p] = IF s = side /\ p = px THEN lvl ELSE levels[s][p]
    BY <1>2, <1>4, <1>5, <1>7, OneLevel
<1>9. \A b \in Blocks : order[b] \in OrderRecs
    BY <1>5
<1>b. \A b \in Blocks : order'[b] =
        [order[b] EXCEPT !.next = IF b = order[o].prev THEN order[o].next ELSE @,
                         !.prev = IF b = order[o].next THEN order[o].prev ELSE @]
    BY <1>2 DEF Relink
<1>c. order[o].next \in 0 .. Capacity /\ order[o].prev \in 0 .. Capacity
    BY <1>6 DEF OrderRecs
<1>10. ASSUME NEW b \in Blocks
       PROVE  /\ order'[b] \in OrderRecs
              /\ order'[b].side = order[b].side /\ order'[b].price = order[b].price
              /\ order'[b].qty = order[b].qty
              /\ order'[b].next = IF b = order[o].prev THEN order[o].next ELSE order[b].next
              /\ order'[b].prev = IF b = order[o].next THEN order[o].prev ELSE order[b].prev
    <2> DEFINE n == IF b = order[o].prev THEN order[o].next ELSE order[b].next
               v == IF b = order[o].next THEN order[o].prev ELSE order[b].prev
    <2>1. order[b] \in OrderRecs
        BY <1>9
    <2>2. n \in 0 .. Capacity /\ v \in 0 .. Capacity
        BY <1>c, <2>1 DEF OrderRecs
    <2>3. order'[b] = [order[b] EXCEPT !.next = n, !.prev = v]
        BY <1>b
    <2> HIDE DEF n, v
    <2>4. /\ order'[b] \in OrderRecs
          /\ order'[b].side = order[b].side /\ order'[b].price = order[b].price
          /\ order'[b].qty = order[b].qty /\ order'[b].next = n /\ order'[b].prev = v
        BY <2>1, <2>2, <2>3 DEF OrderRecs
    <2> QED
        BY <2>4 DEF n, v
<1>11. order' \in [Blocks -> OrderRecs]
    BY <1>2, <1>10 DEF Relink
<1>12. Linked' = Linked \ {o}
    BY <1>1, <1>2, <1>3, <1>4, LinkedErase
<1>13. \A b \in Linked : b \in Blocks
    BY DEF Linked
<1>14. \A s \in Sides, p \in Band :
          LET here == s = order[o].side /\ p = order[o].price
          IN /\ levels'[s][p].head = IF here /\ order[o].prev = Null THEN order[o].next
                                     ELSE levels[s][p].head
             /\ levels'[s][p].tail = IF here /\ order[o].next = Null THEN order[o].prev
                                     ELSE levels[s][p].tail
             /\ levels'[s][p].total_qty = IF here THEN levels[s][p].total_qty - order[o].qty
                                          ELSE levels[s][p].total_qty
             /\ levels'[s][p].order_count = IF here THEN levels[s][p].order_count - 1
                                            ELSE levels[s][p].order_count
    BY <1>7, <1>8, <1>a
<1>15. Bypassed(o)
    BY <1>2, <1>10, <1>12, <1>13, <1>14 DEF Bypassed
<1>16. /\ levels'[side] = [levels[side] EXCEPT ![px] = lvl]
       /\ levels' = [levels EXCEPT ![side] = levels'[side]]
    BY <1>2, <1>4, <1>5
<1> QED
    BY <1>3, <1>4, <1>8, <1>11, <1>15, <1>16 DEF side, px, lvl

LEMMA CancelStep ==
    ASSUME Inv, NEW id \in Ids, Cancel(id)
    PROVE  Inv'
<1> DEFINE o == id_index[id]
           side == order[o].side
           px == order[o].price
           ladder == levels'[side]
<1>1. Kinds /\ OneCall /\ Indexed /\ Lists /\ Touch /\ Uncrossed /\ BlocksPartitioned
    BY DEF Inv
<1>2. /\ o \in Linked /\ word[o] = id /\ side \in Sides /\ px \in Band
      /\ order' \in [Blocks -> OrderRecs] /\ levels' \in [Sides -> [Band -> LevelRecs]]
      /\ \A s \in Sides, p \in Band : ~(s = side /\ p = px) => levels'[s][p] = levels[s][p]
      /\ levels'[side] = [levels[side] EXCEPT ![px] = Unlink(o, @)]
      /\ Bypassed(o)
    BY CancelFacts
<1>3. /\ pc = "idle" /\ pc' = "release" /\ victim' = o
      /\ id_index' = [id_index EXCEPT ![id] = Null]
      /\ UNCHANGED <<free_head, word, in_use, stack, taker, next_id>>
    BY DEF Cancel, slabVars
<1>4. IF ladder[px].head = Null
      THEN /\ live_levels' = [live_levels EXCEPT ![side] = @ - 1]
           /\ best_px' = [best_px EXCEPT ![side] =
                 IF live_levels[side] > 1 /\ px = @ THEN NextPopulated(side, px, ladder)
                 ELSE @]
      ELSE UNCHANGED <<best_px, live_levels>>
    BY <1>2 DEF Cancel, MarkLevelEmptied
<1>5. o \in Blocks /\ o # Null /\ px \in Populated(side)
    BY <1>1, <1>2, LinkedBlock, LinkedPopulated
<1> HIDE DEF o, side, px, ladder
<1>6. /\ best_px \in [Sides -> Int] /\ live_levels \in [Sides -> Int] /\ Band \subseteq Int
      /\ id_index \in [Ids -> 0 .. Capacity]
    BY <1>1 DEF Kinds, Band
<1>7. \A s \in Sides : Counted(s) = Populated(s) /\ Counted(s)' = Populated(s)'
    BY <1>3 DEF Counted
<1>8. \A s \in Sides :
        /\ Populated(s) \subseteq Band /\ live_levels[s] = Cardinality(Populated(s))
        /\ BestOf(s, Populated(s), best_px[s])
    BY <1>1, <1>7 DEF Touch, BestOf
<1>9. ASSUME NEW s \in Sides
      PROVE  /\ Populated(s)' \subseteq Band /\ live_levels'[s] = Cardinality(Populated(s)')
             /\ BestOf(s, Populated(s)', best_px'[s]) /\ best_px'[s] \in Int
    <2>1. CASE ladder[px].head # Null
        <3>1. Populated(s)' = Populated(s)
            BY <1>2, <1>5, <2>1 DEF Populated, ladder
        <3> QED
            BY <1>4, <1>6, <1>8, <2>1, <3>1
    <2>2. CASE ladder[px].head = Null /\ s # side
        <3>1. Populated(s)' = Populated(s)
            BY <1>2, <2>2 DEF Populated
        <3>2. live_levels'[s] = live_levels[s] /\ best_px'[s] = best_px[s]
            BY <1>4, <1>6, <2>2
        <3> QED
            BY <1>6, <1>8, <3>1, <3>2
    <2>3. CASE ladder[px].head = Null /\ s = side
        <3>1. Populated(side) \ {px} = { p \in Band : ladder[p].head # Null }
            BY <1>2, <2>3 DEF Populated, ladder
        <3>2. Populated(s)' = Populated(side) \ {px}
            BY <2>3, <3>1 DEF Populated, ladder
        <3> DEFINE c == Cardinality(Populated(side))
                   nb == IF c > 1 /\ px = best_px[side] THEN NextPopulated(side, px, ladder)
                         ELSE best_px[side]
        <3>3. /\ best_px[side] \in Int /\ Populated(side) \subseteq Band /\ live_levels[side] = c
              /\ BestOf(side, Populated(side), best_px[side])
            BY <1>2, <1>6, <1>8
        <3>4. live_levels'[side] = c - 1 /\ best_px'[side] = nb
            BY <1>2, <1>4, <1>6, <2>3, <3>3
        <3>5. /\ c - 1 = Cardinality(Populated(side) \ {px})
              /\ BestOf(side, Populated(side) \ {px}, nb) /\ nb \in Int
            <4>1. side \in Sides /\ px \in Populated(side)
                BY <1>2, <1>5
            <4> QED
                BY <3>1, <3>3, <4>1, TouchEmptied
        <3> HIDE DEF c, nb
        <3> QED
            BY <2>3, <3>2, <3>3, <3>4, <3>5
    <2> QED
        BY <2>1, <2>2, <2>3
<1>10. Touch'
    BY <1>7, <1>9 DEF Touch, BestOf
<1>11. Kinds'
    <2>1. best_px' \in [Sides -> Int] /\ live_levels' \in [Sides -> Int]
        <3>1. CASE ladder[px].head # Null
            BY <1>4, <1>6, <3>1
        <3>2. CASE ladder[px].head = Null
            <4>1. best_px'[side] \in Int
                BY <1>2, <1>9
            <4> QED
                BY <1>4, <1>6, <3>2, <4>1
        <3> QED
            BY <3>1, <3>2
    <2>2. id_index' \in [Ids -> 0 .. Capacity]
        BY <1>3, <1>6 DEF Null
    <2> QED
        BY <1>1, <1>2, <1>3, <2>1, <2>2 DEF Kinds, OrderRecs, LevelRecs
<1>12. OneCall'
    BY <1>1, <1>3, <1>5 DEF OneCall
<1>13. NextToRest' = NextToRest
    BY <1>3 DEF NextToRest
<1>14. Indexed'
    <2>1. \A i \in Ids : id_index'[i] # Null => id_index'[i] = id_index[i]
        BY <1>3, <1>6
    <2> QED
        BY <1>1, <1>3, <1>13, <2>1 DEF Indexed
<1>15. Lists' /\ Uncrossed'
    BY <1>1, <1>2, BypassedLists
<1>16. Held = {} /\ Held' = {o}
    BY <1>1, <1>3, <1>5 DEF Held, OneCall
<1>17. Linked' = Linked \ {o}
    BY <1>2 DEF Bypassed
<1>18. BlocksPartitioned'
    BY <1>1, <1>2, <1>3, <1>16, <1>17, Partition, PartitionPrimed, PartedHold
<1> QED
    BY <1>10, <1>11, <1>12, <1>14, <1>15, <1>18 DEF Inv

---------------------------------------------------------------------------
(* Every step keeps Inv. *)

LEMMA NextInv == Inv /\ [Next]_vars => Inv'
<1> SUFFICES ASSUME Inv, [Next]_vars PROVE Inv'
    OBVIOUS
<1>1. ASSUME NEW side \in Sides, NEW px \in Prices, NEW qty \in Quantities,
             AddLimit(side, px, qty)
      PROVE  Inv'
    BY <1>1, AddLimitStep
<1>2. CASE FillPart
    BY <1>2, FillPartStep
<1>3. CASE FillWhole
    BY <1>3, FillWholeStep
<1>4. CASE Reclaim
    BY <1>4, ReclaimStep
<1>5. CASE Filled
    BY <1>5, ReturnStep DEF Filled, slabVars
<1>6. CASE RestOutOfBand
    BY <1>6, ReturnStep DEF RestOutOfBand, slabVars
<1>7. CASE RestSlabFull
    BY <1>7, ReturnStep DEF RestSlabFull, Slab!AllocateFails
<1>8. CASE RestAllocate
    BY <1>8, RestAllocateStep
<1>9. CASE RestLink
    BY <1>9, RestLinkStep
<1>10. ASSUME NEW id \in Ids, Cancel(id)
       PROVE  Inv'
    BY <1>10, CancelStep
<1>11. ASSUME NEW id \in Ids, CancelUnknown(id)
       PROVE  Inv'
    BY <1>11, CancelUnknownStep
<1>12. CASE Release
    BY <1>12, ReleaseStep
<1>13. CASE UNCHANGED vars
    BY <1>13, StutterStep
<1> QED
    BY <1>1, <1>2, <1>3, <1>4, <1>5, <1>6, <1>7, <1>8, <1>9, <1>10, <1>11, <1>12, <1>13 DEF Next

(* The inductive invariant holds of every behaviour of the book.           *)
THEOREM Invariance == Spec => []Inv
    BY InitInv, NextInv, PTL DEF Spec

(* Slab, lists and the call in progress share the blocks exactly, in every *)
(* interleaving of fills, rests and cancels: Allocate never hands out a    *)
(* resting order's block, Deallocate is never called twice on one.         *)
THEOREM BlocksPartitionedHolds == Spec => []BlocksPartitioned
<1>1. Inv => BlocksPartitioned
    BY DEF Inv
<1> QED
    BY <1>1, Invariance, PTL

(* MarkLevelLive and MarkLevelEmptied keep best_px_ the best populated     *)
(* level, whatever levels fill, drain or are cancelled in what order.      *)
THEOREM TouchExactHolds == Spec => []TouchExact
<1>1. Inv => TouchExact
    <2> SUFFICES ASSUME Inv, pc # "reclaim", NEW s \in Sides
                 PROVE  /\ live_levels[s] = Cardinality(Populated(s))
                        /\ live_levels[s] > 0 =>
                             best_px[s] = IF s = "buy" THEN Max(Populated(s)) ELSE Min(Populated(s))
        BY DEF TouchExact
    <2> DEFINE P == Populated(s)
    <2>1. Counted(s) = P
        BY DEF Counted
    <2>2. /\ P \subseteq Band /\ live_levels[s] = Cardinality(P)
          /\ P # {} => /\ best_px[s] \in P
                       /\ \A p \in P : p = best_px[s] \/ Worse(s, p, best_px[s])
        BY <2>1 DEF Inv, Touch
    <2> HIDE DEF P
    <2>3. ASSUME live_levels[s] > 0
          PROVE  best_px[s] = IF s = "buy" THEN Max(P) ELSE Min(P)
        <3>1. P # {}
            BY <2>2, <2>3, FS_EmptySet
        <3>2. best_px[s] \in P /\ \A p \in P : p \in Int
            BY <2>2, <3>1 DEF Band
        <3>3. CASE s = "buy"
            <4>1. \A p \in P : best_px[s] >= p
                BY <2>2, <3>1, <3>2, <3>3 DEF Worse
            <4>2. Max(P) \in P /\ \A p \in P : Max(P) >= p
                BY <3>2, <4>1 DEF Max
            <4> QED
                BY <3>2, <3>3, <4>1, <4>2
        <3>4. CASE s # "buy"
            <4>1. \A p \in P : best_px[s] =< p
                BY <2>2, <3>1, <3>2, <3>4 DEF Worse
            <4>2. Min(P) \in P /\ \A p \in P : Min(P) =< p
                BY <3>2, <4>1 DEF Min
            <4> QED
                BY <3>2, <3>4, <4>1, <4>2
        <3> QED
            BY <3>3, <3>4
    <2> QED
        BY <2>2, <2>3 DEF P
<1> QED
    BY <1>1, Invariance, PTL

(* No resting bid is ever at or above a resting ask between calls.         *)
THEOREM NotCrossedHolds == Spec => []NotCrossed
<1>1. Inv => NotCrossed
    <2> SUFFICES ASSUME Inv, NEW b \in Resting, NEW a \in Resting, b.side = "buy", a.side = "sell"
                 PROVE  b.price < a.price
        BY DEF NotCrossed, Book!NotCrossed
    <2>1. PICK x \in Linked : b.side = order[x].side /\ b.price = order[x].price
        BY DEF Resting
    <2>2. PICK y \in Linked : a.side = order[y].side /\ a.price = order[y].price
        BY DEF Resting
    <2> QED
        BY <2>1, <2>2 DEF Inv, Uncrossed
<1> QED
    BY <1>1, Invariance, PTL

---------------------------------------------------------------------------
(* The book implements price-time priority. *)

Rec(b) == [id |-> word[b], side |-> order[b].side, price |-> order[b].price,
           qty |-> order[b].qty]

LEMMA RestingIs == Resting = { Rec(b) : b \in Linked }
    BY DEF Resting, Rec

(* Ids tell resting orders apart. *)
LEMMA RecInjective ==
    ASSUME Indexed, NEW b \in Linked, NEW c \in Linked, Rec(b).id = Rec(c).id
    PROVE  b = c
<1>1. word[b] = word[c]
    BY DEF Rec
<1> QED
    BY <1>1, LinkedBlock

LEMMA RestingSize ==
    ASSUME Indexed
    PROVE  Book!Cardinality(Resting) = Cardinality(Linked)
<1> DEFINE f == [b \in Linked |-> Rec(b)]
<1>1. f \in [Linked -> Resting]
    BY RestingIs
<1>2. \A b, c \in Linked : f[b] = f[c] => b = c
    BY RecInjective
<1>3. \A m \in Resting : \E b \in Linked : f[b] = m
    BY RestingIs
<1>4. f \in Bijection(Linked, Resting)
    BY <1>1, <1>2, <1>3 DEF Bijection, Injection, Surjection, IsInjective
<1>5. ExistsBijection(Linked, Resting)
    BY <1>4 DEF ExistsBijection
<1>6. IsFiniteSet(Linked)
    BY BlocksFinite DEF Linked
<1>7. Cardinality(Resting) = Cardinality(Linked)
    BY <1>5, <1>6, FS_Bijection
<1> QED
    BY <1>7 DEF Cardinality, Book!Cardinality

LEMMA RestingSame ==
    ASSUME Linked' = Linked, \A b \in Linked : word'[b] = word[b] /\ order'[b] = order[b]
    PROVE  Resting' = Resting
    BY DEF Resting

(* The head of the best level is BookSpec's best maker. *)
LEMMA BestMakerIs ==
    ASSUME Inv, pc = "match", Crossing
    PROVE  LET m == Rec(levels[Opp(taker.side)][best_px[Opp(taker.side)]].head)
           IN m \in Resting /\ m \in Book!Makers /\ Book!BestMaker(m)
<1> DEFINE side == Opp(taker.side)
           px == best_px[side]
           maker == levels[side][px].head
           m == Rec(maker)
<1>1. Kinds /\ Indexed /\ Lists /\ Touch
    BY DEF Inv
<1>2. /\ side \in Sides /\ px \in Band /\ maker \in Linked
      /\ order[maker].side = side /\ order[maker].price = px
    BY Maker
<1>3. Book!Crosses(taker, px) /\ side = Book!Opp(taker.side)
    BY DEF Crossing, Opp
<1> HIDE DEF side, px
<1>4. m \in Resting /\ m.side = side /\ m.price = px /\ m.id = word[maker]
    BY <1>2, RestingIs DEF Rec
<1>5. m \in Book!Makers
    BY <1>3, <1>4 DEF Book!Makers
<1>6. ASSUME NEW n \in Book!Makers
      PROVE  n = m \/ Book!Precedes(m, n)
    <2>1. PICK c \in Linked : n = Rec(c)
        BY RestingIs DEF Book!Makers
    <2>2. order[c].side = side /\ n.price = order[c].price /\ n.id = word[c]
        BY <1>3, <2>1 DEF Book!Makers, Rec
    <2>3. order[c].price \in Populated(side)
        BY <1>1, <2>2, LinkedPopulated
    <2>4. Counted(side) = Populated(side)
        BY DEF Counted
    <2>5. order[c].price = px \/ Worse(side, order[c].price, px)
        BY <1>1, <1>2, <2>3, <2>4 DEF Touch, px
    <2>6. CASE order[c].price = px
        <3>1. maker = c \/ word[maker] < word[c]
            BY <1>1, <2>2, <2>6, HeadIsFirst
        <3> QED
            BY <1>4, <2>1, <2>2, <2>6, <3>1 DEF Book!Precedes
    <2>7. CASE Worse(side, order[c].price, px)
        <3>1. order[c].price \in Int /\ px \in Int
            BY <1>2, <2>3 DEF Populated, Band
        <3> QED
            BY <1>4, <2>2, <2>7, <3>1 DEF Worse, Book!Precedes
    <2> QED
        BY <2>5, <2>6, <2>7
<1>7. Book!BestMaker(m)
    BY <1>6 DEF Book!BestMaker
<1> QED
    BY <1>4, <1>5, <1>7 DEF side, px

(* A taker that does not cross the touch has no maker. *)
LEMMA NothingToTrade ==
    ASSUME Inv, pc \in {"match", "link"}, taker.remaining > 0, ~Crossing
    PROVE  Book!Makers = {} /\ Book!Matched
<1>1. ASSUME NEW m \in Book!Makers PROVE FALSE
    <2>1. m \in Resting /\ m.side = Opp(taker.side) /\ Book!Crosses(taker, m.price)
        BY DEF Book!Makers, Opp
    <2>2. PICK b \in Linked : m = Rec(b)
        BY <2>1, RestingIs
    <2>3. m.side = order[b].side /\ m.price = order[b].price
        BY <2>2 DEF Rec
    <2> QED
        BY <2>1, <2>3, NoMakers
<1>2. taker # Book!NoTaker
    BY NextIs DEF Inv
<1> QED
    BY <1>1, <1>2 DEF Book!Matched

LEMMA FillPartSim ==
    ASSUME Inv, FillPart
    PROVE  Book!Next
<1> DEFINE side == Opp(taker.side)
           px == best_px[side]
           maker == levels[side][px].head
           m == Rec(maker)
           q == taker.remaining
<1>1. Kinds /\ OneCall /\ Indexed
    BY DEF Inv
<1>2. pc = "match" /\ Crossing
    BY DEF FillPart
<1>3. m \in Resting /\ m \in Book!Makers /\ Book!BestMaker(m)
    BY <1>2, BestMakerIs
<1>4. /\ maker \in Linked /\ maker \in Blocks /\ order[maker].price = px /\ q \in Nat
    BY <1>2, Maker
<1>5. /\ order[maker].qty > q
      /\ order' = [order EXCEPT ![maker] = [order[maker] EXCEPT !.qty = @ - q]]
      /\ taker' = [taker EXCEPT !.remaining = 0]
      /\ event' = Book!FillEvent(word[maker], taker, px, q)
      /\ UNCHANGED <<word, id_index, next_id>>
    BY DEF FillPart, slabVars
<1> HIDE DEF side, px, maker
<1>6. order \in [Blocks -> OrderRecs]
    BY <1>1, RecordKinds
<1>7. order[maker] \in OrderRecs
    BY <1>4, <1>6
<1>8. order[maker].qty \in Int
    BY <1>7 DEF OrderRecs
<1>9. m.id = word[maker] /\ m.price = px /\ m.qty = order[maker].qty
    BY <1>4 DEF Rec
<1>10. Book!Smaller(q, m.qty) = q /\ q # m.qty /\ q - q = 0
    BY <1>4, <1>5, <1>8, <1>9 DEF Book!Smaller
<1>11. Linked' = Linked
    BY <1>5 DEF Linked
<1> DEFINE k == [m EXCEPT !.qty = @ - q]
<1>12. k = [id |-> word'[maker], side |-> order'[maker].side, price |-> order'[maker].price,
            qty |-> order'[maker].qty]
    <2>1. order'[maker] = [order[maker] EXCEPT !.qty = @ - q]
        BY <1>4, <1>5, <1>6
    <2>2. /\ order'[maker].side = order[maker].side /\ order'[maker].price = order[maker].price
          /\ order'[maker].qty = order[maker].qty - q
        BY <1>7, <2>1 DEF OrderRecs
    <2> QED
        BY <1>5, <2>2 DEF Rec
<1>13. ASSUME NEW b \in Linked, b # maker
       PROVE  /\ [id |-> word'[b], side |-> order'[b].side, price |-> order'[b].price,
                  qty |-> order'[b].qty] = Rec(b)
              /\ Rec(b) # m
    <2>1. order'[b] = order[b]
        BY <1>4, <1>5, <1>6, <1>13 DEF Linked
    <2>2. Rec(b) # m
        BY <1>1, <1>4, <1>13, RecInjective
    <2> QED
        BY <1>5, <2>1, <2>2 DEF Rec
<1>14. Resting' = { [id |-> word'[b], side |-> order'[b].side, price |-> order'[b].price,
                    qty |-> order'[b].qty] : b \in Linked }
    BY <1>11 DEF Resting
<1> HIDE DEF k, m
<1>15. Resting' = (Resting \ {m}) \cup {k}
    <2>1. Resting = { Rec(b) : b \in Linked } /\ m = Rec(maker)
        BY RestingIs DEF m
    <2>2. Resting' \subseteq (Resting \ {m}) \cup {k}
        BY <1>12, <1>13, <1>14, <2>1
    <2>3. (Resting \ {m}) \cup {k} \subseteq Resting'
        BY <1>4, <1>12, <1>13, <1>14, <2>1
    <2> QED
        BY <2>2, <2>3
<1>16. taker # Book!NoTaker /\ taker.remaining > 0
    BY <1>1, <1>2, NextIs DEF Crossing
<1>17. taker' = [taker EXCEPT !.remaining = @ - q]
    BY <1>5, <1>10
<1>18. Book!Fill(m)
    BY <1>3, <1>5, <1>9, <1>10, <1>15, <1>16, <1>17 DEF Book!Fill, k
<1> QED
    BY <1>3, <1>18 DEF Book!Next

(* Taking a block out of its list takes its order out of the book. *)
LEMMA BypassedResting ==
    ASSUME Indexed, NEW o \in Linked, Bypassed(o)
    PROVE  Resting' = Resting \ {Rec(o)}
<1>1. /\ Linked' = Linked \ {o} /\ word' = word
      /\ \A b \in Linked \ {o} :
            /\ order'[b].side = order[b].side /\ order'[b].price = order[b].price
            /\ order'[b].qty = order[b].qty
    BY DEF Bypassed
<1>2. Resting' = { Rec(b) : b \in Linked \ {o} }
    BY <1>1 DEF Resting, Rec
<1>3. \A b \in Linked \ {o} : Rec(b) # Rec(o)
    BY RecInjective
<1> QED
    BY <1>2, <1>3, RestingIs

LEMMA FillWholeSim ==
    ASSUME Inv, FillWhole
    PROVE  Book!Next
<1> DEFINE side == Opp(taker.side)
           px == best_px[side]
           maker == levels[side][px].head
           m == Rec(maker)
           q == order[maker].qty
<1>1. Kinds /\ OneCall /\ Indexed
    BY DEF Inv
<1>2. pc = "match" /\ Crossing
    BY DEF FillWhole
<1>3. m \in Resting /\ m \in Book!Makers /\ Book!BestMaker(m)
    BY <1>2, BestMakerIs
<1>4. /\ maker \in Linked /\ maker \in Blocks /\ order[maker].price = px
      /\ taker.remaining \in Nat
    BY <1>2, Maker
<1>5. /\ q =< taker.remaining
      /\ taker' = [taker EXCEPT !.remaining = @ - q]
      /\ event' = Book!FillEvent(word[maker], taker, px, q)
      /\ next_id' = next_id
    BY DEF FillWhole
<1>6. Bypassed(maker)
    BY FillWholeFacts
<1> HIDE DEF side, px, maker
<1>7. q \in Int
    <2>1. order[maker] \in OrderRecs
        BY <1>1, <1>4, RecordKinds
    <2> QED
        BY <2>1 DEF OrderRecs
<1>8. m.id = word[maker] /\ m.price = px /\ m.qty = q
    BY <1>4 DEF Rec
<1>9. Book!Smaller(taker.remaining, m.qty) = q
    BY <1>4, <1>5, <1>7, <1>8 DEF Book!Smaller
<1>10. Resting' = (Resting \ {m}) \cup {}
    BY <1>1, <1>4, <1>6, BypassedResting
<1>11. taker # Book!NoTaker /\ taker.remaining > 0
    BY <1>1, <1>2, NextIs DEF Crossing
<1> HIDE DEF m, q
<1>12. Book!Fill(m)
    BY <1>3, <1>5, <1>8, <1>9, <1>10, <1>11 DEF Book!Fill
<1> QED
    BY <1>3, <1>12 DEF Book!Next

LEMMA CancelSim ==
    ASSUME Inv, NEW id \in Ids, Cancel(id)
    PROVE  Book!Next
<1> DEFINE o == id_index[id]
           m == Rec(o)
<1>1. OneCall /\ Indexed
    BY DEF Inv
<1>2. o \in Linked /\ Bypassed(o)
    BY CancelFacts
<1>3. Resting' = Resting \ {m} /\ m \in Resting
    BY <1>1, <1>2, BypassedResting, RestingIs
<1>4. /\ pc = "idle" /\ taker' = taker /\ next_id' = next_id
      /\ event' = Book!OrderEvent("cancel", word[o], order[o].side, order[o].price, order[o].qty)
    BY DEF Cancel
<1>5. m.id = word[o] /\ m.side = order[o].side /\ m.price = order[o].price /\ m.qty = order[o].qty
    BY DEF Rec
<1>6. taker = Book!NoTaker
    BY <1>1, <1>4 DEF OneCall
<1> HIDE DEF m
<1>7. Book!Cancel(m)
    BY <1>3, <1>4, <1>5, <1>6 DEF Book!Cancel
<1> QED
    BY <1>3, <1>7 DEF Book!Next

LEMMA CancelUnknownSim ==
    ASSUME Inv, NEW id \in Ids, CancelUnknown(id)
    PROVE  Book!Next
<1>1. OneCall /\ Indexed
    BY DEF Inv
<1>2. /\ pc = "idle" /\ id_index[id] = Null
      /\ event' = Book!OrderEvent("unknown", id, "buy", 0, 0)
      /\ UNCHANGED <<word, order, id_index, taker, next_id>>
    BY DEF CancelUnknown, slabVars
<1>3. \A m \in Resting : m.id # id
    <2> TAKE m \in Resting
    <2>1. PICK b \in Linked : m.id = word[b]
        BY DEF Resting
    <2> QED
        BY <1>1, <1>2, <2>1, LinkedBlock
<1>4. Resting' = Resting
    BY <1>2 DEF Resting, Linked
<1>5. taker = Book!NoTaker
    BY <1>1, <1>2 DEF OneCall
<1>6. Book!CancelUnknown(id)
    BY <1>2, <1>3, <1>4, <1>5 DEF Book!CancelUnknown
<1> QED
    BY <1>6 DEF Book!Next, Ids

LEMMA AddLimitSim ==
    ASSUME Inv, NEW side \in Sides, NEW px \in Prices, NEW qty \in Quantities,
           AddLimit(side, px, qty)
    PROVE  Book!Next
<1>1. taker = Book!NoTaker
    BY DEF Inv, OneCall, AddLimit
<1>2. Resting' = Resting
    BY DEF AddLimit, slabVars, Resting, Linked
<1>3. Book!AddLimit(side, px, qty)
    BY <1>1, <1>2 DEF AddLimit, Book!AddLimit
<1> QED
    BY <1>3 DEF Book!Next, Sides

LEMMA ReturnSim ==
    ASSUME NEW kind, Return(kind), next_id' = next_id
    PROVE  Book!Return(kind)
    BY DEF Return, Book!Return

LEMMA FilledSim ==
    ASSUME Inv, Filled
    PROVE  Book!Next
<1>1. taker # Book!NoTaker /\ taker.remaining = 0
    BY NextIs DEF Inv, Filled
<1>2. Resting' = Resting
    BY DEF Filled, slabVars, Resting, Linked
<1>3. Book!Return("filled")
    BY ReturnSim DEF Filled
<1>4. Book!Filled
    BY <1>1, <1>2, <1>3 DEF Book!Filled, Book!Matched
<1> QED
    BY <1>4 DEF Book!Next

LEMMA RestOutOfBandSim ==
    ASSUME Inv, RestOutOfBand
    PROVE  Book!Next
<1>1. pc = "match" /\ taker.remaining > 0 /\ ~Crossing /\ ~Book!InBand(taker.price)
    BY DEF RestOutOfBand
<1>2. Book!Matched
    BY <1>1, NothingToTrade
<1>3. Resting' = Resting
    BY DEF RestOutOfBand, slabVars, Resting, Linked
<1>4. Book!Return("rejected")
    BY ReturnSim DEF RestOutOfBand
<1>5. Book!Reject
    BY <1>1, <1>2, <1>3, <1>4 DEF Book!Reject, Book!Room
<1> QED
    BY <1>5 DEF Book!Next

LEMMA RestSlabFullSim ==
    ASSUME Inv, RestSlabFull
    PROVE  Book!Next
<1>1. pc = "match" /\ taker.remaining > 0 /\ ~Crossing /\ free_head = Null
    BY DEF RestSlabFull, Slab!AllocateFails, Slab!Null, Null
<1>2. Book!Matched
    BY <1>1, NothingToTrade
<1>3. Resting' = Resting
    BY DEF RestSlabFull, Slab!AllocateFails, Resting, Linked
<1>4. Book!Return("rejected")
    BY ReturnSim DEF RestSlabFull
<1>5. Held = {}
    BY <1>1 DEF Held, Inv, OneCall
<1>6. Parted(stack, free_head, word, Linked, {}, in_use) /\ stack \in Seq(Blocks)
    BY <1>5, Partition DEF Inv, Kinds
<1>7. stack = <<>>
    <2>1. stack # <<>> => stack[1] \in Blocks
        BY <1>6
    <2>2. free_head = IF stack = <<>> THEN Null ELSE stack[1]
        BY <1>6 DEF Parted, Threaded
    <2>3. Null \notin Blocks
        BY DEF Null, Blocks
    <2> QED
        BY <1>1, <2>1, <2>2, <2>3
<1>8. Elems(stack) = {}
    BY <1>6, <1>7, SeqFacts
<1>9. Linked = Blocks
    BY <1>6, <1>8 DEF Parted
<1>10. Book!Cardinality(Resting) = Capacity
    <2>1. Book!Cardinality(Resting) = Cardinality(Linked)
        BY RestingSize DEF Inv
    <2>2. Cardinality(Blocks) = Capacity
        BY FS_Interval DEF Blocks
    <2> QED
        BY <1>9, <2>1, <2>2
<1>11. ~Book!Room
    BY <1>10 DEF Book!Room
<1>12. Book!Reject
    BY <1>1, <1>2, <1>3, <1>4, <1>11 DEF Book!Reject
<1> QED
    BY <1>12 DEF Book!Next

LEMMA RestLinkSim ==
    ASSUME Inv, RestLink
    PROVE  Book!Next
<1>1. /\ pc = "link" /\ taker.remaining > 0 /\ ~Crossing /\ Book!InBand(taker.price)
    BY DEF RestLink, Inv, OneCall
<1>2. Book!Matched
    BY <1>1, NothingToTrade
<1>3. Book!Return("rested")
    BY ReturnSim DEF RestLink
<1>4. /\ ret \in Blocks /\ ret \notin Linked
      /\ Appended(ret, taker.side, taker.price, taker.id) /\ order'[ret].qty = taker.remaining
    BY RestLinkFacts
<1>5. Book!Cardinality(Resting) < Capacity
    <2>1. Book!Cardinality(Resting) = Cardinality(Linked)
        BY RestingSize DEF Inv
    <2>2. Linked \subseteq Blocks /\ Linked \cup {ret} \subseteq Blocks
        BY <1>4 DEF Linked
    <2>3. IsFiniteSet(Linked) /\ Cardinality(Linked) \in Nat
        BY <2>2, BlocksFinite
    <2>4. Cardinality(Linked \cup {ret}) = Cardinality(Linked) + 1
        BY <1>4, <2>3, FS_AddElement
    <2>5. Cardinality(Linked \cup {ret}) =< Capacity
        BY <2>2, BlocksFinite
    <2> QED
        BY <2>1, <2>3, <2>4, <2>5
<1>6. Resting' = Resting \cup {[id |-> taker.id, side |-> taker.side,
                               price |-> taker.price, qty |-> taker.remaining]}
    <2>1. /\ Linked' = Linked \cup {ret}
          /\ word'[ret] = taker.id /\ order'[ret].side = taker.side
          /\ order'[ret].price = taker.price
          /\ \A b \in Linked : /\ word'[b] = word[b] /\ order'[b].side = order[b].side
                               /\ order'[b].price = order[b].price
                               /\ order'[b].qty = order[b].qty
        BY <1>4 DEF Appended
    <2> QED
        BY <1>4, <2>1 DEF Resting
<1>7. Book!Rest
    BY <1>1, <1>2, <1>3, <1>5, <1>6 DEF Book!Rest, Book!Room
<1> QED
    BY <1>7 DEF Book!Next

(* Reclaiming, releasing and allocating a block are invisible. *)
LEMMA SlabSim ==
    ASSUME Inv, Reclaim \/ Release \/ RestAllocate
    PROVE  UNCHANGED Book!vars
<1>1. UNCHANGED <<taker, event, next_id>>
    BY DEF Reclaim, Release, RestAllocate
<1>2. CASE RestAllocate
    BY <1>1, <1>2 DEF RestAllocate, Slab!Allocate, Resting, Linked, Book!vars
<1>3. CASE Reclaim
    BY <1>1, <1>3, FreeFacts, RestingSame DEF Reclaim, Book!vars
<1>4. CASE Release
    BY <1>1, <1>4, FreeFacts, RestingSame DEF Release, ladderVars, Book!vars
<1> QED
    BY <1>2, <1>3, <1>4

LEMMA NextSim == Inv /\ [Next]_vars => [Book!Next]_(Book!vars)
<1> SUFFICES ASSUME Inv, [Next]_vars PROVE [Book!Next]_(Book!vars)
    OBVIOUS
<1>1. ASSUME NEW side \in Sides, NEW px \in Prices, NEW qty \in Quantities,
             AddLimit(side, px, qty)
      PROVE  Book!Next
    BY <1>1, AddLimitSim
<1>2. CASE FillPart
    BY <1>2, FillPartSim
<1>3. CASE FillWhole
    BY <1>3, FillWholeSim
<1>4. CASE Reclaim \/ Release \/ RestAllocate
    BY <1>4, SlabSim
<1>5. CASE Filled
    BY <1>5, FilledSim
<1>6. CASE RestOutOfBand
    BY <1>6, RestOutOfBandSim
<1>7. CASE RestSlabFull
    BY <1>7, RestSlabFullSim
<1>8. CASE RestLink
    BY <1>8, RestLinkSim
<1>9. ASSUME NEW id \in Ids, Cancel(id)
      PROVE  Book!Next
    BY <1>9, CancelSim
<1>10. ASSUME NEW id \in Ids, CancelUnknown(id)
       PROVE  Book!Next
    BY <1>10, CancelUnknownSim
<1>11. CASE UNCHANGED vars
    BY <1>11 DEF vars, slabVars, Book!vars, Resting, Linked
<1> QED
    BY <1>1, <1>2, <1>3, <1>4, <1>5, <1>6, <1>7, <1>8, <1>9, <1>10, <1>11 DEF Next

LEMMA InitSim == Init => Book!Init
<1>1. Init => Resting = {}
    BY DEF Init, Resting, Linked, Blocks, Null
<1> QED
    BY <1>1 DEF Init, Book!Init

(* Every fill, rest, rejection and cancel the ladders, lists and slab      *)
(* produce is the one price-time priority prescribes, for every capacity,  *)
(* band, order size and number of orders.                                  *)
THEOREM Refinement == Spec => ImplementsBookSpec
<1>1. Spec => Book!Init
    BY InitSim DEF Spec
<1>2. Spec => [][Book!Next]_(Book!vars)
    BY Invariance, NextSim, PTL DEF Spec
<1> QED
    BY <1>1, <1>2 DEF ImplementsBookSpec, Book!Spec

---------------------------------------------------------------------------
(* The aggregates of a level: its list as an enumeration c of its n blocks *)
(* and the running totals h of their quantities.                           *)

Line(n, c, h, s, p, ord, lvl, L) ==
    /\ n \in Nat /\ c \in [1 .. n -> L] /\ h \in [0 .. n -> Int] /\ h[0] = 0
    /\ lvl.head = IF n = 0 THEN Null ELSE c[1]
    /\ lvl.order_count = n /\ lvl.total_qty = h[n]
    /\ \A k \in 1 .. n :
          /\ ord[c[k]].side = s /\ ord[c[k]].price = p
          /\ ord[c[k]].next = IF k = n THEN Null ELSE c[k + 1]
          /\ h[k] = h[k - 1] + ord[c[k]].qty
Lined(s, p, ord, lvl, L) == \E n, c, h : Line(n, c, h, s, p, ord, lvl, L)
LevelLine(n, c, h, s, p) == Line(n, c, h, s, p, order, levels[s][p], Linked)
Aggregates == \A s \in Sides, p \in Band : Lined(s, p, order, levels[s][p], Linked)

(* A level whose blocks a step leaves alone. *)
LEMMA LinedSame ==
    ASSUME NEW s, NEW p, NEW ord, NEW lvl, NEW L, Lined(s, p, ord, lvl, L),
           NEW ord2, NEW lvl2, NEW L2,
           lvl2.head = lvl.head, lvl2.order_count = lvl.order_count,
           lvl2.total_qty = lvl.total_qty,
           \A b \in L : ord[b].side = s /\ ord[b].price = p =>
              /\ b \in L2 /\ ord2[b].side = s /\ ord2[b].price = p
              /\ ord2[b].next = ord[b].next /\ ord2[b].qty = ord[b].qty
    PROVE  Lined(s, p, ord2, lvl2, L2)
<1>1. PICK n, c, h : Line(n, c, h, s, p, ord, lvl, L)
    BY DEF Lined
<1>2. /\ n \in Nat /\ c \in [1 .. n -> L] /\ h \in [0 .. n -> Int] /\ h[0] = 0
      /\ lvl.head = IF n = 0 THEN Null ELSE c[1]
      /\ lvl.order_count = n /\ lvl.total_qty = h[n]
    BY <1>1 DEF Line
<1>3. \A k \in 1 .. n :
          /\ ord[c[k]].side = s /\ ord[c[k]].price = p
          /\ ord[c[k]].next = IF k = n THEN Null ELSE c[k + 1]
          /\ h[k] = h[k - 1] + ord[c[k]].qty
    BY <1>1 DEF Line
<1>4. \A k \in 1 .. n :
          /\ c[k] \in L2 /\ ord2[c[k]].side = s /\ ord2[c[k]].price = p
          /\ ord2[c[k]].next = ord[c[k]].next /\ ord2[c[k]].qty = ord[c[k]].qty
    BY <1>2, <1>3
<1>5. c \in [1 .. n -> L2]
    BY <1>2, <1>4
<1>6. \A k \in 1 .. n :
          /\ ord2[c[k]].side = s /\ ord2[c[k]].price = p
          /\ ord2[c[k]].next = IF k = n THEN Null ELSE c[k + 1]
          /\ h[k] = h[k - 1] + ord2[c[k]].qty
    BY <1>3, <1>4
<1>7. Line(n, c, h, s, p, ord2, lvl2, L2)
    BY <1>2, <1>5, <1>6 DEF Line
<1> QED
    BY <1>7 DEF Lined

(* Ids ascend along a level, so no block is in it twice. *)
LEMMA LineAscends ==
    ASSUME Kinds, Indexed, Lists, NEW s \in Sides, NEW p \in Band, NEW n, NEW c, NEW h,
           LevelLine(n, c, h, s, p)
    PROVE  /\ \A j, k \in 1 .. n : j < k => word[c[j]] < word[c[k]]
           /\ \A j, k \in 1 .. n : c[j] = c[k] => j = k
<1>1. n \in Nat /\ \A k \in 1 .. n : c[k] \in Linked
    BY DEF LevelLine, Line
<1>2. \A k \in 1 .. n : word[c[k]] \in Nat /\ c[k] # Null
    BY <1>1, LinkedBlock DEF Ids
<1>3. ASSUME NEW k \in 1 .. n, k # n
      PROVE  k + 1 \in 1 .. n /\ word[c[k]] < word[c[k + 1]]
    <2>1. k + 1 \in 1 .. n
        BY <1>1, <1>3
    <2>2. order[c[k]].next = c[k + 1]
        BY <1>3 DEF LevelLine, Line
    <2> QED
        BY <1>1, <1>2, <2>1, <2>2, Neighbours
<1>4. ASSUME NEW j \in 1 .. n
      PROVE  \A k \in 1 .. n : j < k => word[c[j]] < word[c[k]]
    <2> DEFINE S == { k \in 1 .. n : j < k /\ ~(word[c[j]] < word[c[k]]) }
    <2> SUFFICES ASSUME S # {} PROVE FALSE
        OBVIOUS
    <2>1. S \subseteq Nat
        OBVIOUS
    <2>2. PICK k \in S : \A y \in S : k =< y
        BY <2>1, LeastNat
    <2>3. /\ k - 1 \in 1 .. n /\ k - 1 # n /\ (k - 1) + 1 = k
          /\ j = k - 1 \/ j < k - 1
          /\ ~(k =< k - 1)
        BY <1>1, <2>2
    <2>4. word[c[k - 1]] < word[c[k]]
        BY <1>3, <2>3
    <2>5. k - 1 \notin S
        BY <2>2, <2>3
    <2>6. j = k - 1 \/ word[c[j]] < word[c[k - 1]]
        BY <2>3, <2>5
    <2>7. word[c[j]] \in Nat /\ word[c[k]] \in Nat /\ word[c[k - 1]] \in Nat
        BY <1>2, <2>3
    <2>8. ~(word[c[j]] < word[c[k]])
        BY <2>2
    <2> QED
        BY <2>4, <2>6, <2>7, <2>8
<1>5. ASSUME NEW j \in 1 .. n, NEW k \in 1 .. n, c[j] = c[k]
      PROVE  j = k
    <2>1. ~(word[c[j]] < word[c[k]]) /\ ~(word[c[k]] < word[c[j]])
        BY <1>2, <1>5
    <2>2. ~(j < k) /\ ~(k < j)
        BY <1>4, <2>1
    <2> QED
        BY <2>2
<1> QED
    BY <1>4, <1>5

(* Every block of the level is on its line. *)
LEMMA LineCovers ==
    ASSUME Kinds, Indexed, Lists, NEW s \in Sides, NEW p \in Band, NEW n, NEW c, NEW h,
           LevelLine(n, c, h, s, p),
           NEW o \in Linked, order[o].side = s, order[o].price = p
    PROVE  \E k \in 1 .. n : c[k] = o
<1> DEFINE On(b) == \E k \in 1 .. n : c[k] = b
           Off(b) == order[b].side = s /\ order[b].price = p /\ ~On(b)
           S == { word[b] : b \in { d \in Linked : Off(d) } }
<1> SUFFICES ASSUME ~On(o) PROVE FALSE
    OBVIOUS
<1>1. n \in Nat
    BY DEF LevelLine, Line
<1>2. \A b \in Linked : word[b] \in Nat /\ b # Null
    BY LinkedBlock DEF Ids
<1>3. S \subseteq Nat /\ word[o] \in S
    BY <1>2
<1>4. PICK x \in S : \A y \in S : x =< y
    BY <1>3, LeastNat
<1>5. PICK b \in Linked : Off(b) /\ word[b] = x
    OBVIOUS
<1>6. CASE order[b].prev = Null
    <2>1. levels[s][p].head = b
        BY <1>5, <1>6, LinkedLevel
    <2>2. n # 0 /\ c[1] = b
        BY <1>2, <2>1 DEF LevelLine, Line
    <2>3. 1 \in 1 .. n
        BY <1>1, <2>2
    <2> QED
        BY <1>5, <2>2, <2>3
<1>7. CASE order[b].prev # Null
    <2> DEFINE v == order[b].prev
    <2>1. /\ v \in Linked /\ order[v].next = b /\ order[v].side = s /\ order[v].price = p
          /\ word[v] < word[b]
        BY <1>5, <1>7, Neighbours
    <2> HIDE DEF v
    <2>2. ~Off(v)
        <3>1. SUFFICES ASSUME Off(v) PROVE FALSE
            OBVIOUS
        <3>2. word[b] =< word[v]
            BY <1>4, <1>5, <2>1, <3>1
        <3>3. word[b] \in Nat /\ word[v] \in Nat
            BY <1>2, <2>1
        <3> QED
            BY <2>1, <3>2, <3>3
    <2>3. PICK k \in 1 .. n : c[k] = v
        BY <2>1, <2>2
    <2>4. order[c[k]].next = IF k = n THEN Null ELSE c[k + 1]
        BY DEF LevelLine, Line
    <2>5. k # n /\ c[k + 1] = b
        BY <1>2, <2>1, <2>3, <2>4
    <2>6. k + 1 \in 1 .. n
        BY <1>1, <2>5
    <2> QED
        BY <1>5, <2>5, <2>6
<1> QED
    BY <1>6, <1>7

LEMMA LinePrev ==
    ASSUME Kinds, Indexed, Lists, NEW s \in Sides, NEW p \in Band, NEW n, NEW c, NEW h,
           LevelLine(n, c, h, s, p), NEW j \in 1 .. n
    PROVE  order[c[j]].prev = IF j = 1 THEN Null ELSE c[j - 1]
<1>1. n \in Nat /\ \A k \in 1 .. n : c[k] \in Linked /\ c[k] # Null
    BY LinkedBlock DEF LevelLine, Line
<1>2. CASE j = 1
    <2>1. levels[s][p].head = c[1] /\ c[1] # Null
        BY <1>1, <1>2 DEF LevelLine, Line
    <2> QED
        BY <1>2, <2>1, Ends
<1>3. CASE j # 1
    <2>1. j - 1 \in 1 .. n /\ j - 1 # n /\ (j - 1) + 1 = j
        BY <1>1, <1>3
    <2>2. order[c[j - 1]].next = c[j]
        <3>1. \A k \in 1 .. n : order[c[k]].next = IF k = n THEN Null ELSE c[k + 1]
            BY DEF LevelLine, Line
        <3> QED
            BY <2>1, <3>1
    <2> QED
        BY <1>1, <1>3, <2>1, <2>2, Neighbours
<1> QED
    BY <1>2, <1>3

(* A line without its j-th block. *)
LEMMA LineCut ==
    ASSUME NEW n, NEW c, NEW h, NEW s, NEW p, NEW ord, NEW lvl, NEW L,
           Line(n, c, h, s, p, ord, lvl, L), \A k \in 1 .. n : ord[c[k]].qty \in Int,
           NEW j \in 1 .. n, NEW ord2, NEW lvl2, NEW L2,
           \A k \in 1 .. n : k # j =>
              /\ c[k] \in L2 /\ ord2[c[k]].side = s /\ ord2[c[k]].price = p
              /\ ord2[c[k]].qty = ord[c[k]].qty
              /\ ord2[c[k]].next = IF k = j - 1 THEN ord[c[j]].next ELSE ord[c[k]].next,
           lvl2.head = IF j = 1 THEN ord[c[j]].next ELSE lvl.head,
           lvl2.order_count = lvl.order_count - 1,
           lvl2.total_qty = lvl.total_qty - ord[c[j]].qty
    PROVE  Lined(s, p, ord2, lvl2, L2)
<1> DEFINE m == n - 1
           q == ord[c[j]].qty
           c2 == [k \in 1 .. m |-> IF k < j THEN c[k] ELSE c[k + 1]]
           h2 == [k \in 0 .. m |-> IF k < j THEN h[k] ELSE h[k + 1] - q]
<1>1. /\ n \in Nat /\ c \in [1 .. n -> L] /\ h \in [0 .. n -> Int] /\ h[0] = 0
      /\ lvl.head = IF n = 0 THEN Null ELSE c[1]
      /\ lvl.order_count = n /\ lvl.total_qty = h[n]
    BY DEF Line
<1>2. \A k \in 1 .. n :
          /\ ord[c[k]].next = IF k = n THEN Null ELSE c[k + 1]
          /\ h[k] = h[k - 1] + ord[c[k]].qty
    BY DEF Line
<1>3. q \in Int /\ m \in Nat /\ n = m + 1 /\ j \in Nat /\ 1 =< j /\ j =< n
    BY <1>1
<1>4. \A k \in 1 .. m : c2[k] = IF k < j THEN c[k] ELSE c[k + 1]
    OBVIOUS
<1>5. \A k \in 0 .. m : h2[k] = IF k < j THEN h[k] ELSE h[k + 1] - q
    OBVIOUS
<1>6. c2 \in [1 .. m -> L2]
    <2>1. \A k \in 1 .. m : k \in 1 .. n /\ k + 1 \in 1 .. n /\ (k < j => k # j)
                            /\ (~(k < j) => k + 1 # j)
        BY <1>3
    <2> QED
        BY <2>1
<1>7. h2 \in [0 .. m -> Int]
    <2>1. \A k \in 0 .. m : h[k] \in Int /\ h[k + 1] \in Int
        BY <1>1, <1>3
    <2>2. \A k \in 0 .. m : h[k + 1] - q \in Int
        BY <1>3, <2>1
    <2> QED
        BY <2>1, <2>2
<1> HIDE DEF c2, h2, m
<1>8. h2[0] = 0
    BY <1>1, <1>3, <1>5
<1>9. h2[m] = h[n] - q
    <2>1. CASE j = n
        <3>1. h2[m] = h[n - 1] /\ n \in 1 .. n
            BY <1>3, <1>5, <2>1
        <3>2. h[n] = h[n - 1] + q
            BY <1>2, <2>1, <3>1
        <3>3. h[n] \in Int /\ h[n - 1] \in Int
            BY <1>1, <1>3
        <3> QED
            BY <1>3, <3>1, <3>2, <3>3
    <2>2. CASE j # n
        BY <1>3, <1>5, <2>2
    <2> QED
        BY <2>1, <2>2
<1>10. lvl2.head = IF m = 0 THEN Null ELSE c2[1]
    <2>1. CASE j = 1
        <3>1. ord[c[1]].next = IF 1 = n THEN Null ELSE c[2]
            BY <1>2, <2>1
        <3>2. m # 0 => c2[1] = c[2]
            BY <1>3, <1>4, <2>1
        <3> QED
            BY <1>3, <2>1, <3>1, <3>2
    <2>2. CASE j # 1
        <3>1. m # 0 /\ n # 0 /\ c2[1] = c[1]
            BY <1>3, <1>4, <2>2
        <3> QED
            BY <1>1, <2>2, <3>1
    <2> QED
        BY <2>1, <2>2
<1>11. ASSUME NEW k \in 1 .. m
       PROVE  /\ ord2[c2[k]].side = s /\ ord2[c2[k]].price = p
              /\ ord2[c2[k]].next = IF k = m THEN Null ELSE c2[k + 1]
              /\ h2[k] = h2[k - 1] + ord2[c2[k]].qty
    <2>0. k \in Nat /\ k >= 1 /\ k =< m
        BY <1>3
    <2>1. CASE k < j
        <3>1. /\ k \in 1 .. n /\ k # j /\ k # n /\ c2[k] = c[k]
              /\ k - 1 \in 0 .. m /\ k - 1 < j /\ k \in 0 .. m
            BY <1>3, <1>4, <2>0, <2>1
        <3>2. h2[k] = h[k] /\ h2[k - 1] = h[k - 1]
            BY <1>5, <2>1, <3>1
        <3>3. ord2[c[k]].next = IF k = j - 1 THEN ord[c[j]].next ELSE c[k + 1]
            BY <1>2, <3>1
        <3>4. CASE k = j - 1
            <4>1. ord[c[j]].next = IF j = n THEN Null ELSE c[j + 1]
                BY <1>2
            <4>2. (j = n <=> k = m) /\ k + 1 = j
                BY <1>3, <2>0, <3>4
            <4>3. k # m => c2[j] = c[j + 1]
                <5>1. k # m => j \in 1 .. m /\ ~(j < j)
                    BY <1>3, <2>0, <3>4
                <5> QED
                    BY <1>4, <5>1
            <4> QED
                BY <1>2, <3>1, <3>2, <3>3, <3>4, <4>1, <4>2, <4>3
        <3>5. CASE k # j - 1
            <4>1. k # m /\ k + 1 \in 1 .. m /\ k + 1 < j
                BY <1>3, <2>0, <2>1, <3>5
            <4>2. c2[k + 1] = c[k + 1]
                BY <1>4, <4>1
            <4> QED
                BY <1>2, <3>1, <3>2, <3>3, <3>5, <4>1, <4>2
        <3> QED
            BY <3>4, <3>5
    <2>2. CASE ~(k < j)
        <3>1. /\ k + 1 \in 1 .. n /\ k + 1 # j /\ k + 1 # j - 1 /\ c2[k] = c[k + 1]
              /\ k - 1 \in 0 .. m /\ k \in 0 .. m /\ (k + 1) - 1 = k /\ (k - 1) + 1 = k
            BY <1>3, <1>4, <2>0, <2>2
        <3>2. ord2[c[k + 1]].next = IF k + 1 = n THEN Null ELSE c[(k + 1) + 1]
            BY <1>2, <3>1
        <3>3. (k + 1 = n <=> k = m) /\ (k # m => k + 1 \in 1 .. m /\ ~(k + 1 < j))
            BY <1>3, <2>0, <2>2
        <3>4. k # m => c2[k + 1] = c[(k + 1) + 1]
            BY <1>4, <3>3
        <3>5. h2[k] = h[k + 1] - q
            BY <1>5, <2>2, <3>1
        <3>6. h[k + 1] = h[k] + ord[c[k + 1]].qty
            BY <1>2, <3>1
        <3>7. h2[k - 1] = h[k] - q
            <4>1. CASE k = j
                <5>1. h2[k - 1] = h[k - 1] /\ h[k] = h[k - 1] + q
                    BY <1>2, <1>3, <1>5, <2>0, <3>1, <4>1
                <5>2. h[k] \in Int /\ h[k - 1] \in Int
                    BY <1>1, <1>3, <2>0
                <5> QED
                    BY <1>3, <5>1, <5>2
            <4>2. CASE k # j
                <5>1. ~(k - 1 < j)
                    BY <1>3, <2>0, <2>2, <4>2
                <5> QED
                    BY <1>5, <3>1, <5>1
            <4> QED
                BY <4>1, <4>2
        <3>8. h[k] \in Int /\ h[k + 1] \in Int /\ ord[c[k + 1]].qty \in Int
            BY <1>1, <1>3, <2>0, <3>1
        <3>9. h2[k] = h2[k - 1] + ord[c[k + 1]].qty
            <4> DEFINE x == h[k]
                       y == h[k + 1]
                       z == ord[c[k + 1]].qty
            <4> HIDE DEF x, y, z
            <4>1. x \in Int /\ y \in Int /\ z \in Int /\ y = x + z
                BY <3>6, <3>8 DEF x, y, z
            <4>2. y - q = (x - q) + z
                BY <1>3, <4>1
            <4> QED
                BY <3>5, <3>7, <4>2 DEF x, y, z
        <3> QED
            BY <3>1, <3>2, <3>3, <3>4, <3>9
    <2> QED
        BY <2>1, <2>2
<1>12. lvl2.order_count = m /\ lvl2.total_qty = h2[m]
    BY <1>1, <1>9 DEF m
<1>13. Line(m, c2, h2, s, p, ord2, lvl2, L2)
    BY <1>3, <1>6, <1>7, <1>8, <1>10, <1>11, <1>12 DEF Line
<1> QED
    BY <1>13 DEF Lined

(* A line with one more block. *)
LEMMA LineGrow ==
    ASSUME NEW n, NEW c, NEW h, NEW s, NEW p, NEW ord, NEW lvl, NEW L,
           Line(n, c, h, s, p, ord, lvl, L), NEW o, NEW ord2, NEW lvl2, NEW L2,
           o \in L2, ord2[o].side = s, ord2[o].price = p, ord2[o].next = Null,
           ord2[o].qty \in Int,
           \A k \in 1 .. n :
              /\ c[k] \in L2 /\ ord2[c[k]].side = s /\ ord2[c[k]].price = p
              /\ ord2[c[k]].qty = ord[c[k]].qty
              /\ ord2[c[k]].next = IF k = n THEN o ELSE ord[c[k]].next,
           lvl2.head = IF n = 0 THEN o ELSE lvl.head,
           lvl2.order_count = lvl.order_count + 1,
           lvl2.total_qty = lvl.total_qty + ord2[o].qty
    PROVE  Lined(s, p, ord2, lvl2, L2)
<1> DEFINE m == n + 1
           c2 == [k \in 1 .. m |-> IF k = m THEN o ELSE c[k]]
           h2 == [k \in 0 .. m |-> IF k = m THEN h[n] + ord2[o].qty ELSE h[k]]
<1>1. /\ n \in Nat /\ c \in [1 .. n -> L] /\ h \in [0 .. n -> Int] /\ h[0] = 0
      /\ lvl.head = IF n = 0 THEN Null ELSE c[1]
      /\ lvl.order_count = n /\ lvl.total_qty = h[n]
    BY DEF Line
<1>2. \A k \in 1 .. n :
          /\ ord[c[k]].next = IF k = n THEN Null ELSE c[k + 1]
          /\ h[k] = h[k - 1] + ord[c[k]].qty
    BY DEF Line
<1>3. m \in Nat /\ n \in 0 .. n /\ \A k \in 1 .. m : k # m => k \in 1 .. n
    BY <1>1
<1>4. \A k \in 1 .. m : c2[k] = IF k = m THEN o ELSE c[k]
    OBVIOUS
<1>5. \A k \in 0 .. m : h2[k] = IF k = m THEN h[n] + ord2[o].qty ELSE h[k]
    OBVIOUS
<1>6. c2 \in [1 .. m -> L2]
    BY <1>3
<1>7. h2 \in [0 .. m -> Int]
    <2>1. h[n] + ord2[o].qty \in Int
        BY <1>1
    <2>2. \A k \in 0 .. m : k # m => h[k] \in Int
        BY <1>1
    <2> QED
        BY <2>1, <2>2
<1> HIDE DEF c2, h2
<1>8. h2[0] = 0
    BY <1>1, <1>5
<1>9. lvl2.head = c2[1] /\ m # 0
    BY <1>1, <1>4
<1>10. ASSUME NEW k \in 1 .. m
       PROVE  /\ ord2[c2[k]].side = s /\ ord2[c2[k]].price = p
              /\ ord2[c2[k]].next = IF k = m THEN Null ELSE c2[k + 1]
              /\ h2[k] = h2[k - 1] + ord2[c2[k]].qty
    <2>1. CASE k = m
        <3>1. c2[k] = o /\ h2[m] = h[n] + ord2[o].qty /\ m - 1 = n /\ n \in 0 .. m /\ n # m
            BY <1>1, <1>4, <1>5, <2>1
        <3>2. h2[n] = h[n]
            BY <1>5, <3>1
        <3> QED
            BY <2>1, <3>1, <3>2
    <2>2. CASE k # m
        <3>1. /\ k \in 1 .. n /\ k + 1 \in 1 .. m /\ c2[k] = c[k]
              /\ k \in 0 .. m /\ k - 1 \in 0 .. m /\ k - 1 # m /\ (k = n <=> k + 1 = m)
            BY <1>1, <1>3, <1>4, <2>2
        <3>2. c2[k + 1] = IF k = n THEN o ELSE c[k + 1]
            BY <1>4, <3>1
        <3>3. h2[k] = h[k] /\ h2[k - 1] = h[k - 1]
            BY <1>5, <2>2, <3>1
        <3> QED
            BY <1>2, <2>2, <3>1, <3>2, <3>3
    <2> QED
        BY <2>1, <2>2
<1>11. lvl2.order_count = m /\ lvl2.total_qty = h2[m]
    BY <1>1, <1>5
<1>12. Line(m, c2, h2, s, p, ord2, lvl2, L2)
    BY <1>3, <1>6, <1>7, <1>8, <1>9, <1>10, <1>11 DEF Line
<1> QED
    BY <1>12 DEF Lined

(* A line whose first block shrinks by r. *)
LEMMA LineShrink ==
    ASSUME NEW n, NEW c, NEW h, NEW s, NEW p, NEW ord, NEW lvl, NEW L,
           Line(n, c, h, s, p, ord, lvl, L), n # 0, NEW r \in Int, NEW ord2, NEW lvl2, NEW L2,
           \A k \in 1 .. n :
              /\ c[k] \in L2 /\ ord2[c[k]].side = s /\ ord2[c[k]].price = p
              /\ ord2[c[k]].next = ord[c[k]].next /\ ord[c[k]].qty \in Int
              /\ ord2[c[k]].qty = IF k = 1 THEN ord[c[k]].qty - r ELSE ord[c[k]].qty,
           lvl2.head = lvl.head, lvl2.order_count = lvl.order_count,
           lvl2.total_qty = lvl.total_qty - r
    PROVE  Lined(s, p, ord2, lvl2, L2)
<1> DEFINE h2 == [k \in 0 .. n |-> IF k = 0 THEN 0 ELSE h[k] - r]
<1>1. /\ n \in Nat /\ c \in [1 .. n -> L] /\ h \in [0 .. n -> Int] /\ h[0] = 0
      /\ lvl.head = IF n = 0 THEN Null ELSE c[1]
      /\ lvl.order_count = n /\ lvl.total_qty = h[n]
    BY DEF Line
<1>2. \A k \in 1 .. n :
          /\ ord[c[k]].next = IF k = n THEN Null ELSE c[k + 1]
          /\ h[k] = h[k - 1] + ord[c[k]].qty
    BY DEF Line
<1>3. \A k \in 0 .. n : h2[k] = IF k = 0 THEN 0 ELSE h[k] - r
    OBVIOUS
<1>4. h2 \in [0 .. n -> Int]
    BY <1>1
<1>5. c \in [1 .. n -> L2]
    BY <1>1
<1> HIDE DEF h2
<1>6. h2[0] = 0 /\ h2[n] = h[n] - r
    BY <1>1, <1>3
<1>7. ASSUME NEW k \in 1 .. n
      PROVE  h2[k] = h2[k - 1] + ord2[c[k]].qty
    <2>1. k \in 0 .. n /\ k # 0 /\ k - 1 \in 0 .. n /\ (k - 1 = 0 <=> k = 1)
        BY <1>1
    <2>2. h2[k] = h[k] - r /\ h2[k - 1] = IF k = 1 THEN 0 ELSE h[k - 1] - r
        BY <1>3, <2>1
    <2>3. h[k] = h[k - 1] + ord[c[k]].qty
        BY <1>2
    <2>4. h[k] \in Int /\ h[k - 1] \in Int /\ ord[c[k]].qty \in Int
        BY <1>1, <2>1
    <2>5. k = 1 => h[k - 1] = 0
        BY <1>1
    <2> DEFINE x == h[k]
               y == h[k - 1]
               z == ord[c[k]].qty
    <2> HIDE DEF x, y, z
    <2>6. x \in Int /\ y \in Int /\ z \in Int /\ x = y + z /\ (k = 1 => y = 0)
        BY <2>3, <2>4, <2>5 DEF x, y, z
    <2>7. x - r = (IF k = 1 THEN 0 ELSE y - r) + (IF k = 1 THEN z - r ELSE z)
        BY <2>6
    <2> QED
        BY <2>2, <2>7 DEF x, y, z
<1>8. \A k \in 1 .. n : /\ ord2[c[k]].side = s /\ ord2[c[k]].price = p
                        /\ ord2[c[k]].next = IF k = n THEN Null ELSE c[k + 1]
    BY <1>2
<1>9. lvl2.head = (IF n = 0 THEN Null ELSE c[1]) /\ lvl2.order_count = n /\ lvl2.total_qty = h2[n]
    BY <1>1, <1>6
<1>10. Line(n, c, h2, s, p, ord2, lvl2, L2)
    BY <1>1, <1>4, <1>5, <1>6, <1>7, <1>8, <1>9 DEF Line
<1> QED
    BY <1>10 DEF Lined


(* What steps do to the lines. *)
LEMMA SameLines ==
    ASSUME Aggregates, levels' = levels, Linked' = Linked,
           \A b \in Linked : order'[b] = order[b]
    PROVE  Aggregates'
<1>1. ASSUME NEW s \in Sides, NEW p \in Band
      PROVE  Lined(s, p, order', levels'[s][p], Linked')
    <2>1. Lined(s, p, order, levels[s][p], Linked)
        BY DEF Aggregates
    <2> QED
        BY <2>1, LinedSame
<1> QED
    BY <1>1 DEF Aggregates

LEMMA BypassedLines ==
    ASSUME Kinds, Indexed, Lists, Aggregates, NEW o \in Linked, Bypassed(o)
    PROVE  Aggregates'
<1>1. ASSUME NEW s \in Sides, NEW p \in Band
      PROVE  Lined(s, p, order', levels'[s][p], Linked')
    <2>1. Lined(s, p, order, levels[s][p], Linked)
        BY DEF Aggregates
    <2>2. /\ Linked' = Linked \ {o}
          /\ \A b \in Linked \ {o} :
                /\ order'[b].side = order[b].side /\ order'[b].price = order[b].price
                /\ order'[b].qty = order[b].qty
                /\ order'[b].next = IF b = order[o].prev THEN order[o].next ELSE order[b].next
        BY DEF Bypassed
    <2>3. \A b \in Linked : b # Null /\ b \in Blocks
        BY LinkedBlock
    <2>4. CASE s = order[o].side /\ p = order[o].price
        <3>1. /\ levels'[s][p].head = IF order[o].prev = Null THEN order[o].next
                                      ELSE levels[s][p].head
              /\ levels'[s][p].total_qty = levels[s][p].total_qty - order[o].qty
              /\ levels'[s][p].order_count = levels[s][p].order_count - 1
            BY <2>4 DEF Bypassed
        <3>2. PICK n, c, h : LevelLine(n, c, h, s, p)
            BY <2>1 DEF Lined, LevelLine
        <3>3. PICK j \in 1 .. n : c[j] = o
            BY <2>4, <3>2, LineCovers
        <3>4. n \in Nat /\ \A k \in 1 .. n : c[k] \in Linked /\ c[k] # Null
            BY <2>3, <3>2 DEF LevelLine, Line
        <3>5. \A k \in 1 .. n : order[c[k]].side = s /\ order[c[k]].price = p
            BY <3>2 DEF LevelLine, Line
        <3>6. \A i, k \in 1 .. n : c[i] = c[k] => i = k
            BY <3>2, LineAscends
        <3>7. order[o].prev = IF j = 1 THEN Null ELSE c[j - 1]
            BY <3>2, <3>3, LinePrev
        <3>8. j # 1 => j - 1 \in 1 .. n
            BY <3>4
        <3>9. \A k \in 1 .. n : order[c[k]].qty \in Int
            BY <2>3, <3>4 DEF Kinds
        <3>10. ASSUME NEW k \in 1 .. n, k # j
               PROVE  /\ c[k] \in Linked' /\ order'[c[k]].side = s /\ order'[c[k]].price = p
                      /\ order'[c[k]].qty = order[c[k]].qty
                      /\ order'[c[k]].next = IF k = j - 1 THEN order[c[j]].next
                                             ELSE order[c[k]].next
            <4>1. c[k] \in Linked \ {o}
                BY <3>3, <3>4, <3>6, <3>10
            <4>2. k = j - 1 => j # 1
                OBVIOUS
            <4>3. c[k] = order[o].prev <=> k = j - 1
                BY <3>4, <3>6, <3>7, <3>8, <4>2
            <4> QED
                BY <2>2, <3>3, <3>5, <4>1, <4>3
        <3>11. levels'[s][p].head = IF j = 1 THEN order[c[j]].next ELSE levels[s][p].head
            BY <3>1, <3>3, <3>4, <3>7, <3>8
        <3> QED
            BY <3>1, <3>2, <3>3, <3>9, <3>10, <3>11, LineCut DEF LevelLine
    <2>5. CASE ~(s = order[o].side /\ p = order[o].price)
        <3>1. /\ levels'[s][p].head = levels[s][p].head
              /\ levels'[s][p].total_qty = levels[s][p].total_qty
              /\ levels'[s][p].order_count = levels[s][p].order_count
            BY <2>5 DEF Bypassed
        <3>2. ASSUME NEW b \in Linked, order[b].side = s, order[b].price = p
              PROVE  /\ b \in Linked' /\ order'[b].side = s /\ order'[b].price = p
                     /\ order'[b].next = order[b].next /\ order'[b].qty = order[b].qty
            <4>1. b # o /\ b # order[o].prev
                BY <2>3, <2>5, <3>2, Neighbours
            <4> QED
                BY <2>2, <3>2, <4>1
        <3> QED
            BY <2>1, <3>1, <3>2, LinedSame
    <2> QED
        BY <2>4, <2>5
<1> QED
    BY <1>1 DEF Aggregates

LEMMA AppendedLines ==
    ASSUME Kinds, Indexed, Lists, Aggregates, NEW o \in Blocks, o \notin Linked,
           NEW side \in Sides, NEW px \in Band, NEW id, Appended(o, side, px, id),
           order'[o].qty \in Int
    PROVE  Aggregates'
<1>1. ASSUME NEW s \in Sides, NEW p \in Band
      PROVE  Lined(s, p, order', levels'[s][p], Linked')
    <2> DEFINE last == levels[side][px].tail
    <2>1. Lined(s, p, order, levels[s][p], Linked)
        BY DEF Aggregates
    <2>2. /\ Linked' = Linked \cup {o}
          /\ order'[o].side = side /\ order'[o].price = px /\ order'[o].next = Null
          /\ \A b \in Linked :
                /\ order'[b].side = order[b].side /\ order'[b].price = order[b].price
                /\ order'[b].qty = order[b].qty
                /\ order'[b].next = IF b = last THEN o ELSE order[b].next
        BY DEF Appended
    <2>3. \A b \in Linked : b # Null
        BY LinkedBlock
    <2>4. CASE s = side /\ p = px
        <3>1. /\ levels'[s][p].head = IF last = Null THEN o ELSE levels[s][p].head
              /\ levels'[s][p].total_qty = levels[s][p].total_qty + order'[o].qty
              /\ levels'[s][p].order_count = levels[s][p].order_count + 1
            BY <2>4 DEF Appended
        <3>2. PICK n, c, h : LevelLine(n, c, h, s, p)
            BY <2>1 DEF Lined, LevelLine
        <3>3. /\ n \in Nat /\ \A k \in 1 .. n : c[k] \in Linked /\ c[k] # Null
              /\ levels[s][p].head = IF n = 0 THEN Null ELSE c[1]
            BY <2>3, <3>2 DEF LevelLine, Line
        <3>4. \A k \in 1 .. n : order[c[k]].side = s /\ order[c[k]].price = p
            BY <3>2 DEF LevelLine, Line
        <3>5. \A i, k \in 1 .. n : c[i] = c[k] => i = k
            BY <3>2, LineAscends
        <3>6. last = IF n = 0 THEN Null ELSE c[n]
            <4>1. CASE n = 0
                BY <2>4, <3>3, <4>1, Ends
            <4>2. CASE n # 0
                <5>1. n \in 1 .. n
                    BY <3>3, <4>2
                <5>2. order[c[n]].next = Null
                    BY <3>2, <5>1 DEF LevelLine, Line
                <5> QED
                    BY <2>4, <3>3, <3>4, <4>2, <5>1, <5>2, LinkedLevel
            <4> QED
                BY <4>1, <4>2
        <3> HIDE DEF last
        <3>7. n # 0 => n \in 1 .. n
            BY <3>3
        <3>8. ASSUME NEW k \in 1 .. n
              PROVE  /\ c[k] \in Linked' /\ order'[c[k]].side = s /\ order'[c[k]].price = p
                     /\ order'[c[k]].qty = order[c[k]].qty
                     /\ order'[c[k]].next = IF k = n THEN o ELSE order[c[k]].next
            <4>1. n # 0
                BY <3>3
            <4>2. c[k] = last <=> k = n
                BY <3>5, <3>6, <3>7, <4>1
            <4> QED
                BY <2>2, <3>3, <3>4, <4>2
        <3>9. levels'[s][p].head = IF n = 0 THEN o ELSE levels[s][p].head
            BY <3>1, <3>3, <3>6, <3>7
        <3>10. o \in Linked'
            BY <2>2
        <3> QED
            BY <2>2, <2>4, <3>1, <3>2, <3>8, <3>9, <3>10, LineGrow DEF LevelLine
    <2>5. CASE ~(s = side /\ p = px)
        <3>1. /\ levels'[s][p].head = levels[s][p].head
              /\ levels'[s][p].total_qty = levels[s][p].total_qty
              /\ levels'[s][p].order_count = levels[s][p].order_count
            BY <2>5 DEF Appended
        <3>2. ASSUME NEW b \in Linked, order[b].side = s, order[b].price = p
              PROVE  /\ b \in Linked' /\ order'[b].side = s /\ order'[b].price = p
                     /\ order'[b].next = order[b].next /\ order'[b].qty = order[b].qty
            <4>1. b # last
                BY <2>3, <2>5, <3>2, Ends
            <4> QED
                BY <2>2, <3>2, <4>1
        <3> QED
            BY <2>1, <3>1, <3>2, LinedSame
    <2> QED
        BY <2>4, <2>5
<1> QED
    BY <1>1 DEF Aggregates

LEMMA FillPartLines ==
    ASSUME Inv, Aggregates, FillPart
    PROVE  /\ Aggregates'
           /\ \A b \in Blocks : order'[b].qty = order[b].qty \/ order'[b].qty > 0
<1> DEFINE side == Opp(taker.side)
           px == best_px[side]
           maker == levels[side][px].head
           r == taker.remaining
<1>1. Kinds /\ OneCall /\ Indexed /\ Lists
    BY DEF Inv
<1>2. pc = "match" /\ Crossing
    BY DEF FillPart
<1>3. /\ side \in Sides /\ px \in Band /\ maker \in Linked /\ maker \in Blocks /\ r \in Nat
    BY <1>2, Maker
<1>4. /\ order[maker].qty > r
      /\ order' = [order EXCEPT ![maker].qty = @ - r]
      /\ levels' = [levels EXCEPT ![side][px].total_qty = @ - r]
      /\ id_index' = id_index
    BY DEF FillPart
<1> HIDE DEF side, px, maker, r
<1> DEFINE ord == [order[maker] EXCEPT !.qty = @ - r]
           lvl == [levels[side][px] EXCEPT !.total_qty = @ - r]
<1>5. order \in [Blocks -> OrderRecs] /\ levels \in [Sides -> [Band -> LevelRecs]]
    BY <1>1, RecordKinds
<1>6. /\ ord \in OrderRecs /\ ord.qty = order[maker].qty - r
      /\ ord.side = order[maker].side /\ ord.price = order[maker].price
      /\ ord.next = order[maker].next
    <2>1. order[maker] \in OrderRecs
        BY <1>3, <1>5
    <2> QED
        BY <1>3, <2>1 DEF OrderRecs
<1>7. /\ lvl \in LevelRecs /\ lvl.head = levels[side][px].head
      /\ lvl.total_qty = levels[side][px].total_qty - r
      /\ lvl.order_count = levels[side][px].order_count
    <2>1. levels[side][px] \in LevelRecs
        BY <1>3, <1>5
    <2> QED
        BY <1>3, <2>1 DEF LevelRecs
<1>8. order' = [order EXCEPT ![maker] = ord]
    BY <1>4
<1>9. levels' = [levels EXCEPT ![side] = [levels[side] EXCEPT ![px] = lvl]]
    BY <1>4
<1> HIDE DEF ord, lvl
<1>10. \A s \in Sides, p \in Band :
          levels'[s][p] = IF s = side /\ p = px THEN lvl ELSE levels[s][p]
    BY <1>3, <1>5, <1>7, <1>9, OneLevel
<1>11. \A b \in Blocks : order'[b] = IF b = maker THEN ord ELSE order[b]
    BY <1>5, <1>8
<1>12. Linked' = Linked /\ \A b \in Linked : b \in Blocks
    BY <1>4 DEF Linked
<1>13. ord.qty > 0
    <2>1. order[maker].qty \in Int
        BY <1>3, <1>5 DEF OrderRecs
    <2> QED
        BY <1>3, <1>4, <1>6, <2>1
<1>14. \A b \in Blocks : order[b].qty \in Int
    BY <1>5 DEF OrderRecs
<1>15. ASSUME NEW s \in Sides, NEW p \in Band
       PROVE  Lined(s, p, order', levels'[s][p], Linked')
    <2>1. Lined(s, p, order, levels[s][p], Linked)
        BY <1>1 DEF Aggregates
    <2>2. CASE s = side /\ p = px
        <3>1. PICK n, c, h : LevelLine(n, c, h, s, p)
            BY <2>1 DEF Lined, LevelLine
        <3>2. n \in Nat /\ \A k \in 1 .. n : c[k] \in Linked
            BY <3>1 DEF LevelLine, Line
        <3>3. maker = (IF n = 0 THEN Null ELSE c[1]) /\ maker # Null
            <4>1. maker # Null
                BY <1>1, <1>3, LinkedBlock
            <4>2. maker = levels[s][p].head
                BY <2>2 DEF maker, side, px
            <4> QED
                BY <3>1, <4>1, <4>2 DEF LevelLine, Line
        <3>4. \A i, k \in 1 .. n : c[i] = c[k] => i = k
            BY <1>1, <3>1, LineAscends
        <3>5. n # 0 /\ 1 \in 1 .. n /\ c[1] = maker
            BY <3>2, <3>3
        <3>6. \A k \in 1 .. n : order[c[k]].side = s /\ order[c[k]].price = p
            BY <3>1 DEF LevelLine, Line
        <3>7. ASSUME NEW k \in 1 .. n
              PROVE  /\ c[k] \in Linked' /\ order'[c[k]].side = s /\ order'[c[k]].price = p
                     /\ order'[c[k]].next = order[c[k]].next /\ order[c[k]].qty \in Int
                     /\ order'[c[k]].qty = IF k = 1 THEN order[c[k]].qty - r ELSE order[c[k]].qty
            <4>1. c[k] = maker <=> k = 1
                BY <3>4, <3>5
            <4> QED
                BY <1>6, <1>11, <1>12, <1>14, <3>2, <3>6, <4>1
        <3>8. /\ levels'[s][p].head = levels[s][p].head
              /\ levels'[s][p].order_count = levels[s][p].order_count
              /\ levels'[s][p].total_qty = levels[s][p].total_qty - r
            BY <1>7, <1>10, <2>2
        <3>9. r \in Int
            BY <1>3
        <3> QED
            BY <3>1, <3>5, <3>7, <3>8, <3>9, LineShrink DEF LevelLine
    <2>3. CASE ~(s = side /\ p = px)
        <3>1. levels'[s][p] = levels[s][p]
            BY <1>10, <2>3
        <3>2. order[maker].side = side /\ order[maker].price = px
            <4>1. maker # Null
                BY <1>1, <1>3, LinkedBlock
            <4> QED
                BY <1>1, <1>3, <4>1, Ends DEF maker
        <3>3. \A b \in Linked : order[b].side = s /\ order[b].price = p => order'[b] = order[b]
            BY <1>11, <1>12, <2>3, <3>2
        <3> QED
            BY <1>12, <2>1, <3>1, <3>3, LinedSame
    <2> QED
        BY <2>2, <2>3
<1>16. Aggregates'
    BY <1>15 DEF Aggregates
<1> QED
    BY <1>11, <1>13, <1>16


(* First words are ids or links, and quantities are never negative. *)
Narrow ==
    /\ \A b \in Blocks : word[b] \in 0 .. (Capacity + MaxOrders) /\ order[b].qty >= 0
    /\ ret \in 0 .. Capacity

LEMMA InitLines == Init => Aggregates /\ Narrow
<1> SUFFICES ASSUME Init PROVE Aggregates /\ Narrow
    OBVIOUS
<1>1. /\ order = [b \in Blocks |-> Stale] /\ id_index = [i \in Ids |-> Null]
      /\ levels = [s \in Sides |-> [p \in Band |-> EmptyLevel]]
      /\ word = [b \in Slab!Blocks |-> b - 1] /\ ret = Null
    BY DEF Init, Slab!Init, Null, Slab!Null
<1>2. ASSUME NEW s \in Sides, NEW p \in Band
      PROVE  Lined(s, p, order, levels[s][p], Linked)
    <2> DEFINE c == [k \in 1 .. 0 |-> 0]
               h == [k \in 0 .. 0 |-> 0]
    <2>1. /\ levels[s][p].head = Null /\ levels[s][p].order_count = 0
          /\ levels[s][p].total_qty = 0
        BY <1>1 DEF EmptyLevel
    <2>2. c \in [1 .. 0 -> Linked] /\ h \in [0 .. 0 -> Int] /\ h[0] = 0
        OBVIOUS
    <2> HIDE DEF c, h
    <2>3. Line(0, c, h, s, p, order, levels[s][p], Linked)
        BY <2>1, <2>2 DEF Line
    <2> QED
        BY <2>3 DEF Lined
<1>3. \A b \in Blocks : word[b] \in 0 .. (Capacity + MaxOrders)
    BY <1>1 DEF Blocks, Slab!Blocks
<1>4. \A b \in Blocks : order[b].qty >= 0
    BY <1>1 DEF Stale
<1> QED
    BY <1>1, <1>2, <1>3, <1>4 DEF Aggregates, Narrow, Null

(* A step that touches neither blocks nor levels. *)
LEMMA LightLines ==
    ASSUME Aggregates, Narrow, UNCHANGED <<word, order, levels, id_index>>,
           ret' \in 0 .. Capacity
    PROVE  Aggregates' /\ Narrow'
<1>1. Linked' = Linked
    BY DEF Linked
<1> QED
    BY <1>1, SameLines DEF Narrow

LEMMA FillPartNarrow ==
    ASSUME Inv, Aggregates, Narrow, FillPart
    PROVE  Aggregates' /\ Narrow'
<1>1. word' = word /\ ret' = ret
    BY DEF FillPart, slabVars
<1>2. Aggregates' /\ \A b \in Blocks : order'[b].qty = order[b].qty \/ order'[b].qty > 0
    BY FillPartLines
<1>3. \A b \in Blocks : order'[b].qty >= 0
    <2> TAKE b \in Blocks
    <2>1. order[b].qty >= 0
        BY DEF Narrow
    <2>2. CASE order'[b].qty = order[b].qty
        BY <2>1, <2>2
    <2>3. CASE order'[b].qty > 0
        <3> DEFINE x == order'[b].qty
        <3>1. x \in Int
            BY FillPartStep DEF Inv, Kinds
        <3> HIDE DEF x
        <3>2. x > 0 => x >= 0
            BY <3>1
        <3> QED
            BY <2>3, <3>2 DEF x
    <2> QED
        BY <1>2, <2>2, <2>3
<1> QED
    BY <1>1, <1>2, <1>3 DEF Narrow

LEMMA FillWholeNarrow ==
    ASSUME Inv, Aggregates, Narrow, FillWhole
    PROVE  Aggregates' /\ Narrow'
<1> DEFINE maker == levels[Opp(taker.side)][best_px[Opp(taker.side)]].head
<1>1. word' = word /\ ret' = ret
    BY DEF FillWhole, slabVars
<1>2. maker \in Linked /\ Bypassed(maker)
    BY FillWholeFacts
<1>3. Aggregates'
    BY <1>2, BypassedLines DEF Inv
<1>4. \A b \in Blocks : order'[b].qty >= 0
    <2> TAKE b \in Blocks
    <2>1. order[b] \in OrderRecs /\ order[b].qty >= 0
        BY RecordKinds DEF Inv, Narrow
    <2>2. order'[b] = IF b = maker THEN [order[b] EXCEPT !.qty = 0]
                      ELSE IF b = order[maker].next THEN [order[b] EXCEPT !.prev = Null]
                      ELSE order[b]
        BY DEF FillWhole
    <2> HIDE DEF maker
    <2>3. [order[b] EXCEPT !.qty = 0].qty = 0 /\ [order[b] EXCEPT !.prev = Null].qty = order[b].qty
        BY <2>1 DEF OrderRecs
    <2>4. order'[b].qty = 0 \/ order'[b].qty = order[b].qty
        BY <2>2, <2>3
    <2> QED
        BY <2>1, <2>4
<1> QED
    BY <1>1, <1>3, <1>4 DEF Narrow

LEMMA FreeNarrow ==
    ASSUME Inv, Aggregates, Narrow, Reclaim \/ Release
    PROVE  Aggregates' /\ Narrow'
<1>1. /\ Slab!Deallocate(victim) /\ order' = [order EXCEPT ![victim] = Stale]
      /\ levels' = levels /\ id_index' = id_index /\ victim' = Null
      /\ pc \in {"reclaim", "release"} /\ pc' \in {"match", "idle"}
    BY DEF Reclaim, Release, ladderVars
<1>2. /\ Linked' = Linked /\ victim \in Blocks
      /\ \A b \in Linked : order'[b] = order[b]
    BY <1>1, FreeFacts
<1>3. Aggregates'
    BY <1>1, <1>2, SameLines
<1>4. word' = [word EXCEPT ![victim] = free_head] /\ ret' = ret
    BY <1>1 DEF Slab!Deallocate
<1>5. word \in [Blocks -> Int] /\ free_head \in 0 .. Capacity /\ DOMAIN order = Blocks
    BY DEF Inv, Kinds
<1>6. free_head \in 0 .. (Capacity + MaxOrders)
    BY <1>5
<1>7. \A b \in Blocks : word'[b] = IF b = victim THEN free_head ELSE word[b]
    BY <1>4, <1>5
<1>8. \A b \in Blocks : order'[b] = IF b = victim THEN Stale ELSE order[b]
    BY <1>1, <1>5
<1>9. Stale.qty >= 0
    BY DEF Stale
<1>10. \A b \in Blocks : word'[b] \in 0 .. (Capacity + MaxOrders)
    BY <1>6, <1>7 DEF Narrow
<1>11. \A b \in Blocks : order'[b].qty >= 0
    BY <1>8, <1>9 DEF Narrow
<1> QED
    BY <1>3, <1>4, <1>10, <1>11 DEF Narrow

LEMMA RestLinkNarrow ==
    ASSUME Inv, Aggregates, Narrow, RestLink
    PROVE  Aggregates' /\ Narrow'
<1>1. /\ ret \in Blocks /\ ret \notin Linked /\ taker.side \in Sides /\ taker.price \in Band
      /\ Appended(ret, taker.side, taker.price, taker.id) /\ taker.id \in Ids
      /\ order'[ret].qty = taker.remaining
    BY RestLinkFacts
<1>2. taker.remaining \in Nat
    BY DEF Inv, OneCall, RestLink
<1>3. Aggregates'
    <2>1. order'[ret].qty \in Int
        BY <1>1, <1>2
    <2> QED
        BY <1>1, <2>1, AppendedLines DEF Inv
<1>4. /\ word' = [word EXCEPT ![ret] = taker.id] /\ ret' = ret
      /\ order' = [b \in Blocks |->
            IF b = ret THEN [price |-> taker.price, qty |-> taker.remaining, side |-> taker.side,
                             prev |-> levels[taker.side][taker.price].tail, next |-> Null]
            ELSE IF b = levels[taker.side][taker.price].tail THEN [order[b] EXCEPT !.next = ret]
            ELSE order[b]]
    BY DEF RestLink, Slab!ClientWrite
<1>5. \A b \in Blocks : word'[b] = IF b = ret THEN taker.id ELSE word[b]
    BY <1>4 DEF Inv, Kinds
<1>6. taker.id \in 0 .. (Capacity + MaxOrders)
    BY <1>1 DEF Ids
<1>7. \A b \in Blocks : word'[b] \in 0 .. (Capacity + MaxOrders)
    BY <1>5, <1>6 DEF Narrow
<1>8. \A b \in Blocks : order'[b].qty >= 0
    <2> TAKE b \in Blocks
    <2>1. order[b] \in OrderRecs /\ order[b].qty >= 0
        BY RecordKinds DEF Inv, Narrow
    <2>2. [order[b] EXCEPT !.next = ret].qty = order[b].qty
        BY <2>1 DEF OrderRecs
    <2>3. order'[b].qty = taker.remaining \/ order'[b].qty = order[b].qty
        BY <1>4, <2>2
    <2> QED
        BY <1>2, <2>1, <2>3
<1> QED
    BY <1>1, <1>3, <1>4, <1>7, <1>8 DEF Narrow

LEMMA CancelNarrow ==
    ASSUME Inv, Aggregates, Narrow, NEW id \in Ids, Cancel(id)
    PROVE  Aggregates' /\ Narrow'
<1> DEFINE o == id_index[id]
<1>1. o \in Linked /\ Bypassed(o)
    BY CancelFacts
<1>2. Aggregates'
    BY <1>1, BypassedLines DEF Inv
<1>3. word' = word /\ ret' = ret /\ order' = Relink(o)
    BY DEF Cancel, slabVars
<1> HIDE DEF o
<1>4. \A b \in Blocks : order'[b].qty >= 0
    <2> TAKE b \in Blocks
    <2>1. order[b] \in OrderRecs /\ order[b].qty >= 0
        BY RecordKinds DEF Inv, Narrow
    <2> DEFINE x == IF b = order[o].prev THEN order[o].next ELSE order[b].next
               y == IF b = order[o].next THEN order[o].prev ELSE order[b].prev
    <2>2. order'[b] = [order[b] EXCEPT !.next = x, !.prev = y]
        BY <1>3 DEF Relink
    <2> HIDE DEF x, y
    <2>3. order'[b].qty = order[b].qty
        BY <2>1, <2>2 DEF OrderRecs
    <2> QED
        BY <2>1, <2>3
<1> QED
    BY <1>2, <1>3, <1>4 DEF Narrow

LEMMA NextLines == Inv /\ Aggregates /\ Narrow /\ [Next]_vars => Aggregates' /\ Narrow'
<1> SUFFICES ASSUME Inv, Aggregates, Narrow, [Next]_vars PROVE Aggregates' /\ Narrow'
    OBVIOUS
<1>0. ret \in 0 .. Capacity /\ free_head \in 0 .. Capacity /\ Null \in 0 .. Capacity
    BY DEF Narrow, Inv, Kinds, Null
<1>1. ASSUME NEW side \in Sides, NEW px \in Prices, NEW qty \in Quantities,
             AddLimit(side, px, qty)
      PROVE  Aggregates' /\ Narrow'
    BY <1>0, <1>1, LightLines DEF AddLimit, slabVars, ladderVars
<1>2. CASE FillPart
    BY <1>2, FillPartNarrow
<1>3. CASE FillWhole
    BY <1>3, FillWholeNarrow
<1>4. CASE Reclaim \/ Release
    BY <1>4, FreeNarrow
<1>5. CASE Filled \/ RestOutOfBand
    BY <1>0, <1>5, LightLines DEF Filled, RestOutOfBand, slabVars, ladderVars
<1>6. CASE RestSlabFull
    BY <1>0, <1>6, LightLines DEF RestSlabFull, Slab!AllocateFails, Slab!Null, Null, ladderVars
<1>7. CASE RestAllocate
    BY <1>0, <1>7, LightLines DEF RestAllocate, Slab!Allocate, ladderVars
<1>8. CASE RestLink
    BY <1>8, RestLinkNarrow
<1>9. ASSUME NEW id \in Ids, Cancel(id)
      PROVE  Aggregates' /\ Narrow'
    BY <1>9, CancelNarrow
<1>10. ASSUME NEW id \in Ids, CancelUnknown(id)
       PROVE  Aggregates' /\ Narrow'
    BY <1>0, <1>10, LightLines DEF CancelUnknown, slabVars, ladderVars
<1>11. CASE UNCHANGED vars
    BY <1>0, <1>11, LightLines DEF vars, slabVars, ladderVars
<1> QED
    BY <1>1, <1>2, <1>3, <1>4, <1>5, <1>6, <1>7, <1>8, <1>9, <1>10, <1>11 DEF Next

LEMMA LinesHold == Spec => [](Inv /\ Aggregates /\ Narrow)
    BY Invariance, InitLines, NextLines, PTL DEF Spec

(* Running totals of positive quantities are never negative. *)
LEMMA LineNat ==
    ASSUME NEW n, NEW c, NEW h, NEW s, NEW p, NEW ord, NEW lvl, NEW L,
           Line(n, c, h, s, p, ord, lvl, L),
           \A k \in 1 .. n : ord[c[k]].qty \in Nat
    PROVE  lvl.total_qty \in Nat /\ lvl.order_count \in Nat
<1> DEFINE S == { k \in 0 .. n : h[k] < 0 }
<1>1. n \in Nat /\ h \in [0 .. n -> Int] /\ h[0] = 0 /\ lvl.order_count = n /\ lvl.total_qty = h[n]
    BY DEF Line
<1>2. S = {}
    <2>1. SUFFICES ASSUME S # {} PROVE FALSE
        OBVIOUS
    <2>2. S \subseteq Nat
        OBVIOUS
    <2>3. PICK k \in S : \A y \in S : k =< y
        BY <2>1, <2>2, LeastNat
    <2>4. k \in 0 .. n /\ h[k] < 0
        BY <2>3
    <2>5. k # 0
        BY <1>1, <2>4
    <2>6. k \in 1 .. n /\ k - 1 \in 0 .. n /\ ~(k =< k - 1)
        BY <1>1, <2>4, <2>5
    <2>7. ~(h[k - 1] < 0)
        BY <2>3, <2>6
    <2>8. h[k] = h[k - 1] + ord[c[k]].qty
        BY <2>6 DEF Line
    <2>9. h[k] \in Int /\ h[k - 1] \in Int /\ ord[c[k]].qty \in Nat
        BY <1>1, <2>4, <2>6
    <2> QED
        BY <2>4, <2>7, <2>8, <2>9
<1>3. n \in 0 .. n /\ h[n] \in Int
    BY <1>1
<1>4. ~(h[n] < 0)
    BY <1>2, <1>3
<1> QED
    BY <1>1, <1>3, <1>4

LEMMA Typed == Inv /\ Aggregates /\ Narrow => TypeOK
<1> SUFFICES ASSUME Inv, Aggregates, Narrow PROVE TypeOK
    OBVIOUS
<1>1. Kinds /\ OneCall /\ Indexed /\ Lists /\ Touch /\ BlocksPartitioned
    BY DEF Inv
<1>2. order \in [Blocks -> [price : Int, qty : Nat, side : Sides \cup {"stale"},
                            prev : 0 .. Capacity, next : 0 .. Capacity]]
    <2>1. order \in [Blocks -> OrderRecs]
        BY <1>1, RecordKinds
    <2>2. ASSUME NEW b \in Blocks
          PROVE  order[b] \in [price : Int, qty : Nat, side : Sides \cup {"stale"},
                               prev : 0 .. Capacity, next : 0 .. Capacity]
        <3>1. order[b] \in OrderRecs /\ order[b].qty >= 0
            BY <2>1 DEF Narrow
        <3>2. order[b].qty \in Int
            BY <3>1 DEF OrderRecs
        <3>3. order[b].qty \in Nat
            BY <3>1, <3>2
        <3> QED
            BY <3>1, <3>3 DEF OrderRecs
    <2> QED
        BY <2>1, <2>2
<1>3. levels \in [Sides -> [Band -> [head : 0 .. Capacity, tail : 0 .. Capacity,
                                     total_qty : Nat, order_count : Nat]]]
    <2>1. levels \in [Sides -> [Band -> LevelRecs]]
        BY <1>1, RecordKinds
    <2>2. ASSUME NEW s \in Sides, NEW p \in Band
          PROVE  levels[s][p] \in [head : 0 .. Capacity, tail : 0 .. Capacity,
                                   total_qty : Nat, order_count : Nat]
        <3>1. levels[s][p] \in LevelRecs
            BY <2>1
        <3>2. PICK n, c, h : LevelLine(n, c, h, s, p)
            BY DEF Aggregates, Lined, LevelLine
        <3>3. \A k \in 1 .. n : c[k] \in Blocks
            BY <1>1, <3>2, LinkedBlock DEF LevelLine, Line
        <3>4. \A k \in 1 .. n : order[c[k]].qty \in Nat
            BY <1>2, <3>3
        <3>5. levels[s][p].total_qty \in Nat /\ levels[s][p].order_count \in Nat
            BY <3>2, <3>4, LineNat DEF LevelLine
        <3> QED
            BY <3>1, <3>5 DEF LevelRecs
    <2> QED
        BY <2>1, <2>2
<1>4. live_levels \in [Sides -> Nat]
    <2>1. \A s \in Sides : live_levels[s] \in Nat
        <3> TAKE s \in Sides
        <3>1. Counted(s) \subseteq Band /\ live_levels[s] = Cardinality(Counted(s))
            BY <1>1 DEF Touch
        <3> QED
            BY <3>1, BandFinite
    <2> QED
        BY <1>1, <2>1 DEF Kinds
<1>5. Slab!TypeOK
    <2>1. in_use \in 0 .. Capacity
        <3>1. /\ in_use = Cardinality(Linked \cup Held)
              /\ Linked \cup Slab!FreeBlocks \cup Held = Blocks
            BY <1>1 DEF BlocksPartitioned
        <3>2. Linked \cup Held \subseteq Blocks
            BY <3>1
        <3> QED
            BY <3>1, <3>2, BlocksFinite
    <2>2. word \in [Blocks -> 0 .. (Capacity + MaxOrders)]
        BY <1>1 DEF Kinds, Narrow
    <2>3. Slab!Blocks = Blocks
        BY DEF Slab!Blocks, Blocks
    <2> QED
        BY <1>1, <2>1, <2>2, <2>3 DEF Slab!TypeOK, Kinds, Narrow
<1>6. taker.remaining \in Nat
    <2>1. Book!NoTaker.remaining = 0
        BY DEF Book!NoTaker
    <2> QED
        BY <1>1, <2>1 DEF OneCall
<1>7. victim \in 0 .. Capacity
    BY <1>1 DEF OneCall, Blocks, Null
<1> QED
    BY <1>1, <1>2, <1>3, <1>4, <1>5, <1>6, <1>7 DEF TypeOK, Kinds, OneCall

(* Every link, head and tail is a block or null, and no quantity, level    *)
(* total, order count or level count ever goes below zero: the unsigned    *)
(* subtractions of ConsumeLevel and Cancel never wrap.                     *)
THEOREM TypeCorrect == Spec => []TypeOK
    BY LinesHold, Typed, PTL


---------------------------------------------------------------------------
(* Walking a list.  A function defined by recursion on an interval is the  *)
(* only one that satisfies its defining equation; here both Chain's walk   *)
(* and SumQty's sum are exhibited.                                         *)

Extend(w) ==
    IF w = <<>> \/ order[w[Len(w)]].next = Null THEN w ELSE Append(w, order[w[Len(w)]].next)
WalkStep(head, f, m) ==
    IF m = 0 THEN IF head = Null THEN <<>> ELSE <<head>> ELSE Extend(f[m - 1])

LEMMA LineIsSeq ==
    ASSUME NEW n \in Nat, NEW S, NEW c \in [1 .. n -> S]
    PROVE  c \in Seq(S) /\ Len(c) = n
    OBVIOUS

(* The first blocks of a line. *)
Upto(m, n) == IF m < n THEN m + 1 ELSE n
Prefix(c, m, n) == [k \in 1 .. Upto(m, n) |-> c[k]]

IsPrefix(w, u, c, n) ==
    /\ w \in Seq(Blocks) /\ Len(w) = u /\ \A k \in 1 .. u : w[k] = c[k]
    /\ u \in 0 .. n /\ (w = <<>> <=> n = 0)

LEMMA PrefixIs ==
    ASSUME NEW n \in Nat, NEW c \in [1 .. n -> Blocks], NEW m \in Nat
    PROVE  IsPrefix(Prefix(c, m, n), Upto(m, n), c, n)
<1>1. Upto(m, n) \in 0 .. n /\ (Upto(m, n) = 0 <=> n = 0)
    BY DEF Upto
<1> DEFINE u == Upto(m, n)
           w == Prefix(c, m, n)
<1>2. w \in [1 .. u -> Blocks] /\ \A k \in 1 .. u : w[k] = c[k]
    BY <1>1 DEF Prefix
<1> HIDE DEF u, w
<1>3. u \in Nat /\ u \in 0 .. n /\ (u = 0 <=> n = 0)
    BY <1>1 DEF u
<1>4. w \in Seq(Blocks) /\ Len(w) = u
    BY <1>2, <1>3, LineIsSeq
<1>5. w = <<>> <=> Len(w) = 0
    BY <1>4, SeqFacts
<1> QED
    BY <1>2, <1>3, <1>4, <1>5 DEF IsPrefix, u, w

LEMMA PrefixExtends ==
    ASSUME NEW n \in Nat, NEW c \in [1 .. n -> Blocks], NEW m \in Nat, m # 0,
           \A k \in 1 .. n : order[c[k]].next = IF k = n THEN Null ELSE c[k + 1]
    PROVE  Extend(Prefix(c, m - 1, n)) = Prefix(c, m, n)
<1>1. PICK l \in Nat : l = m - 1
    OBVIOUS
<1> DEFINE w == Prefix(c, l, n)
           v == Prefix(c, m, n)
           i == Upto(l, n)
           j == Upto(m, n)
<1>a. IsPrefix(w, i, c, n) /\ IsPrefix(v, j, c, n)
    BY PrefixIs
<1>4. n # 0 => i >= 1 /\ (i = n => j = n) /\ (i # n => j = i + 1 /\ i + 1 \in 1 .. n)
    BY <1>1 DEF Upto
<1>5. Null \notin Blocks
    BY DEF Null, Blocks
<1> HIDE DEF w, v, i, j
<1>2. /\ w \in Seq(Blocks) /\ Len(w) = i /\ \A k \in 1 .. i : w[k] = c[k]
      /\ i \in 0 .. n /\ (w = <<>> <=> n = 0)
    BY <1>a DEF IsPrefix
<1>3. /\ v \in Seq(Blocks) /\ Len(v) = j /\ \A k \in 1 .. j : v[k] = c[k]
      /\ j \in 0 .. n /\ (v = <<>> <=> n = 0)
    BY <1>a DEF IsPrefix
<1>6. CASE n = 0
    <2>1. w = v /\ Extend(w) = w
        BY <1>2, <1>3, <1>6 DEF Extend
    <2> QED
        BY <1>1, <2>1 DEF w, v
<1>7. CASE n # 0
    <2>1. w[Len(w)] = c[i] /\ i \in 1 .. n
        BY <1>2, <1>4, <1>7
    <2>2. order[w[Len(w)]].next = IF i = n THEN Null ELSE c[i + 1]
        BY <2>1
    <2>3. CASE i = n
        <3>1. Extend(w) = w
            BY <2>2, <2>3 DEF Extend
        <3>2. j = n /\ Len(w) = Len(v) /\ \A k \in 1 .. Len(w) : w[k] = v[k]
            BY <1>2, <1>3, <1>4, <1>7, <2>3
        <3>3. w = v
            BY <1>2, <1>3, <3>2, SeqEqual
        <3> QED
            BY <1>1, <3>1, <3>3 DEF w, v
    <2>4. CASE i # n
        <3>1. j = i + 1 /\ i + 1 \in 1 .. n /\ c[i + 1] \in Blocks
            BY <1>4, <1>7, <2>4
        <3>2. Extend(w) = Append(w, c[i + 1])
            BY <1>2, <1>5, <1>7, <2>2, <2>4, <3>1 DEF Extend
        <3> DEFINE e == c[i + 1]
                   a == Append(w, e)
        <3>3. e \in Blocks /\ v[i + 1] = e
            BY <1>2, <1>3, <3>1
        <3> HIDE DEF e
        <3>4. /\ a \in Seq(Blocks) /\ Len(a) = Len(w) + 1 /\ a[Len(w) + 1] = e
              /\ \A k \in 1 .. Len(w) : a[k] = w[k]
            BY <1>2, <3>3
        <3> HIDE DEF a
        <3>5. Len(a) = Len(v) /\ i \in Nat /\ Len(a) = i + 1
            BY <1>2, <1>3, <3>1, <3>4
        <3>6. ASSUME NEW k \in 1 .. Len(a)
              PROVE  a[k] = v[k]
            <4>1. k \in 1 .. i \/ k = i + 1
                BY <3>5
            <4>2. k \in 1 .. i => k \in 1 .. j
                BY <3>1, <3>5
            <4> QED
                BY <1>2, <1>3, <3>3, <3>4, <4>1, <4>2
        <3>7. a = v
            BY <1>3, <3>4, <3>5, <3>6, SeqEqual
        <3> QED
            BY <1>1, <3>2, <3>7 DEF w, v, a, e
    <2> QED
        BY <2>3, <2>4
<1> QED
    BY <1>1, <1>6, <1>7

LEMMA ChainIsLine ==
    ASSUME NEW n \in Nat, n =< Capacity, NEW c \in [1 .. n -> Blocks],
           NEW head, head = IF n = 0 THEN Null ELSE c[1],
           \A k \in 1 .. n : order[c[k]].next = IF k = n THEN Null ELSE c[k + 1]
    PROVE  Chain(head) = c
<1> DEFINE W == [m \in 0 .. Capacity |-> Prefix(c, m, n)]
<1>1. \A m \in 0 .. Capacity : W[m] = Prefix(c, m, n)
    OBVIOUS
<1>2. W = [m \in 0 .. Capacity |-> W[m]] /\ Capacity \in 0 .. Capacity
    OBVIOUS
<1> HIDE DEF W
<1>3. (IF head = Null THEN <<>> ELSE <<head>>) = Prefix(c, 0, n)
    <2> DEFINE w == Prefix(c, 0, n)
               u == Upto(0, n)
    <2>0. IsPrefix(w, u, c, n)
        BY PrefixIs
    <2>a. n # 0 => u = 1
        BY DEF Upto
    <2> HIDE DEF w, u
    <2>b. /\ w \in Seq(Blocks) /\ Len(w) = u /\ \A k \in 1 .. u : w[k] = c[k]
          /\ (w = <<>> <=> n = 0)
        BY <2>0 DEF IsPrefix
    <2>1. CASE n = 0
        BY <2>b, <2>1 DEF w
    <2>2. CASE n # 0
        <3>1. c[1] \in Blocks /\ head = c[1] /\ head # Null
            BY <2>2 DEF Blocks, Null
        <3>2. Len(w) = 1 /\ w[1] = head
            BY <2>2, <2>a, <2>b, <3>1
        <3>3. <<head>> \in Seq(Blocks) /\ Len(<<head>>) = 1 /\ <<head>>[1] = head
            BY <3>1
        <3>4. \A k \in 1 .. 1 : <<head>>[k] = w[k]
            BY <3>2, <3>3
        <3>5. <<head>> = w
            BY <2>b, <3>2, <3>3, <3>4, SeqEqual
        <3> QED
            BY <3>1, <3>5 DEF w
    <2> QED
        BY <2>1, <2>2
<1>4. ASSUME NEW f, NEW m \in 0 .. Capacity, m # 0 => f[m - 1] = Prefix(c, m - 1, n)
      PROVE  WalkStep(head, f, m) = Prefix(c, m, n)
    BY <1>3, <1>4, PrefixExtends DEF WalkStep
<1>5. ASSUME NEW V, V = [m \in 0 .. Capacity |-> WalkStep(head, V, m)]
      PROVE  V = W
    <2> DEFINE S == { m \in 0 .. Capacity : V[m] # Prefix(c, m, n) }
    <2>1. \A m \in 0 .. Capacity : V[m] = WalkStep(head, V, m)
        BY <1>5
    <2>2. S = {}
        <3>1. SUFFICES ASSUME S # {} PROVE FALSE
            OBVIOUS
        <3>2. S \subseteq Nat
            OBVIOUS
        <3>3. PICK m \in S : \A y \in S : m =< y
            BY <3>1, <3>2, LeastNat
        <3>4. m # 0 => m - 1 \in 0 .. Capacity /\ ~(m =< m - 1)
            BY <3>3
        <3>5. m # 0 => V[m - 1] = Prefix(c, m - 1, n)
            BY <3>3, <3>4
        <3> QED
            BY <1>4, <2>1, <3>3, <3>5
    <2>3. V = [m \in 0 .. Capacity |-> V[m]]
        <3> DEFINE G(m) == WalkStep(head, V, m)
        <3> HIDE DEF G
        <3>1. V = [m \in 0 .. Capacity |-> G(m)]
            BY <1>5 DEF G
        <3> QED
            BY <3>1
    <2>4. \A m \in 0 .. Capacity : V[m] = W[m]
        BY <1>1, <2>2
    <2> QED
        BY <1>2, <2>3, <2>4
<1>6. W = [m \in 0 .. Capacity |-> WalkStep(head, W, m)]
    <2>1. \A m \in 0 .. Capacity : WalkStep(head, W, m) = Prefix(c, m, n)
        <3> TAKE m \in 0 .. Capacity
        <3>1. m # 0 => m - 1 \in 0 .. Capacity
            OBVIOUS
        <3> QED
            BY <1>1, <1>4, <3>1
    <2> QED
        BY <2>1 DEF W
<1>7. Chain(head) = W[Capacity]
    <2>1. \A V : V = [m \in 0 .. Capacity |-> WalkStep(head, V, m)] <=> V = W
        BY <1>5, <1>6
    <2> QED
        BY <2>1 DEF Chain, WalkStep, Extend
<1>8. Prefix(c, Capacity, n) = c
    <2>1. Upto(Capacity, n) = n
        BY DEF Upto
    <2> QED
        BY <2>1 DEF Prefix
<1> QED
    BY <1>1, <1>2, <1>7, <1>8


LEMMA SumIsLine ==
    ASSUME NEW n \in Nat, NEW c \in [1 .. n -> Blocks], NEW h \in [0 .. n -> Int], h[0] = 0,
           \A k \in 1 .. n : h[k] = h[k - 1] + order[c[k]].qty
    PROVE  SumQty(c) = h[n]
<1>1. Len(c) = n
    BY LineIsSeq
<1> DEFINE Add(f, k) == IF k = 0 THEN 0 ELSE f[k - 1] + order[c[k]].qty
<1>2. ASSUME NEW f, NEW k \in 0 .. n, k # 0 => f[k - 1] = h[k - 1]
      PROVE  Add(f, k) = h[k]
    BY <1>2
<1>3. h = [k \in 0 .. n |-> h[k]]
    OBVIOUS
<1>4. ASSUME NEW V, V = [k \in 0 .. n |-> Add(V, k)]
      PROVE  V = h
    <2> DEFINE S == { k \in 0 .. n : V[k] # h[k] }
    <2>1. \A k \in 0 .. n : V[k] = Add(V, k)
        BY <1>4
    <2>2. V = [k \in 0 .. n |-> V[k]]
        <3> DEFINE G(k) == Add(V, k)
        <3> HIDE DEF G
        <3>1. V = [k \in 0 .. n |-> G(k)]
            BY <1>4 DEF G
        <3> QED
            BY <3>1
    <2> HIDE DEF Add
    <2>3. S = {}
        <3>1. SUFFICES ASSUME S # {} PROVE FALSE
            OBVIOUS
        <3>2. S \subseteq Nat
            OBVIOUS
        <3>3. PICK k \in S : \A y \in S : k =< y
            BY <3>1, <3>2, LeastNat
        <3>4. k # 0 => k - 1 \in 0 .. n /\ ~(k =< k - 1)
            BY <3>3
        <3>5. k # 0 => V[k - 1] = h[k - 1]
            BY <3>3, <3>4
        <3> QED
            BY <1>2, <2>1, <3>3, <3>5
    <2> QED
        BY <1>3, <2>2, <2>3
<1>5. h = [k \in 0 .. n |-> Add(h, k)]
    <2>1. \A k \in 0 .. n : Add(h, k) = h[k]
        BY <1>2
    <2> HIDE DEF Add
    <2> QED
        BY <1>3, <2>1
<1>6. \A V : V = [k \in 0 .. n |-> IF k = 0 THEN 0 ELSE V[k - 1] + order[c[k]].qty] <=> V = h
    BY <1>4, <1>5
<1> HIDE DEF Add
<1> QED
    BY <1>1, <1>6 DEF SumQty

LEMMA LineFits ==
    ASSUME NEW n \in Nat, NEW c \in [1 .. n -> Blocks],
           \A i, k \in 1 .. n : c[i] = c[k] => i = k
    PROVE  n =< Capacity
<1>1. IsFiniteSet(1 .. n) /\ Cardinality(1 .. n) = n
    BY FS_Interval
<1>2. IsFiniteSet(Blocks) /\ Cardinality(Blocks) = Capacity
    BY FS_Interval DEF Blocks
<1>3. ~(Cardinality(Blocks) < Cardinality(1 .. n))
    BY <1>1, <1>2, FS_PigeonHole
<1> QED
    BY <1>1, <1>2, <1>3

LEMMA Exact == Inv /\ Aggregates => LevelsExact
<1> SUFFICES ASSUME Inv, Aggregates, NEW s \in Sides, NEW p \in Band
             PROVE  LET l == levels[s][p]
                        c == Chain(l.head)
                    IN /\ l.order_count = Len(c)
                       /\ l.total_qty = SumQty(c)
                       /\ l.tail = IF c = <<>> THEN Null ELSE c[Len(c)]
                       /\ \A k \in 1 .. Len(c) :
                             /\ order[c[k]].side = s /\ order[c[k]].price = p
                             /\ order[c[k]].qty > 0
                             /\ order[c[k]].prev = IF k = 1 THEN Null ELSE c[k - 1]
                             /\ id_index[word[c[k]]] = c[k]
                             /\ k > 1 => word[c[k - 1]] < word[c[k]]
    BY DEF LevelsExact
<1>1. Kinds /\ Indexed /\ Lists
    BY DEF Inv
<1>2. PICK n, c, h : LevelLine(n, c, h, s, p)
    BY DEF Aggregates, Lined, LevelLine
<1>3. /\ n \in Nat /\ c \in [1 .. n -> Linked] /\ h \in [0 .. n -> Int] /\ h[0] = 0
      /\ levels[s][p].head = IF n = 0 THEN Null ELSE c[1]
      /\ levels[s][p].order_count = n /\ levels[s][p].total_qty = h[n]
    BY <1>2 DEF LevelLine, Line
<1>4. \A k \in 1 .. n :
          /\ order[c[k]].side = s /\ order[c[k]].price = p
          /\ order[c[k]].next = IF k = n THEN Null ELSE c[k + 1]
          /\ h[k] = h[k - 1] + order[c[k]].qty
    BY <1>2 DEF LevelLine, Line
<1>5. c \in [1 .. n -> Blocks]
    BY <1>3 DEF Linked
<1>6. /\ \A j, k \in 1 .. n : j < k => word[c[j]] < word[c[k]]
      /\ \A j, k \in 1 .. n : c[j] = c[k] => j = k
    BY <1>1, <1>2, LineAscends
<1>7. n =< Capacity
    BY <1>3, <1>5, <1>6, LineFits
<1>8. Chain(levels[s][p].head) = c
    <2>1. n \in Nat /\ levels[s][p].head = IF n = 0 THEN Null ELSE c[1]
        BY <1>3
    <2>2. \A k \in 1 .. n : order[c[k]].next = IF k = n THEN Null ELSE c[k + 1]
        BY <1>4
    <2> QED
        BY <1>5, <1>7, <2>1, <2>2, ChainIsLine
<1>9. SumQty(c) = h[n]
    <2>1. n \in Nat /\ h \in [0 .. n -> Int] /\ h[0] = 0
        BY <1>3
    <2>2. \A k \in 1 .. n : h[k] = h[k - 1] + order[c[k]].qty
        BY <1>4
    <2> QED
        BY <1>5, <2>1, <2>2, SumIsLine
<1>10. Len(c) = n /\ (c = <<>> <=> n = 0)
    <2>1. c \in Seq(Blocks) /\ Len(c) = n
        BY <1>3, <1>5, LineIsSeq
    <2> QED
        BY <2>1, SeqFacts
<1>11. levels[s][p].tail = IF n = 0 THEN Null ELSE c[n]
    <2>1. CASE n = 0
        BY <1>1, <1>3, <2>1, Ends
    <2>2. CASE n # 0
        <3>1. n \in 1 .. n
            BY <1>3, <2>2
        <3>2. c[n] \in Linked /\ order[c[n]].next = Null
            BY <1>3, <1>4, <3>1
        <3> QED
            BY <1>1, <1>4, <2>2, <3>1, <3>2, LinkedLevel
    <2> QED
        BY <2>1, <2>2
<1>12. ASSUME NEW k \in 1 .. n
       PROVE  /\ order[c[k]].side = s /\ order[c[k]].price = p
              /\ order[c[k]].qty > 0
              /\ order[c[k]].prev = IF k = 1 THEN Null ELSE c[k - 1]
              /\ id_index[word[c[k]]] = c[k]
              /\ k > 1 => word[c[k - 1]] < word[c[k]]
    <2>1. c[k] \in Linked
        BY <1>3
    <2>2. order[c[k]].qty > 0 /\ id_index[word[c[k]]] = c[k]
        BY <1>1, <2>1, LinkedLevel, LinkedBlock
    <2>3. order[c[k]].prev = IF k = 1 THEN Null ELSE c[k - 1]
        BY <1>1, <1>2, LinePrev
    <2>4. k > 1 => k - 1 \in 1 .. n /\ k - 1 < k
        BY <1>3
    <2>5. k > 1 => word[c[k - 1]] < word[c[k]]
        BY <1>6, <2>4
    <2> QED
        BY <1>4, <2>2, <2>3, <2>5
<1> QED
    BY <1>3, <1>8, <1>9, <1>10, <1>11, <1>12

(* Every price level is a doubly linked FIFO of live orders of its own     *)
(* side and price, earliest id first, and total_qty, order_count and tail, *)
(* which the code maintains in O(1), are what walking the list gives.      *)
THEOREM LevelsExactHolds == Spec => []LevelsExact
    BY LinesHold, Exact, PTL
============================================================================
