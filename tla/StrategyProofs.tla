--------------------------- MODULE StrategyProofs ---------------------------
(***************************************************************************)
(* For every parent, every number of steps, every volume profile, every    *)
(* urgency, every actor and every rounding error, the children of the      *)
(* three strategies add up to the parent, no unsigned subtraction wraps    *)
(* and rounding errors do not accumulate.                                  *)
(***************************************************************************)
EXTENDS Strategy, TLAPS

(* llround gives an unsigned number, of a NaN too. *)
LEMMA LLRoundIsNat ==
    ASSUME NEW qty, NEW f, NEW x \in LLRound(qty, f)
    PROVE  x \in Nat
<1>1. Word \in Nat
    BY StrategyAssumption
<1>2. Word \div 2 \in Nat
    BY <1>1
<1> QED
    BY <1>1, <1>2 DEF LLRound, Quantity

(* The cumulative VWAP target lies between what was sent and the parent,   *)
(* and the last one is the parent.                                         *)
LEMMA VwapTargetBounds ==
    ASSUME TypeOK, NEW cum, NEW target \in VwapTargets(cum)
    PROVE  /\ target \in last .. parent_qty
           /\ step + 1 = num_steps => target = parent_qty
<1>1. parent_qty \in Nat /\ last \in 0 .. parent_qty
    BY StrategyAssumption DEF TypeOK
<1>2. CASE step + 1 = num_steps
    BY <1>1, <1>2 DEF VwapTargets
<1>3. CASE step + 1 # num_steps
    <2>1. PICK x \in LLRound(parent_qty, AtMost(cum, Unit)) :
              target = AtLeast(AtMost(x, parent_qty), last)
        BY <1>3 DEF VwapTargets
    <2>2. x \in Nat
        BY LLRoundIsNat
    <2> QED
        BY <1>1, <1>3, <2>1, <2>2 DEF AtMost, AtLeast
<1> QED
    BY <1>2, <1>3

(* A child of the RL policy is at most what is left, and all of it on the  *)
(* last step.                                                              *)
LEMMA RlQuantityBounds ==
    ASSUME TypeOK, step < num_steps, NEW q \in RlQuantities
    PROVE  /\ q \in 0 .. remaining[step]
           /\ step + 1 = num_steps => q = remaining[step]
<1>1. remaining[step] \in Nat
    BY StrategyAssumption DEF TypeOK
<1>2. CASE step + 1 = num_steps
    BY <1>1, <1>2 DEF RlQuantities
<1>3. CASE step + 1 # num_steps
    <2>1. PICK x \in UNION { LLRound(remaining[step], f) : f \in ClampUnit } :
              q = AtMost(x, remaining[step])
        BY <1>3 DEF RlQuantities
    <2>2. x \in Nat
        BY <2>1, LLRoundIsNat
    <2> QED
        BY <1>1, <1>3, <2>1, <2>2 DEF AtMost
<1> QED
    BY <1>2, <1>3

---------------------------------------------------------------------------
(* The two tables and the counters, as numbers. *)
LEMMA Numbers ==
    ASSUME TypeOK
    PROVE  /\ parent_qty \in Nat /\ num_steps \in Nat \ {0}
           /\ step \in Nat /\ step =< num_steps
           /\ submitted \in Nat /\ submitted =< step
           /\ last \in Nat /\ last =< parent_qty
           /\ accepted \in Nat /\ refused \in Nat
           /\ \A j \in 0 .. num_steps - 1 : child_qty[j] \in 0 .. parent_qty
           /\ \A j \in 0 .. num_steps : remaining[j] \in 0 .. parent_qty
    BY StrategyAssumption DEF TypeOK

LEMMA InitInv == Init => Inv
<1> SUFFICES ASSUME Init PROVE Inv
    OBVIOUS
<1>1. parent_qty \in Nat /\ num_steps \in Nat \ {0}
    BY StrategyAssumption DEF Init
<1>2. TypeOK
    BY <1>1, StrategyAssumption DEF Init, TypeOK
<1>3. Chained
    BY <1>1 DEF Init, Chained
<1>4. Agrees
    BY <1>1 DEF Init, Agrees, AcKinds
<1>5. SentPlusRemaining
    BY <1>1 DEF Init, SentPlusRemaining
<1> QED
    BY <1>2, <1>3, <1>4, <1>5 DEF Inv

(* Filling entry step of a table with a child q that is no more than what  *)
(* is left keeps the chain, whichever strategy does it.                    *)
LEMMA FillKeepsTables ==
    ASSUME Inv, step < num_steps,
           NEW q \in 0 .. remaining[step],
           step + 1 = num_steps => q = remaining[step],
           child_qty' = [child_qty EXCEPT ![step] = q],
           remaining' = [remaining EXCEPT ![step + 1] = remaining[step] - q],
           step' = step + 1,
           last' \in 0 .. parent_qty,
           UNCHANGED <<params, sends>>
    PROVE  TypeOK' /\ Chained' /\ SentPlusRemaining'
<1>n. TypeOK
    BY DEF Inv
<1> USE <1>n, Numbers DEF params, sends
<1>r. remaining[step] \in Nat /\ remaining[step] =< parent_qty /\ q =< parent_qty
      /\ remaining[step] - q \in 0 .. parent_qty
    OBVIOUS
<1>1. TypeOK'
    <2>1. q \in 0 .. parent_qty
        BY <1>r
    <2>2. /\ child_qty' \in [0 .. num_steps - 1 -> 0 .. parent_qty]
          /\ remaining' \in [0 .. num_steps -> 0 .. parent_qty]
        BY <1>r, <2>1 DEF TypeOK
    <2>3. step' \in 0 .. num_steps /\ submitted \in 0 .. step'
        OBVIOUS
    <2> QED
        BY <2>2, <2>3 DEF TypeOK
<1>2. /\ remaining'[step + 1] = remaining[step] - q
      /\ \A j \in 0 .. num_steps : j # step + 1 => remaining'[j] = remaining[j]
      /\ child_qty'[step] = q
      /\ \A j \in 0 .. num_steps - 1 : j # step => child_qty'[j] = child_qty[j]
    BY DEF TypeOK
<1>3. Chained'
    <2>1. ASSUME NEW j \in 0 .. step' - 1
          PROVE  remaining'[j] = child_qty'[j] + remaining'[j + 1]
        <3>1. CASE j = step
            BY <1>2, <1>r, <3>1
        <3>2. CASE j < step
            <4>1. remaining[j] = child_qty[j] + remaining[j + 1]
                BY <3>2 DEF Inv, Chained
            <4> QED
                BY <1>2, <3>2, <4>1
        <3> QED
            BY <3>1, <3>2
    <2>2. ASSUME NEW j \in step' + 1 .. num_steps'
          PROVE  remaining'[j] = 0
        <3>1. remaining[j] = 0
            BY DEF Inv, Chained
        <3> QED
            BY <1>2, <3>1
    <2>3. step' = num_steps' => remaining'[num_steps'] = 0
        BY <1>2, <1>r
    <2> QED
        BY <2>1, <2>2, <2>3 DEF Chained
<1>4. SentPlusRemaining'
    <2>1. remaining'[submitted] = remaining[submitted]
        BY <1>2
    <2> QED
        BY <2>1 DEF Inv, SentPlusRemaining
<1> QED
    BY <1>1, <1>3, <1>4

(* A step of any strategy, or of its submission, keeps the invariant.      *)
LEMMA NextInv == Inv /\ [Next]_vars => Inv'
<1> SUFFICES ASSUME Inv, [Next]_vars PROVE Inv'
    OBVIOUS
<1>n. TypeOK
    BY DEF Inv
<1> USE <1>n, Numbers
<1>1. CASE VwapSlice
    <2>1. PICK w \in Weights : \E t \in VwapTargets(frac[step] + w) :
              /\ child_qty' = [child_qty EXCEPT ![step] = Minus(t, last)]
              /\ remaining' = [remaining EXCEPT ![step + 1] = Minus(parent_qty, t)]
              /\ last' = t
        BY <1>1 DEF VwapSlice
    <2>2. PICK t \in VwapTargets(frac[step] + w) :
              /\ child_qty' = [child_qty EXCEPT ![step] = Minus(t, last)]
              /\ remaining' = [remaining EXCEPT ![step + 1] = Minus(parent_qty, t)]
              /\ last' = t
        BY <2>1
    <2>3. kind = "vwap" /\ step < num_steps /\ step' = step + 1 /\ UNCHANGED <<params, sends>>
        BY <1>1 DEF VwapSlice
    <2>4. t \in last .. parent_qty /\ (step + 1 = num_steps => t = parent_qty)
        BY VwapTargetBounds
    <2>5. remaining[step] = parent_qty - last
        BY <2>3 DEF Inv, Agrees
    <2>6. /\ Minus(t, last) = t - last
          /\ Minus(parent_qty, t) = remaining[step] - (t - last)
        BY <2>4, <2>5 DEF Minus
    <2>7. t - last \in 0 .. remaining[step] /\ (step + 1 = num_steps => t - last = remaining[step])
        BY <2>4, <2>5
    <2>7a. /\ child_qty' = [child_qty EXCEPT ![step] = t - last]
           /\ remaining' = [remaining EXCEPT ![step + 1] = remaining[step] - (t - last)]
           /\ last' \in 0 .. parent_qty
        BY <2>2, <2>4, <2>6
    <2>8. TypeOK' /\ Chained' /\ SentPlusRemaining'
        BY <2>3, <2>7, <2>7a, FillKeepsTables
    <2>9. Agrees'
        <3>1. remaining'[step + 1] = parent_qty - t
            BY <2>2, <2>3, <2>4, <2>5, <2>6 DEF TypeOK
        <3> QED
            BY <2>2, <2>3, <2>4, <3>1 DEF Agrees, params
    <2> QED
        BY <2>8, <2>9 DEF Inv
<1>2. CASE AcSlice
    <2>0. PICK f \in AcFractions(step + 1) : \E r \in LLRound(parent_qty, f) :
              /\ remaining' = [remaining EXCEPT ![step + 1] = AtMost(r, last)]
              /\ child_qty' = [child_qty EXCEPT ![step] = Minus(last, AtMost(r, last))]
              /\ last' = AtMost(r, last)
        BY <1>2 DEF AcSlice
    <2>1. PICK r \in LLRound(parent_qty, f) :
              /\ remaining' = [remaining EXCEPT ![step + 1] = AtMost(r, last)]
              /\ child_qty' = [child_qty EXCEPT ![step] = Minus(last, AtMost(r, last))]
              /\ last' = AtMost(r, last)
        BY <2>0
    <2> DEFINE x == AtMost(r, last)
    <2>2. kind \in AcKinds /\ step + 1 < num_steps /\ step' = step + 1 /\ UNCHANGED <<params, sends>>
        BY <1>2 DEF AcSlice
    <2>3. x \in 0 .. last
        BY LLRoundIsNat DEF AtMost
    <2>4. remaining[step] = last /\ kind # "vwap" /\ kind # "rl"
        BY <2>2 DEF Inv, Agrees, AcKinds
    <2> HIDE DEF x
    <2>5. Minus(last, x) = last - x /\ x = remaining[step] - (last - x)
        BY <2>3, <2>4 DEF Minus
    <2>6. /\ child_qty' = [child_qty EXCEPT ![step] = last - x]
          /\ remaining' = [remaining EXCEPT ![step + 1] = x]
          /\ last' = x
        BY <2>1, <2>5 DEF x
    <2>7. remaining' = [remaining EXCEPT ![step + 1] = remaining[step] - (last - x)]
        BY <2>5, <2>6
    <2>7a. last - x \in 0 .. remaining[step] /\ last' \in 0 .. parent_qty /\ step < num_steps
           /\ step + 1 # num_steps
        BY <2>2, <2>3, <2>4, <2>6
    <2>8. TypeOK' /\ Chained' /\ SentPlusRemaining'
        BY <2>2, <2>6, <2>7, <2>7a, FillKeepsTables
    <2>9. Agrees'
        <3>1. remaining'[step + 1] = x
            BY <2>2, <2>6 DEF TypeOK
        <3> QED
            BY <2>2, <2>4, <2>6, <3>1 DEF Agrees, params
    <2> QED
        BY <2>8, <2>9 DEF Inv
<1>3. CASE AcCloseOut
    <2>1. /\ kind \in AcKinds /\ step + 1 = num_steps /\ step' = step + 1
          /\ child_qty' = [child_qty EXCEPT ![step] = last]
          /\ UNCHANGED <<params, sends, remaining, last>>
        BY <1>3 DEF AcCloseOut
    <2>2. remaining[step] = last /\ remaining[step + 1] = 0
        BY <2>1 DEF Inv, Agrees, AcKinds, Chained
    <2>3. remaining' = [remaining EXCEPT ![step + 1] = remaining[step] - last]
        BY <2>1, <2>2 DEF TypeOK
    <2>4. last \in 0 .. remaining[step] /\ last' \in 0 .. parent_qty /\ step < num_steps
        BY <2>1, <2>2
    <2>5. TypeOK' /\ Chained' /\ SentPlusRemaining'
        BY <2>1, <2>2, <2>3, <2>4, FillKeepsTables
    <2>6. Agrees'
        BY <2>1 DEF Agrees, params
    <2> QED
        BY <2>5, <2>6 DEF Inv
<1>4. CASE ComputeNextAction
    <2>1. PICK q \in RlQuantities :
              /\ child_qty' = [child_qty EXCEPT ![step] = q]
              /\ remaining' = [remaining EXCEPT ![step + 1] = Minus(remaining[step], q)]
        BY <1>4 DEF ComputeNextAction
    <2>2. kind = "rl" /\ step < num_steps /\ step' = step + 1 /\ UNCHANGED <<params, sends, last>>
        BY <1>4 DEF ComputeNextAction
    <2>3. q \in 0 .. remaining[step] /\ (step + 1 = num_steps => q = remaining[step])
        BY <2>2, RlQuantityBounds
    <2>4. Minus(remaining[step], q) = remaining[step] - q /\ last' \in 0 .. parent_qty
        BY <2>2, <2>3 DEF Minus
    <2>5. TypeOK' /\ Chained' /\ SentPlusRemaining'
        BY <2>1, <2>2, <2>3, <2>4, FillKeepsTables
    <2>6. Agrees'
        BY <2>2 DEF Agrees, params
    <2> QED
        BY <2>5, <2>6 DEF Inv
<1>5. ASSUME Built, submitted' = submitted + 1, UNCHANGED <<params, tables>>,
             accepted' \in Nat, refused' \in Nat,
             accepted' + refused' = accepted + refused + child_qty[submitted]
      PROVE  Inv'
    <2>1. submitted < step /\ submitted < num_steps
        BY <1>5 DEF Built
    <2>2. TypeOK'
        <3>1. submitted' \in 0 .. step
            BY <1>5, <2>1
        <3>2. /\ kind' = kind /\ parent_qty' = parent_qty /\ num_steps' = num_steps
              /\ child_qty' = child_qty /\ remaining' = remaining
              /\ step' = step /\ last' = last
            BY <1>5 DEF params, tables
        <3> HIDE Numbers
        <3> QED
            BY <1>5, <3>1, <3>2 DEF TypeOK
    <2>3. Chained' /\ Agrees'
        BY <1>5 DEF Inv, Chained, Agrees, params, tables
    <2>4. remaining[submitted] = child_qty[submitted] + remaining[submitted + 1]
        BY <2>1 DEF Inv, Chained
    <2>5. submitted + 1 = num_steps => remaining[submitted + 1] = 0
        BY <2>1 DEF Inv, Chained
    <2>6. SentPlusRemaining'
        BY <1>5, <2>1, <2>4, <2>5 DEF Inv, SentPlusRemaining, params, tables
    <2> QED
        BY <2>2, <2>3, <2>6 DEF Inv
<1>6. CASE SubmitNothing
    BY <1>5, <1>6 DEF SubmitNothing
<1>7. CASE SubmitStep
    <2>1. child_qty[submitted] \in Nat
        BY <1>7 DEF SubmitStep, Built
    <2> QED
        BY <1>5, <1>7, <2>1 DEF SubmitStep
<1>8. CASE UNCHANGED vars
    BY <1>8 DEF vars, params, tables, sends, Inv, TypeOK, Chained, Agrees, SentPlusRemaining
<1> QED
    BY <1>1, <1>2, <1>3, <1>4, <1>6, <1>7, <1>8 DEF Next

(* The inductive invariant: both tables chain, the constructors' local     *)
(* agrees with them, and what was sent and what remains make the parent.   *)
THEOREM Invariance == Spec => []Inv
    BY InitInv, NextInv, PTL DEF Spec

(* No child order and no remainder of any strategy exceeds the parent.     *)
THEOREM StrategyTypeOK == Spec => []TypeOK
<1>1. Inv => TypeOK
    BY DEF Inv
<1> QED
    BY <1>1, Invariance, PTL

(* Between any two SubmitStep calls what was sent and what the table calls *)
(* remaining make up the parent, and at the horizon nothing is left.       *)
THEOREM StrategySentPlusRemaining == Spec => []SentPlusRemaining
<1>1. Inv => SentPlusRemaining
    BY DEF Inv
<1> QED
    BY <1>1, Invariance, PTL

---------------------------------------------------------------------------
(* Rounding.  A quantity is within one rounding of a fraction of another.  *)

Tolerance == Unit * (1 + 2 * Ulp)
Within(qty, x, f) == 2 * Distance(Unit * x, qty * f) =< Tolerance

LEMMA Times ==
    ASSUME NEW a \in Nat, NEW b \in Int, NEW c \in Int, b =< c
    PROVE  a * b \in Int /\ a * c \in Int /\ a * b =< a * c
    OBVIOUS

LEMMA ToleranceIsNat == Unit \in Nat /\ Tolerance \in Nat
<1>1. Unit \in Nat /\ 1 + 2 * Ulp \in Nat
    BY StrategyAssumption
<1> QED
    BY <1>1 DEF Tolerance

LEMMA WithinIs ==
    ASSUME NEW qty \in Nat, NEW x \in Nat, NEW f \in Nat
    PROVE  /\ Unit * x \in Nat /\ qty * f \in Nat
           /\ Within(qty, x, f) <=> /\ 2 * (Unit * x) =< 2 * (qty * f) + Tolerance
                                    /\ 2 * (Unit * x) >= 2 * (qty * f) - Tolerance
<1>1. Unit * x \in Nat /\ qty * f \in Nat /\ Tolerance \in Nat
    BY ToleranceIsNat
<1> DEFINE a == Unit * x
           b == qty * f
<1> HIDE DEF a, b
<1>2. 2 * Distance(a, b) =< Tolerance <=> 2 * a =< 2 * b + Tolerance /\ 2 * a >= 2 * b - Tolerance
    BY <1>1 DEF Distance, a, b
<1> QED
    BY <1>1, <1>2 DEF Within, a, b

LEMMA LLRoundWithin ==
    ASSUME NEW qty \in Nat, NEW f \in Nat, NEW x \in LLRound(qty, f)
    PROVE  x \in Nat /\ Within(qty, x, f)
<1>1. x \in Nat
    BY LLRoundIsNat
<1>2. f # NaN
    BY DEF NaN
<1>3. /\ 2 * Unit * x =< 2 * qty * f + Unit * (1 + 2 * Ulp)
      /\ 2 * Unit * x >= 2 * qty * f - Unit * (1 + 2 * Ulp)
    BY <1>2 DEF LLRound
<1>4. 2 * Unit * x = 2 * (Unit * x) /\ 2 * qty * f = 2 * (qty * f)
    BY <1>1, ToleranceIsNat
<1> QED
    BY <1>1, <1>3, <1>4, WithinIs DEF Tolerance

(* VWAP clamps a target to the parent and to what was sent: neither takes  *)
(* it further from the curve, since the curve ascends to the parent.       *)
LEMMA ClampedUp ==
    ASSUME NEW qty \in Nat, NEW f \in 0 .. Unit, NEW g \in 0 .. Unit, f =< g,
           NEW sent \in 0 .. qty, Within(qty, sent, f), NEW x \in Nat, Within(qty, x, g)
    PROVE  Within(qty, AtLeast(AtMost(x, qty), sent), g)
<1> DEFINE y == AtLeast(AtMost(x, qty), sent)
<1>1. Unit \in Nat /\ Tolerance \in Nat /\ f \in Nat /\ g \in Nat /\ sent \in Nat
    BY ToleranceIsNat
<1>2. y \in Nat
    BY <1>1 DEF AtLeast, AtMost
<1>3. /\ 2 * (Unit * x) =< 2 * (qty * g) + Tolerance
      /\ 2 * (Unit * x) >= 2 * (qty * g) - Tolerance
    BY <1>1, WithinIs
<1>4. 2 * (Unit * sent) =< 2 * (qty * f) + Tolerance
    BY <1>1, WithinIs
<1>5. qty * f =< qty * g /\ qty * g =< Unit * qty
    <2>1. qty * g =< qty * Unit
        BY <1>1, Times
    <2>2. qty * Unit = Unit * qty
        BY <1>1
    <2> QED
        BY <1>1, <2>1, <2>2, Times
<1>6. /\ Unit * x \in Int /\ Unit * qty \in Int /\ Unit * sent \in Int
      /\ qty * f \in Int /\ qty * g \in Int
    BY <1>1
<1>7. CASE x > qty
    <2>1. y = qty
        BY <1>1, <1>7 DEF AtLeast, AtMost
    <2>2. Unit * qty =< Unit * x
        BY <1>1, <1>7, Times
    <2>3. /\ 2 * (Unit * qty) =< 2 * (qty * g) + Tolerance
          /\ 2 * (Unit * qty) >= 2 * (qty * g) - Tolerance
        BY <1>1, <1>3, <1>5, <1>6, <2>2
    <2> QED
        BY <1>1, <2>1, <2>3, WithinIs
<1>8. CASE ~(x > qty) /\ x < sent
    <2>1. y = sent
        BY <1>1, <1>8 DEF AtLeast, AtMost
    <2>2. Unit * x =< Unit * sent
        BY <1>1, <1>8, Times
    <2>3. /\ 2 * (Unit * sent) =< 2 * (qty * g) + Tolerance
          /\ 2 * (Unit * sent) >= 2 * (qty * g) - Tolerance
        BY <1>1, <1>3, <1>4, <1>5, <1>6, <2>2
    <2> QED
        BY <1>1, <2>1, <2>3, WithinIs
<1>9. CASE ~(x > qty) /\ ~(x < sent)
    BY <1>9 DEF AtLeast, AtMost
<1> QED
    BY <1>7, <1>8, <1>9

(* Almgren-Chriss clamps what remains to what remained: the curve          *)
(* descends, or has reached 0.                                             *)
LEMMA ClampedDown ==
    ASSUME NEW qty \in Nat, NEW f \in Nat, NEW left \in Nat, NEW x \in Nat, Within(qty, x, f),
           f # 0 => \E g \in Nat : f =< g /\ Within(qty, left, g)
    PROVE  Within(qty, AtMost(x, left), f)
<1>1. Unit \in Nat /\ Tolerance \in Nat
    BY ToleranceIsNat
<1>2. CASE x > left
    <2>1. AtMost(x, left) = left /\ Unit * left =< Unit * x
        BY <1>1, <1>2, Times DEF AtMost
    <2>2. /\ Unit * left \in Nat /\ Unit * x \in Nat /\ qty * f \in Nat
          /\ 2 * (Unit * x) =< 2 * (qty * f) + Tolerance
        BY WithinIs
    <2>3. 2 * (Unit * left) =< 2 * (qty * f) + Tolerance
        BY <1>1, <2>1, <2>2
    <2>4. 2 * (Unit * left) >= 2 * (qty * f) - Tolerance
        <3>1. CASE f = 0
            BY <1>1, <2>2, <3>1
        <3>2. CASE f # 0
            <4>1. PICK g \in Nat : f =< g /\ Within(qty, left, g)
                BY <3>2
            <4>2. qty * g \in Int /\ 2 * (Unit * left) >= 2 * (qty * g) - Tolerance
                BY <4>1, WithinIs
            <4>3. qty * f =< qty * g
                BY <4>1, Times
            <4> QED
                BY <1>1, <2>2, <4>2, <4>3
        <3> QED
            BY <3>1, <3>2
    <2> QED
        BY <2>1, <2>3, <2>4, WithinIs
<1>3. CASE ~(x > left)
    BY <1>3 DEF AtMost
<1> QED
    BY <1>2, <1>3

(* The TWAP line falls from the whole parent to nothing. *)
LEMMA TwapFalls ==
    ASSUME num_steps \in 1 .. MaxSteps
    PROVE  /\ TwapFraction(0) = Unit
           /\ \A j \in 0 .. num_steps - 1 :
                 /\ TwapFraction(j) \in 0 .. Unit /\ TwapFraction(j + 1) \in 0 .. Unit
                 /\ TwapFraction(j + 1) =< TwapFraction(j)
<1> DEFINE d == Unit \div num_steps
           n == num_steps
<1>1. n \in Nat /\ n >= 1 /\ Unit \in Nat /\ Unit % n = 0
    BY StrategyAssumption
<1>2. d \in Nat /\ Unit = d * n
    BY <1>1
<1> HIDE DEF d, n
<1>3. \A j : TwapFraction(j) = d * (n - j)
    BY DEF TwapFraction, d, n
<1>4. TwapFraction(0) = Unit
    BY <1>1, <1>2, <1>3
<1>5. ASSUME NEW j \in 0 .. n - 1
      PROVE  /\ TwapFraction(j) \in 0 .. Unit /\ TwapFraction(j + 1) \in 0 .. Unit
             /\ TwapFraction(j + 1) =< TwapFraction(j)
    <2>1. n - j \in Nat /\ n - (j + 1) \in Nat /\ n - j =< n /\ n - (j + 1) =< n - j
        BY <1>1
    <2>2. d * (n - j) \in Nat /\ d * (n - (j + 1)) \in Nat
        BY <1>2, <2>1
    <2>3. d * (n - j) =< d * n /\ d * (n - (j + 1)) =< d * (n - j)
        BY <1>1, <1>2, <2>1, Times
    <2> QED
        BY <1>1, <1>2, <1>3, <2>2, <2>3
<1> QED
    BY <1>4, <1>5 DEF n

---------------------------------------------------------------------------
(* The curve behind the last entry filled. *)
Curve ==
    /\ frac \in [0 .. num_steps -> Int]
    /\ step < num_steps =>
          /\ kind = "vwap" => frac[step] \in Nat
          /\ kind = "ac_linear" => frac[step] = TwapFraction(step)
          /\ kind = "ac_sinh" => frac[step] \in 0 .. Unit

LEMMA ErrorsAre ==
    ErrorsDoNotAccumulate <=>
        (kind # "rl" =>
            \A j \in 0 .. step : (j < num_steps /\ frac[j] # NaN) =>
                Within(parent_qty, CurveQty(j), AtMost(frac[j], Unit)))
    BY DEF ErrorsDoNotAccumulate, Within, Tolerance

LEMMA InitErrors == Init => Curve /\ ErrorsDoNotAccumulate
<1> SUFFICES ASSUME Init PROVE Curve /\ ErrorsDoNotAccumulate
    OBVIOUS
<1>1. /\ num_steps \in 1 .. MaxSteps /\ parent_qty \in Nat /\ step = 0 /\ Unit \in Nat
      /\ num_steps \in Nat /\ num_steps >= 1
    BY StrategyAssumption DEF Init
<1>2. /\ frac \in [0 .. num_steps -> Int]
      /\ frac[0] = IF kind \in AcKinds THEN Unit ELSE 0
      /\ remaining[0] = parent_qty
    BY <1>1 DEF Init
<1>3. TwapFraction(0) = Unit
    BY <1>1, TwapFalls
<1>4. Curve
    BY <1>1, <1>2, <1>3 DEF Curve, AcKinds
<1>5. kind # "rl" => Within(parent_qty, CurveQty(0), AtMost(frac[0], Unit))
    <2>1. CASE kind = "vwap"
        <3>1. CurveQty(0) = 0 /\ AtMost(frac[0], Unit) = 0
            BY <1>1, <1>2, <2>1 DEF CurveQty, AtMost, AcKinds
        <3>2. Within(parent_qty, 0, 0)
            BY <1>1, ToleranceIsNat, WithinIs
        <3> QED
            BY <3>1, <3>2
    <2>2. CASE kind \in AcKinds
        <3>1. CurveQty(0) = parent_qty /\ AtMost(frac[0], Unit) = Unit
            BY <1>1, <1>2, <2>2 DEF CurveQty, AtMost, AcKinds
        <3>2. Unit * parent_qty = parent_qty * Unit
            BY <1>1
        <3>3. Within(parent_qty, parent_qty, Unit)
            BY <1>1, <3>2, ToleranceIsNat, WithinIs
        <3> QED
            BY <3>1, <3>3
    <2> QED
        BY <2>1, <2>2 DEF Init
<1> QED
    BY <1>1, <1>4, <1>5, ErrorsAre

(* A slice adds one entry to the table. *)
LEMMA SliceErrors ==
    ASSUME TypeOK, ErrorsDoNotAccumulate, step < num_steps, step' = step + 1,
           UNCHANGED params,
           \A j \in 0 .. step : remaining'[j] = remaining[j] /\ frac'[j] = frac[j],
           NEW q, q = IF kind = "vwap" THEN parent_qty - remaining'[step + 1]
                      ELSE remaining'[step + 1],
           (step + 1 < num_steps /\ frac'[step + 1] # NaN) =>
               Within(parent_qty, q, AtMost(frac'[step + 1], Unit))
    PROVE  ErrorsDoNotAccumulate'
<1>1. step \in Nat /\ num_steps \in Nat
    BY Numbers
<1>2. SUFFICES ASSUME kind # "rl", NEW j \in 0 .. step + 1, j < num_steps, frac'[j] # NaN
               PROVE  2 * Distance(Unit * CurveQty(j)', parent_qty * AtMost(frac'[j], Unit))
                          =< Unit * (1 + 2 * Ulp)
    BY DEF ErrorsDoNotAccumulate, params
<1>3. CASE j = step + 1
    <2>1. CurveQty(j)' = q
        BY <1>3 DEF CurveQty, params
    <2> QED
        BY <1>2, <1>3, <2>1 DEF Within, Tolerance
<1>4. CASE j # step + 1
    <2>1. j \in 0 .. step
        BY <1>1, <1>4
    <2>2. CurveQty(j)' = CurveQty(j)
        BY <2>1 DEF CurveQty, params
    <2> QED
        BY <1>2, <2>1, <2>2 DEF ErrorsDoNotAccumulate
<1> QED
    BY <1>3, <1>4


LEMMA VwapErrors ==
    ASSUME Inv, Curve, ErrorsDoNotAccumulate, VwapSlice
    PROVE  Curve' /\ ErrorsDoNotAccumulate'
<1>1. TypeOK /\ Agrees
    BY DEF Inv
<1>2. /\ parent_qty \in Nat /\ step \in Nat /\ num_steps \in Nat /\ last \in 0 .. parent_qty
      /\ last \in Nat /\ Unit \in Nat
    BY <1>1, Numbers, ToleranceIsNat
<1>3. PICK w \in Weights :
          /\ frac' = [frac EXCEPT ![step + 1] = frac[step] + w]
          /\ \E target \in VwapTargets(frac[step] + w) :
                remaining' = [remaining EXCEPT ![step + 1] = Minus(parent_qty, target)]
    BY DEF VwapSlice
<1>4. PICK t \in VwapTargets(frac[step] + w) :
          remaining' = [remaining EXCEPT ![step + 1] = Minus(parent_qty, t)]
    BY <1>3
<1>5. kind = "vwap" /\ step < num_steps /\ step' = step + 1 /\ UNCHANGED params
    BY DEF VwapSlice
<1> DEFINE f == frac[step]
           g == frac[step] + w
<1>6. f \in Nat /\ g \in Nat /\ f =< g
    <2>1. w \in Nat
        BY StrategyAssumption
    <2>2. f \in Nat
        BY <1>5 DEF Curve
    <2> QED
        BY <2>1, <2>2
<1> HIDE DEF f, g
<1>7. frac' = [frac EXCEPT ![step + 1] = g] /\ frac \in [0 .. num_steps -> Int]
    BY <1>3 DEF g, Curve
<1>8. step + 1 \in 0 .. num_steps /\ step + 1 \notin 0 .. step /\ 0 .. step \subseteq 0 .. num_steps
    BY <1>2, <1>5
<1>9. /\ frac' \in [0 .. num_steps -> Int] /\ frac'[step + 1] = g
      /\ \A j \in 0 .. step : frac'[j] = frac[j]
    BY <1>6, <1>7, <1>8
<1>10. remaining \in [0 .. num_steps -> 0 .. parent_qty]
    BY <1>1 DEF TypeOK
<1>11. /\ remaining'[step + 1] = Minus(parent_qty, t)
       /\ \A j \in 0 .. step : remaining'[j] = remaining[j]
    BY <1>4, <1>8, <1>10
<1>12. t \in last .. parent_qty
    BY <1>1, VwapTargetBounds
<1>13. parent_qty - remaining'[step + 1] = t
    BY <1>2, <1>11, <1>12 DEF Minus
<1>14. Curve'
    BY <1>5, <1>6, <1>9 DEF Curve, params
<1>15. step + 1 < num_steps => Within(parent_qty, t, AtMost(g, Unit))
    <2>1. SUFFICES ASSUME step + 1 < num_steps PROVE Within(parent_qty, t, AtMost(g, Unit))
        OBVIOUS
    <2>2. step + 1 # num_steps
        BY <1>2, <2>1
    <2>3. PICK x \in LLRound(parent_qty, AtMost(g, Unit)) :
              t = AtLeast(AtMost(x, parent_qty), last)
        BY <2>2 DEF VwapTargets, g
    <2>4. /\ AtMost(f, Unit) \in 0 .. Unit /\ AtMost(g, Unit) \in 0 .. Unit
          /\ AtMost(f, Unit) =< AtMost(g, Unit) /\ AtMost(g, Unit) \in Nat
        BY <1>2, <1>6 DEF AtMost
    <2>5. x \in Nat /\ Within(parent_qty, x, AtMost(g, Unit))
        BY <1>2, <2>4, LLRoundWithin
    <2>6. Within(parent_qty, last, AtMost(f, Unit))
        <3>1. remaining[step] \in Nat /\ last = parent_qty - remaining[step]
            BY <1>1, <1>2, <1>5, Numbers DEF Agrees
        <3>2. CurveQty(step) = last
            BY <1>5, <3>1 DEF CurveQty
        <3>3. step \in 0 .. step /\ frac[step] # NaN
            BY <1>2, <1>6 DEF NaN, f
        <3> QED
            BY <1>5, <3>2, <3>3, ErrorsAre DEF f
    <2> QED
        BY <1>2, <2>3, <2>4, <2>5, <2>6, ClampedUp
<1> QED
    BY <1>1, <1>5, <1>9, <1>11, <1>13, <1>14, <1>15, SliceErrors

LEMMA AcErrors ==
    ASSUME Inv, Curve, ErrorsDoNotAccumulate, AcSlice
    PROVE  Curve' /\ ErrorsDoNotAccumulate'
<1>1. TypeOK /\ Agrees
    BY DEF Inv
<1>2. /\ parent_qty \in Nat /\ step \in Nat /\ num_steps \in Nat /\ last \in Nat
      /\ Unit \in Nat /\ num_steps \in 1 .. MaxSteps
    BY <1>1, Numbers, ToleranceIsNat DEF TypeOK
<1>3. PICK f \in AcFractions(step + 1) :
          /\ frac' = [frac EXCEPT ![step + 1] = f]
          /\ \E r \in LLRound(parent_qty, f) :
                remaining' = [remaining EXCEPT ![step + 1] = AtMost(r, last)]
    BY DEF AcSlice
<1>4. PICK r \in LLRound(parent_qty, f) :
          remaining' = [remaining EXCEPT ![step + 1] = AtMost(r, last)]
    BY <1>3
<1>5. /\ kind \in AcKinds /\ kind # "vwap" /\ kind # "rl" /\ step + 1 < num_steps
      /\ step < num_steps /\ step' = step + 1 /\ UNCHANGED params
    BY <1>2 DEF AcSlice, AcKinds
<1>6. r \in Nat
    BY LLRoundIsNat
<1> DEFINE g == frac[step]
<1>7. (step + 1) - 1 = step /\ step \in 0 .. num_steps - 1
    BY <1>2, <1>5
<1>8. /\ TwapFraction(step) \in 0 .. Unit /\ TwapFraction(step + 1) \in 0 .. Unit
      /\ TwapFraction(step + 1) =< TwapFraction(step)
    BY <1>2, <1>7, TwapFalls
<1>9. /\ f \in 0 .. Unit \/ f = NaN
      /\ kind = "ac_linear" => f = TwapFraction(step + 1)
      /\ kind = "ac_sinh" => f \in 0 .. Unit
      /\ (f # NaN /\ f # 0) => g \in 0 .. Unit /\ f =< g
    <2>1. CASE kind = "ac_linear"
        <3>1. f = TwapFraction(step + 1) /\ g = TwapFraction(step)
            BY <1>5, <2>1 DEF AcFractions, Curve
        <3> QED
            BY <1>8, <2>1, <3>1
    <2>2. CASE kind = "ac_sinh"
        <3>1. f \in 0 .. AtMost(TwapFraction(step + 1), g) /\ g \in 0 .. Unit
            BY <1>5, <1>7, <2>2 DEF AcFractions, Curve
        <3>2. /\ AtMost(TwapFraction(step + 1), g) =< g
              /\ AtMost(TwapFraction(step + 1), g) \in 0 .. Unit
            BY <1>2, <1>8, <3>1 DEF AtMost
        <3>3. f \in 0 .. Unit /\ f =< g
            BY <1>2, <3>1, <3>2
        <3> QED
            BY <2>2, <3>1, <3>3
    <2>3. CASE kind = "ac_overflow"
        <3>1. f = 0 \/ f = NaN
            BY <2>3 DEF AcFractions
        <3>2. 0 \in 0 .. Unit
            BY <1>2
        <3> QED
            BY <2>3, <3>1, <3>2
    <2> QED
        BY <1>5, <2>1, <2>2, <2>3 DEF AcKinds
<1>10. f \in Int /\ (f # NaN => f \in Nat /\ AtMost(f, Unit) = f)
    BY <1>2, <1>9 DEF AtMost, NaN
<1>11. /\ step + 1 \in 0 .. num_steps /\ step + 1 \notin 0 .. step
       /\ 0 .. step \subseteq 0 .. num_steps
    BY <1>2, <1>5
<1>12. /\ frac' \in [0 .. num_steps -> Int] /\ frac'[step + 1] = f
       /\ \A j \in 0 .. step : frac'[j] = frac[j]
    BY <1>3, <1>10, <1>11 DEF Curve
<1>13. remaining \in [0 .. num_steps -> 0 .. parent_qty]
    BY <1>1 DEF TypeOK
<1>14. /\ remaining'[step + 1] = AtMost(r, last)
       /\ \A j \in 0 .. step : remaining'[j] = remaining[j]
    BY <1>4, <1>11, <1>13
<1>15. Curve'
    BY <1>5, <1>9, <1>12 DEF Curve, params, TwapFraction
<1>16. f # NaN => Within(parent_qty, AtMost(r, last), f)
    <2>1. SUFFICES ASSUME f # NaN PROVE Within(parent_qty, AtMost(r, last), f)
        OBVIOUS
    <2>2. Within(parent_qty, r, f)
        BY <1>2, <1>10, <2>1, LLRoundWithin
    <2>3. f # 0 => g \in Nat /\ f =< g /\ Within(parent_qty, last, g)
        <3>1. SUFFICES ASSUME f # 0 PROVE g \in Nat /\ f =< g /\ Within(parent_qty, last, g)
            OBVIOUS
        <3>2. g \in Nat /\ f =< g /\ g # NaN /\ AtMost(g, Unit) = g
            BY <1>2, <1>9, <2>1, <3>1 DEF NaN, AtMost
        <3>3. CurveQty(step) = last
            BY <1>1, <1>5 DEF Agrees, CurveQty
        <3>4. step \in 0 .. step
            BY <1>2
        <3>5. Within(parent_qty, CurveQty(step), AtMost(frac[step], Unit))
            BY <1>5, <3>2, <3>4, ErrorsAre
        <3> QED
            BY <3>2, <3>3, <3>5
    <2> HIDE DEF g
    <2> QED
        BY <1>2, <1>6, <1>10, <2>1, <2>2, <2>3, ClampedDown
<1> QED
    BY <1>1, <1>5, <1>10, <1>12, <1>14, <1>15, <1>16, SliceErrors

LEMMA NextErrors ==
    Inv /\ Curve /\ ErrorsDoNotAccumulate /\ [Next]_vars => Curve' /\ ErrorsDoNotAccumulate'
<1> SUFFICES ASSUME Inv, Curve, ErrorsDoNotAccumulate, [Next]_vars
             PROVE  Curve' /\ ErrorsDoNotAccumulate'
    OBVIOUS
<1>1. TypeOK
    BY DEF Inv
<1>2. CASE VwapSlice
    BY <1>2, VwapErrors
<1>3. CASE AcSlice
    BY <1>3, AcErrors
<1>4. CASE AcCloseOut
    <2>1. /\ step + 1 = num_steps /\ step' = step + 1 /\ UNCHANGED params
          /\ UNCHANGED <<remaining, frac>>
        BY <1>4 DEF AcCloseOut
    <2>2. step < num_steps /\ ~(step + 1 < num_steps) /\ ~(step' < num_steps')
        BY <1>1, <2>1, Numbers DEF params
    <2>3. Curve'
        BY <2>1, <2>2 DEF Curve, params
    <2> QED
        BY <1>1, <2>1, <2>2, <2>3, SliceErrors
<1>5. CASE ComputeNextAction
    BY <1>5 DEF ComputeNextAction, Curve, ErrorsDoNotAccumulate, params
<1>6. CASE SubmitNothing \/ SubmitStep \/ UNCHANGED vars
    <2>1. UNCHANGED <<params, tables>>
        BY <1>6 DEF SubmitNothing, SubmitStep, vars
    <2>2. \A j : TwapFraction(j)' = TwapFraction(j) /\ CurveQty(j)' = CurveQty(j)
        BY <2>1 DEF TwapFraction, CurveQty, params, tables
    <2>3. Curve'
        BY <2>1, <2>2 DEF Curve, params, tables, TwapFraction
    <2>4. ErrorsDoNotAccumulate'
        BY <2>1, <2>2 DEF ErrorsDoNotAccumulate, CurveQty, params, tables
    <2> QED
        BY <2>3, <2>4
<1> QED
    BY <1>2, <1>3, <1>4, <1>5, <1>6 DEF Next

(* However many steps there are, and however far apart they are, no entry  *)
(* of a VWAP or Almgren-Chriss table is further from the real-valued curve *)
(* than one rounding: clamping a target to what was sent, or a remainder   *)
(* to what remained, adds no error, because the curve is monotone.         *)
THEOREM StrategyErrorsDoNotAccumulate == Spec => []ErrorsDoNotAccumulate
<1>1. Spec => [](Curve /\ ErrorsDoNotAccumulate)
    BY Invariance, InitErrors, NextErrors, PTL DEF Spec
<1> QED
    BY <1>1, PTL
============================================================================
