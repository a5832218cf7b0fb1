------------------------------ MODULE Strategy ------------------------------
(***************************************************************************)
(* The execution strategies (cpp/exec): VWAP and Almgren-Chriss build      *)
(* their table of child orders in the constructor, the RL policy fills one *)
(* entry per call of ComputeNextAction.  SubmitStep sends entry j.         *)
(*                                                                         *)
(* A double in [0, 1] is a number of Units.  llround(Q * c) is any integer *)
(* within one half plus Ulp of the exact product: Ulp = 0 is exact         *)
(* arithmetic, and a larger one is what a parent above 2^53 loses in its   *)
(* conversion to double.  llround of a NaN is what the build makes of it:  *)
(* LLONG_MIN on x86, which is half the range of Quantity, or 0 on ARM.     *)
(***************************************************************************)
EXTENDS Integers

CONSTANTS MaxQty, MaxSteps,     \* bounds on parent_qty and num_steps
          Weights,              \* entries of a volume profile, in Units
          Unit, Ulp,
          Word                  \* Quantity wraps at Word

ASSUME StrategyAssumption ==
    /\ MaxQty \in Nat /\ MaxSteps \in Nat \ {0}
    /\ Unit \in Nat \ {0} /\ Ulp \in Nat /\ Weights \subseteq Nat
    /\ \A n \in 1 .. MaxSteps : Unit % n = 0
    /\ Word \in Nat /\ Word > 2 * MaxQty

VARIABLES kind,                 \* the strategy; for AC, the range kappa * T is in
          parent_qty, num_steps,
          child_qty, remaining,
          step,                 \* entries filled; the RL policy's current_step_
          last,                 \* the constructors' local: sent, or prev
          frac,                 \* the fraction behind each entry of remaining
          submitted,            \* SubmitStep calls so far
          accepted, refused     \* quantity sent with AddLimit, by its result

tables == <<child_qty, remaining, step, last, frac>>
params == <<kind, parent_qty, num_steps>>
sends == <<submitted, accepted, refused>>
vars == <<params, tables, sends>>

AcKinds == {"ac_linear", "ac_sinh", "ac_overflow"}
Quantity == 0 .. Word - 1
NaN == -1

(* Unsigned subtraction. *)
Minus(a, b) == IF a >= b THEN a - b ELSE a - b + Word
AtMost(a, b) == IF a > b THEN b ELSE a
AtLeast(a, b) == IF a < b THEN b ELSE a

LLRound(qty, f) ==
    IF f = NaN THEN {0, Word \div 2}
    ELSE { x \in Quantity : /\ 2 * Unit * x =< 2 * qty * f + Unit * (1 + 2 * Ulp)
                            /\ 2 * Unit * x >= 2 * qty * f - Unit * (1 + 2 * Ulp) }

Init ==
    /\ kind \in {"vwap", "rl"} \cup AcKinds
    /\ parent_qty \in 0 .. MaxQty
    /\ num_steps \in 1 .. MaxSteps
    /\ child_qty = [j \in 0 .. num_steps - 1 |-> 0]
    /\ remaining = [j \in 0 .. num_steps |-> IF j = 0 THEN parent_qty ELSE 0]
    /\ frac = [j \in 0 .. num_steps |-> IF j = 0 /\ kind \in AcKinds THEN Unit ELSE 0]
    /\ step = 0
    /\ last = IF kind \in AcKinds THEN parent_qty ELSE 0
    /\ submitted = 0 /\ accepted = 0 /\ refused = 0

---------------------------------------------------------------------------
(* One turn of the VWAP constructor: round the cumulative target, clamp it *)
(* to the parent and to what was sent, send the difference.                *)

VwapTargetsUnanchored(cum) ==
    { AtLeast(AtMost(x, parent_qty), last) : x \in LLRound(parent_qty, AtMost(cum, Unit)) }
VwapTargetsPerSlice(cum) ==
    IF step + 1 = num_steps THEN {parent_qty}
    ELSE { AtMost(last + x, parent_qty) : x \in LLRound(parent_qty, cum - frac[step]) }
VwapTargets(cum) ==
    IF step + 1 = num_steps THEN {parent_qty}
    ELSE { AtLeast(AtMost(x, parent_qty), last) :
              x \in LLRound(parent_qty, AtMost(cum, Unit)) }

VwapSlice ==
    /\ kind = "vwap" /\ step < num_steps
    /\ \E w \in Weights :
          /\ frac' = [frac EXCEPT ![step + 1] = frac[step] + w]
          /\ \E target \in VwapTargets(frac[step] + w) :
                /\ child_qty' = [child_qty EXCEPT ![step] = Minus(target, last)]
                /\ remaining' = [remaining EXCEPT ![step + 1] = Minus(parent_qty, target)]
                /\ last' = target
    /\ step' = step + 1
    /\ UNCHANGED <<params, sends>>

---------------------------------------------------------------------------
(* The Almgren-Chriss constructor.  The fraction left after step j is      *)
(* (T - t) / T in the TWAP limit and below it, decreasing, otherwise.      *)
(* When sinh(kappa T) overflows to infinity the quotient is a NaN while    *)
(* the numerator overflows too, and 0 from then on.                        *)

TwapFraction(j) == (Unit \div num_steps) * (num_steps - j)

AcFractions(j) ==
    CASE kind = "ac_linear"   -> {TwapFraction(j)}
      [] kind = "ac_sinh"     -> 0 .. AtMost(TwapFraction(j), frac[j - 1])
      [] kind = "ac_overflow" -> IF frac[j - 1] = 0 THEN {0} ELSE {NaN, 0}

AcSliceUnclamped ==
    /\ kind \in AcKinds /\ step + 1 < num_steps
    /\ \E f \in AcFractions(step + 1) : \E x \in LLRound(parent_qty, f) :
          /\ frac' = [frac EXCEPT ![step + 1] = f]
          /\ remaining' = [remaining EXCEPT ![step + 1] = x]
          /\ child_qty' = [child_qty EXCEPT ![step] = Minus(last, x)]
          /\ last' = x
    /\ step' = step + 1
    /\ UNCHANGED <<params, sends>>
AcSlice ==
    /\ kind \in AcKinds /\ step + 1 < num_steps
    /\ \E f \in AcFractions(step + 1) : \E r \in LLRound(parent_qty, f) :
          LET x == AtMost(r, last) IN
          /\ frac' = [frac EXCEPT ![step + 1] = f]
          /\ remaining' = [remaining EXCEPT ![step + 1] = x]
          /\ child_qty' = [child_qty EXCEPT ![step] = Minus(last, x)]
          /\ last' = x
    /\ step' = step + 1
    /\ UNCHANGED <<params, sends>>

AcCloseOut ==
    /\ kind \in AcKinds /\ step + 1 = num_steps
    /\ child_qty' = [child_qty EXCEPT ![step] = last]
    /\ step' = step + 1
    /\ UNCHANGED <<params, sends, remaining, last, frac>>

---------------------------------------------------------------------------
(* ComputeNextAction: the actor's size_fraction is anything, a NaN too,    *)
(* which ClampUnit lets through.                                           *)

ClampUnit == {NaN} \cup 0 .. Unit

RlQuantities ==
    IF step + 1 = num_steps THEN {remaining[step]}
    ELSE { AtMost(x, remaining[step]) :
              x \in UNION { LLRound(remaining[step], f) : f \in ClampUnit } }

ComputeNextAction ==
    /\ kind = "rl" /\ step < num_steps
    /\ \E q \in RlQuantities :
          /\ child_qty' = [child_qty EXCEPT ![step] = q]
          /\ remaining' = [remaining EXCEPT ![step + 1] = Minus(remaining[step], q)]
    /\ step' = step + 1
    /\ UNCHANGED <<params, sends, last, frac>>

---------------------------------------------------------------------------
(* SubmitStep, in step order: a table is complete before its first entry   *)
(* is sent, the RL policy's entry is computed before it is sent.  AddLimit *)
(* may refuse.                                                             *)

Built == IF kind = "rl" THEN submitted < step
         ELSE step = num_steps /\ submitted < num_steps

SubmitNothing ==
    /\ Built
    /\ child_qty[submitted] = 0
    /\ submitted' = submitted + 1
    /\ UNCHANGED <<params, tables, accepted, refused>>

SubmitStep ==
    /\ Built
    /\ child_qty[submitted] # 0
    /\ submitted' = submitted + 1
    /\ \/ /\ accepted' = accepted + child_qty[submitted]
          /\ refused' = refused
       \/ /\ refused' = refused + child_qty[submitted]
          /\ accepted' = accepted
    /\ UNCHANGED <<params, tables>>

---------------------------------------------------------------------------
Next ==
    \/ VwapSlice
    \/ AcSlice \/ AcCloseOut
    \/ ComputeNextAction
    \/ SubmitNothing \/ SubmitStep

Spec == Init /\ [][Next]_vars

---------------------------------------------------------------------------
(* No slice and no remainder exceeds the parent: none of the unsigned      *)
(* subtractions behind them ever wraps.                                    *)
TypeOK ==
    /\ kind \in {"vwap", "rl"} \cup AcKinds
    /\ parent_qty \in 0 .. MaxQty /\ num_steps \in 1 .. MaxSteps
    /\ step \in 0 .. num_steps /\ submitted \in 0 .. step
    /\ child_qty \in [0 .. num_steps - 1 -> 0 .. parent_qty]
    /\ remaining \in [0 .. num_steps -> 0 .. parent_qty]
    /\ last \in 0 .. parent_qty
    /\ accepted \in Nat /\ refused \in Nat

(* strategy.hpp: "A SELL of Q sends N children whose Quantity values sum   *)
(* to Q" and RemainingAfterStep(j) is the inventory after j children.  At  *)
(* every point of the submission what was sent and what the table calls    *)
(* remaining make up the parent, and nothing remains at the end: for every *)
(* profile, every kappa, every actor and every rounding.                   *)
SentPlusRemaining ==
    /\ accepted + refused + remaining[submitted] = parent_qty
    /\ submitted = num_steps => accepted + refused = parent_qty

(* vwap.hpp's "cumulative rounding": however many steps there are, the     *)
(* table is never further from the real-valued curve than one rounding.    *)
Distance(a, b) == IF a >= b THEN a - b ELSE b - a
CurveQty(j) == IF kind = "vwap" THEN parent_qty - remaining[j] ELSE remaining[j]
ErrorsDoNotAccumulate ==
    kind # "rl" =>
        \A j \in 0 .. step : (j < num_steps /\ frac[j] # NaN) =>
            2 * Distance(Unit * CurveQty(j), parent_qty * AtMost(frac[j], Unit))
                =< Unit * (1 + 2 * Ulp)

(* What makes the first two inductive: neighbours in the two tables        *)
(* differ by the child between them, entries to come are still 0, and the  *)
(* constructors' local agrees with the table.                              *)
Chained ==
    /\ \A j \in 0 .. step - 1 : remaining[j] = child_qty[j] + remaining[j + 1]
    /\ \A j \in step + 1 .. num_steps : remaining[j] = 0
    /\ step = num_steps => remaining[num_steps] = 0
Agrees ==
    (kind # "rl" /\ step < num_steps) =>
        last = IF kind = "vwap" THEN parent_qty - remaining[step] ELSE remaining[step]
Inv == TypeOK /\ Chained /\ Agrees /\ SentPlusRemaining

---------------------------------------------------------------------------
(* almgren_chriss_test.cpp, LargeLambdaIsFrontLoaded: "At the mid-point,   *)
(* the urgent schedule should have already worked more of the parent than  *)
(* the linear TWAP schedule", up to one unit of rounding.                  *)
UrgentIsFrontLoaded ==
    (kind \in {"ac_sinh", "ac_overflow"} /\ step = num_steps) =>
        LET mid == num_steps \div 2 IN
        Unit * remaining[mid] =< parent_qty * TwapFraction(mid) + Unit * (1 + Ulp)
===========================================================================
