------------------------------ MODULE PoolCurves ------------------------------
(***************************************************************************)
(* What a pool returns for an offer, and what must be offered for a return, *)
(* on the constant product and on the stableswap curve                      *)
(* (terraswap_pair/src/helpers.rs, queries.rs and math.rs).  These are the  *)
(* computations by which pools answer simulations and make swaps;           *)
(* TerraswapPair is the whole of a pool of the first kind.                  *)
(*                                                                          *)
(* A Decimal is the number of its atomics, One of them making 1; a scale    *)
(* is the number of atomics in the smallest unit of an asset.  A            *)
(* computation that fails has the result Undefined.                         *)
(***************************************************************************)
EXTENDS Integers

CONSTANTS
  One,           \* the atomics of Decimal256::one() on the stableswap curve
  Unit,          \* fees are in units of 1/Unit, and so are their inverses
  Undefined

ASSUME CurveAssumption ==
  One \in Nat \ {0} /\ Unit \in Nat \ {0} /\ Undefined \notin Nat

NCoins == 2
NewtonIterations == 32

(* The fees of a return, and all of them together. *)
FeeKinds == {"protocol", "swap", "burn"}
FeesOn(amount, fees) == [f \in FeeKinds |-> (amount * fees[f]) \div Unit]
TotalOf(f) == f.protocol + f.swap + f.burn

(* Newton's method: from a first value until a step is no longer than the   *)
(* tolerance, or not at all; a step that fails ends it.                     *)
NewtonStep(step, tolerance, acc) ==
  LET next == step[acc.value] IN
  IF acc.done THEN acc
  ELSE [value |-> next,
        done |-> next = Undefined \/ next - acc.value \in (-tolerance)..tolerance]
NewtonSteps(step, first, tolerance) ==
  LET iterate[i \in 0..NewtonIterations] ==
        IF i = 0 THEN [value |-> first, done |-> FALSE]
        ELSE NewtonStep(step, tolerance, iterate[i - 1]) IN
  iterate
Newton(step, first, tolerance) ==
  LET last == NewtonSteps(step, first, tolerance)[NewtonIterations] IN
  IF last.done THEN last.value ELSE Undefined

-----------------------------------------------------------------------------
(* The stableswap curve *)

Mul(x, y) == (x * y) \div One
Div(x, y) == (x * One) \div y

(* calculate_stableswap_d: the sum of both pools if they were balanced.     *)
StableD(offer_pool, ask_pool, amp, tolerance) ==
  LET sum == offer_pool + ask_pool
      ann == amp * NCoins * One
      Product(d) == LET half == (d * d) \div Mul(offer_pool, NCoins * One) IN
                    (half * d) \div Mul(ask_pool, NCoins * One)
      Above(d) == Mul(Mul(ann, sum) + Mul(Product(d), NCoins * One), d)
      Below(d) == Mul(ann - One, d) + Mul((NCoins + 1) * One, Product(d))
      step == [d \in Nat |-> IF Below(d) = 0 THEN Undefined ELSE Div(Above(d), Below(d))] IN
  IF sum = 0 THEN 0
  ELSE IF offer_pool = 0 \/ ask_pool = 0 THEN Undefined
  ELSE Newton(step, sum, tolerance)

(* calculate_stableswap_y: the amount that belongs to pool_sum of the other *)
(* asset, all in units of one scale.                                        *)
StableRootNoCoins(d, pool_sum, ann) ==                           \* mutant
  LET c == (((d * d) \div pool_sum) * d) \div ann
      b == pool_sum + d \div ann
      step == [y \in Nat |-> IF 2 * y + b <= d THEN Undefined
                             ELSE (y * y + c) \div (2 * y + b - d)] IN
  Newton(step, d, 1)
StableRoot(d, pool_sum, ann) ==
  LET c == (((d * d) \div (pool_sum * NCoins)) * d) \div (ann * NCoins)
      b == pool_sum + d \div ann
      step == [y \in Nat |-> IF 2 * y + b <= d THEN Undefined
                             ELSE (y * y + c) \div (2 * y + b - d)] IN
  Newton(step, d, 1)

StableY(offer_pool, ask_pool, pool_sum, amp, scale) ==
  LET d == StableD(offer_pool, ask_pool, amp, scale) IN
  IF d = Undefined \/ pool_sum < scale THEN Undefined
  ELSE StableRoot(d \div scale, pool_sum \div scale, amp * NCoins)

-----------------------------------------------------------------------------
(* compute_swap: pools, an offer, and a type of pair, whose amp is zero for *)
(* the constant product.                                                    *)

GrossReturn(offer_pool, ask_pool, offer, type) ==
  IF type.amp = 0 THEN
    IF offer_pool = 0 THEN Undefined
    ELSE LET gross == (ask_pool * offer) \div (offer_pool + offer)
             at_price == (offer * ((ask_pool * Unit) \div offer_pool)) \div Unit IN
         IF at_price < gross THEN Undefined ELSE gross
  ELSE
    LET new_pool == StableY(offer_pool * type.offer_scale, ask_pool * type.ask_scale,
                            (offer_pool + offer) * type.offer_scale,
                            type.amp, type.ask_scale) IN
    IF new_pool = Undefined \/ new_pool > ask_pool THEN Undefined ELSE ask_pool - new_pool

(* What the receiver gets, and the fees. *)
ComputeSwap(offer_pool, ask_pool, offer, fees, type) ==
  LET gross == GrossReturn(offer_pool, ask_pool, offer, type)
      cut == FeesOn(gross, fees) IN
  IF gross = Undefined THEN Undefined
  ELSE [return |-> gross - TotalOf(cut), fees |-> cut]

-----------------------------------------------------------------------------
(* query_reverse_simulation: what must be offered for an amount. *)

(* The amount before the fees were taken.  (Fees below the whole.)          *)
BeforeFeesNone(ask, fees) == ask                                 \* mutant
BeforeFees(ask, fees) == (ask * ((Unit * Unit) \div (Unit - TotalOf(fees)))) \div Unit

(* compute_offer_amount on the constant product, calculate_stableswap_y     *)
(* from the other side on the stableswap curve.                             *)
OfferFor(offer_pool, ask_pool, ask, fees, type) ==
  IF type.amp = 0 THEN
    LET before == BeforeFees(ask, fees) IN
    IF offer_pool = 0 \/ ask_pool <= before THEN Undefined
    ELSE (offer_pool * ask_pool) \div (ask_pool - before) - offer_pool
  ELSE
    LET before == BeforeFees(ask * type.ask_scale, fees)
        scale == IF type.offer_scale < type.ask_scale
                 THEN type.offer_scale ELSE type.ask_scale
        new_pool == StableY(offer_pool * type.offer_scale, ask_pool * type.ask_scale,
                            ask_pool * type.ask_scale - before, type.amp, scale)
        old_pool == (offer_pool * type.offer_scale) \div scale IN
    IF new_pool = Undefined \/ new_pool < old_pool THEN Undefined
    ELSE ((new_pool - old_pool) * scale) \div type.offer_scale

-----------------------------------------------------------------------------
(* The equation of the stableswap curve, times the denominators: negative   *)
(* below its root, which is the exact amount for pool_sum of the other.     *)
CurveAt(y, d, pool_sum, ann) ==
  4 * pool_sum * ann * y * y + 4 * pool_sum * (ann * pool_sum + d - ann * d) * y - d * d * d
=============================================================================
