---------------------------- MODULE ExecutionMath ----------------------------
(***************************************************************************)
(* crates/math/src/fees.rs: the price an order executes at, moved by the   *)
(* open interest it meets and by the pair's spread.  The contracts open at *)
(* the oracle's price and do not call these functions yet.                 *)
(***************************************************************************)
EXTENDS Scale

Against(price, amount, isLong) == IF isLong THEN price + amount ELSE price - amount

(* Mutant: the order's own open interest counts in full. *)
ImpactPOfWhole(startOi, tradeOi, onePercentDepth) ==
    MulDivFloor(startOi + tradeOi, P_SCALE, USDC_SCALE * onePercentDepth)

(* The impact, in percent, at the middle of the order. *)
ImpactP(startOi, tradeOi, onePercentDepth) ==
    MulDivFloor(startOi + DivTrunc(tradeOi, 2), P_SCALE, USDC_SCALE * onePercentDepth)

(* A depth of zero is one that was not set. *)
PriceAfterImpact(openPrice, isLong, startOi, tradeOi, onePercentDepth) ==
    IF onePercentDepth = 0 THEN openPrice
    ELSE Against(openPrice,
                 DivTrunc(MulDivFloor(ImpactP(startOi, tradeOi, onePercentDepth), openPrice,
                                      P_SCALE), 100),
                 isLong)

(* Mutant: the sides are swapped. *)
ApplySpreadSwapped(price, spreadP, isLong) ==
    Against(price, DivTrunc(MulDivFloor(price, spreadP, P_SCALE), 100), ~isLong)

ApplySpread(price, spreadP, isLong) ==
    Against(price, DivTrunc(MulDivFloor(price, spreadP, P_SCALE), 100), isLong)

(* apply_spread_and_impact: the impact first. *)
ExecutionPrice(openPrice, spreadP, isLong, startOi, tradeOi, onePercentDepth) ==
    ApplySpread(PriceAfterImpact(openPrice, isLong, startOi, tradeOi, onePercentDepth),
                spreadP, isLong)
=============================================================================
