------------------------------ MODULE TradeMath ------------------------------
(***************************************************************************)
(* crates/math: what a position is worth, and when it may be liquidated.   *)
(* The operators are total; the Err results of the Rust functions (zero    *)
(* collateral, zero leverage, a price that is not positive) are guards of  *)
(* the actions that call them.                                             *)
(***************************************************************************)
EXTENDS Scale

Clamp(x, low, high) == IF x < low THEN low ELSE IF x > high THEN high ELSE x

(* The fee on a notional, at a rate with P_SCALE for one. *)
FeeOn(notional, rateP) == MulDivFloor(notional, rateP, P_SCALE)

(* Mutant: the profit is not capped. *)
UncappedPercentProfit(openPrice, closePrice, isLong, leverage, maxGainP) ==
    LET diff == IF isLong THEN closePrice - openPrice ELSE openPrice - closePrice
    IN MulDivFloor(diff, P_SCALE, openPrice) * leverage * 100

(* Signed profit in percent, scaled by P_SCALE, capped at maxGainP percent *)
(* on either side.                                                         *)
CurrentPercentProfit(openPrice, closePrice, isLong, leverage, maxGainP) ==
    LET diff == IF isLong THEN closePrice - openPrice ELSE openPrice - closePrice
        step == MulDivFloor(diff, P_SCALE, openPrice)
    IN Clamp(step * leverage * 100, -(maxGainP * P_SCALE), maxGainP * P_SCALE)

(* Mutant: the sides are swapped. *)
LiquidationPriceSwapped(open, isLong, collateral, leverage, rollover, funding, liqThresholdP) ==
    LET bearable == DivTrunc(collateral * liqThresholdP, 100) - rollover - funding
        distance == DivTrunc(MulDivFloor(open, bearable, collateral), leverage)
    IN FloorAtZero(IF isLong THEN open + distance ELSE open - distance)

(* Mutant: the distance is not divided by the leverage. *)
LiquidationPriceUnlevered(open, isLong, collateral, leverage, rollover, funding, liqThresholdP) ==
    LET bearable == DivTrunc(collateral * liqThresholdP, 100) - rollover - funding
        distance == MulDivFloor(open, bearable, collateral)
    IN FloorAtZero(IF isLong THEN open - distance ELSE open + distance)

(* The price at which liqThresholdP percent of the collateral is lost.     *)
LiquidationPrice(open, isLong, collateral, leverage, rollover, funding, liqThresholdP) ==
    LET bearable == DivTrunc(collateral * liqThresholdP, 100) - rollover - funding
        distance == DivTrunc(MulDivFloor(open, bearable, collateral), leverage)
    IN FloorAtZero(IF isLong THEN open - distance ELSE open + distance)

(* A liquidation price of zero means there is none. *)
IsLiquidatable(observed, liqPrice, isLong) ==
    /\ liqPrice # 0
    /\ IF isLong THEN observed =< liqPrice ELSE observed >= liqPrice

(* The value of the position before the close fee. *)
SettlementValue(collateral, pnlP, rolloverFee, fundingFee) ==
    collateral + DivTrunc(MulDivFloor(collateral, pnlP, P_SCALE), 100)
               - rolloverFee - fundingFee

(* The value at or below which the position is insolvent. *)
InsolvencyCutoff(collateral, liqThresholdP) ==
    DivTrunc(collateral * FloorAtZero(100 - liqThresholdP), 100)

(* Mutant: an insolvent position is paid what is left of it. *)
SettlementPayoutUnwaived(collateral, pnlP, rolloverFee, fundingFee, closeFee, liqThresholdP) ==
    LET value == SettlementValue(collateral, pnlP, rolloverFee, fundingFee)
    IN IF value =< InsolvencyCutoff(collateral, liqThresholdP)
       THEN [payout |-> FloorAtZero(value), fee |-> 0]
       ELSE [payout |-> FloorAtZero(value - closeFee), fee |-> closeFee]

(* What the trader is paid and the close fee that is charged: nothing and  *)
(* none when insolvent.                                                    *)
SettlementPayout(collateral, pnlP, rolloverFee, fundingFee, closeFee, liqThresholdP) ==
    LET value == SettlementValue(collateral, pnlP, rolloverFee, fundingFee)
    IN IF value =< InsolvencyCutoff(collateral, liqThresholdP)
       THEN [payout |-> 0, fee |-> 0]
       ELSE [payout |-> FloorAtZero(value - closeFee), fee |-> closeFee]

(* Mutant: the percentage is not divided out. *)
ShownPnlUnscaled(collateral, pnlP) == DivTrunc(collateral * pnlP, P_SCALE)

(* What get_trade_pnl shows for a profit in percent: rounded towards zero   *)
(* where the settlement rounds down first.                                 *)
ShownPnl(collateral, pnlP) == DivTrunc(DivTrunc(collateral * pnlP, P_SCALE), 100)
=============================================================================
